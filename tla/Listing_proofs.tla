--------------------------- MODULE Listing_proofs ----------------------------
(***************************************************************************)
(* Proofs about Listing, for any databases, listings, texts and collation. *)
(*                                                                         *)
(* First the order: things told apart by three texts have one order, and a *)
(* thing's place in it is the number of those before it.  Then entries and *)
(* their parts: what an index or key shows after some of its rows, and how *)
(* a row takes one part to the next.  Then what the queries answer: the    *)
(* rows of the things the listing is of, and no others.  Last the          *)
(* invariant: what has been scanned has made whole entries of the things   *)
(* before the one under way, and of that one the part scanned so far.      *)
(***************************************************************************)
EXTENDS Listing, Recursion, FiniteSetTheorems

\* Two indexes, keys or rows of one table and name.
Alike(x, y) == x.table = y.table /\ x.name = y.name

HasName(x) == x.table \in Texts \X Texts /\ x.name \in Texts

-----------------------------------------------------------------------------
\* What comes before what, by three numbers and by four.
LEMMA LessOfThree ==
    ASSUME NEW a, NEW b, DOMAIN a = 1..3
    PROVE  Less(a, b) <=> \/ a[1] < b[1]
                          \/ a[1] = b[1] /\ a[2] < b[2]
                          \/ a[1] = b[1] /\ a[2] = b[2] /\ a[3] < b[3]
<1>1. 1..3 = {1, 2, 3} /\ 1..(1 - 1) = {} /\ 1..(2 - 1) = {1} /\ 1..(3 - 1) = {1, 2}
    OBVIOUS
<1>2. Less(a, b) <=> \/ a[1] < b[1] /\ \A j \in 1..(1 - 1) : a[j] = b[j]
                     \/ a[2] < b[2] /\ \A j \in 1..(2 - 1) : a[j] = b[j]
                     \/ a[3] < b[3] /\ \A j \in 1..(3 - 1) : a[j] = b[j]
    BY <1>1 DEF Less
<1>3. QED
    BY <1>1, <1>2

LEMMA LessOfFour ==
    ASSUME NEW a, NEW b, DOMAIN a = 1..4
    PROVE  Less(a, b) <=> \/ a[1] < b[1]
                          \/ a[1] = b[1] /\ a[2] < b[2]
                          \/ a[1] = b[1] /\ a[2] = b[2] /\ a[3] < b[3]
                          \/ a[1] = b[1] /\ a[2] = b[2] /\ a[3] = b[3] /\ a[4] < b[4]
<1>1. 1..4 = {1, 2, 3, 4} /\ 1..(1 - 1) = {} /\ 1..(2 - 1) = {1} /\ 1..(3 - 1) = {1, 2}
      /\ 1..(4 - 1) = {1, 2, 3}
    OBVIOUS
<1>2. Less(a, b) <=> \/ a[1] < b[1] /\ \A j \in 1..(1 - 1) : a[j] = b[j]
                     \/ a[2] < b[2] /\ \A j \in 1..(2 - 1) : a[j] = b[j]
                     \/ a[3] < b[3] /\ \A j \in 1..(3 - 1) : a[j] = b[j]
                     \/ a[4] < b[4] /\ \A j \in 1..(4 - 1) : a[j] = b[j]
    BY <1>1 DEF Less
<1>3. QED
    BY <1>1, <1>2

\* A key has the ranks of schema, table and name.
LEMMA KeyIs ==
    ASSUME NEW x, HasName(x)
    PROVE  /\ Key(x) \in Seq(Nat) /\ Len(Key(x)) = 3 /\ DOMAIN Key(x) = 1..3
           /\ Key(x)[1] = Rank[x.table[1]] /\ Key(x)[2] = Rank[x.table[2]]
           /\ Key(x)[3] = Rank[x.name]
<1>1. Rank[x.table[1]] \in Nat /\ Rank[x.table[2]] \in Nat /\ Rank[x.name] \in Nat
    BY OrderAssumption DEF HasName
<1>2. QED
    BY <1>1 DEF Key

\* The collation puts texts in one order, and names of tables with it.
LEMMA EarlierIs ==
    ASSUME NEW x, NEW y, HasName(x), HasName(y)
    PROVE  /\ Earlier(x, y) <=>
                \/ Rank[x.table[1]] < Rank[y.table[1]]
                \/ x.table[1] = y.table[1] /\ Rank[x.table[2]] < Rank[y.table[2]]
                \/ x.table = y.table /\ Rank[x.name] < Rank[y.name]
           /\ Rank[x.table[1]] \in Nat /\ Rank[x.table[2]] \in Nat /\ Rank[x.name] \in Nat
           /\ Rank[x.table[1]] = Rank[y.table[1]] => x.table[1] = y.table[1]
           /\ Rank[x.table[2]] = Rank[y.table[2]] => x.table[2] = y.table[2]
           /\ Rank[x.name] = Rank[y.name] => x.name = y.name
           /\ x.table[1] = y.table[1] /\ x.table[2] = y.table[2] => x.table = y.table
           /\ Alike(x, y) => Key(x) = Key(y)
<1>1. /\ x.table[1] \in Texts /\ x.table[2] \in Texts /\ x.name \in Texts
      /\ y.table[1] \in Texts /\ y.table[2] \in Texts /\ y.name \in Texts
      /\ x.table = <<x.table[1], x.table[2]>> /\ y.table = <<y.table[1], y.table[2]>>
    BY DEF HasName
<1>2. /\ Rank[x.table[1]] \in Nat /\ Rank[x.table[2]] \in Nat /\ Rank[x.name] \in Nat
      /\ Rank[y.table[1]] \in Nat /\ Rank[y.table[2]] \in Nat /\ Rank[y.name] \in Nat
    BY <1>1, OrderAssumption
<1>3. /\ Rank[x.table[1]] = Rank[y.table[1]] <=> x.table[1] = y.table[1]
      /\ Rank[x.table[2]] = Rank[y.table[2]] <=> x.table[2] = y.table[2]
      /\ Rank[x.name] = Rank[y.name] <=> x.name = y.name
    BY <1>1, OrderAssumption
<1>4. x.table[1] = y.table[1] /\ x.table[2] = y.table[2] <=> x.table = y.table
    BY <1>1
<1>5. Earlier(x, y) <=>
          \/ Rank[x.table[1]] < Rank[y.table[1]]
          \/ Rank[x.table[1]] = Rank[y.table[1]] /\ Rank[x.table[2]] < Rank[y.table[2]]
          \/ /\ Rank[x.table[1]] = Rank[y.table[1]] /\ Rank[x.table[2]] = Rank[y.table[2]]
             /\ Rank[x.name] < Rank[y.name]
    BY KeyIs, LessOfThree DEF Earlier
<1>6. Alike(x, y) => Key(x) = Key(y)
    BY DEF Alike, Key
<1>7. QED
    BY <1>2, <1>3, <1>4, <1>5, <1>6

\* It is a strict order, total but for those alike.
LEMMA EarlierOrders ==
    ASSUME NEW x, NEW y, NEW z, HasName(x), HasName(y), HasName(z)
    PROVE  /\ ~ (Earlier(x, y) /\ Earlier(y, x))
           /\ Earlier(x, y) /\ Earlier(y, z) => Earlier(x, z)
           /\ Earlier(x, y) \/ Earlier(y, x) \/ Alike(x, y)
           /\ Alike(x, y) => ~ Earlier(x, y) /\ (Earlier(x, z) <=> Earlier(y, z))
                              /\ (Earlier(z, x) <=> Earlier(z, y))
<1>1. ~ (Earlier(x, y) /\ Earlier(y, x))
    BY EarlierIs
<1>2. Earlier(x, y) /\ Earlier(y, z) => Earlier(x, z)
    BY EarlierIs
<1>3. Earlier(x, y) \/ Earlier(y, x) \/ Alike(x, y)
    BY EarlierIs DEF Alike
<1>4. ~ Earlier(x, x)
    BY EarlierIs
<1>5. ASSUME Alike(x, y)
      PROVE  ~ Earlier(x, y) /\ (Earlier(x, z) <=> Earlier(y, z)) /\ (Earlier(z, x) <=> Earlier(z, y))
    <2>1. Key(x) = Key(y)
        BY <1>5, EarlierIs
    <2>2. QED
        BY <1>4, <2>1 DEF Earlier
<1>6. QED
    BY <1>1, <1>2, <1>3, <1>5

\* A number behind three.
LEMMA FourIs ==
    ASSUME NEW S, NEW three \in Seq(S), NEW n \in S
    PROVE  Len(three) = 3 =>
           /\ DOMAIN Append(three, n) = 1..4 /\ Append(three, n)[4] = n
           /\ Append(three, n)[1] = three[1] /\ Append(three, n)[2] = three[2]
           /\ Append(three, n)[3] = three[3]
<1>1. Append(three, n) \in Seq(S)
    BY AppendProperties
<1>2. Len(Append(three, n)) = Len(three) + 1
    BY AppendProperties
<1>3. Append(three, n)[Len(three) + 1] = n
    BY AppendProperties
<1>4. \A i \in 1..Len(three) : Append(three, n)[i] = three[i]
    BY AppendProperties
<1> DEFINE four == Append(three, n)
<1> SUFFICES ASSUME Len(three) = 3
             PROVE  /\ DOMAIN four = 1..4 /\ four[4] = n
                    /\ four[1] = three[1] /\ four[2] = three[2] /\ four[3] = three[3]
    OBVIOUS
<1> HIDE DEF four
<1>5. four \in Seq(S) /\ Len(four) = 4 /\ four[4] = n
    BY <1>1, <1>2, <1>3 DEF four
<1>6. \A i \in 1..3 : four[i] = three[i]
    BY <1>4 DEF four
<1>7. DOMAIN four = 1..4 /\ four[1] = three[1] /\ four[2] = three[2] /\ four[3] = three[3]
    BY <1>5, <1>6
<1>8. QED
    BY <1>5, <1>7 DEF four

\* Rows of one index or key come in the order of their columns.
LEMMA BeforeIs ==
    ASSUME NEW r, NEW s, HasName(r), HasName(s), r.ordinal \in Nat, s.ordinal \in Nat
    PROVE  Before(r, s) <=> Earlier(r, s) \/ (Alike(r, s) /\ r.ordinal < s.ordinal)
<1> DEFINE k == Key(r)
           m == Key(s)
           a == Append(k, r.ordinal)
           b == Append(m, s.ordinal)
<1>1. k \in Seq(Nat) /\ Len(k) = 3 /\ DOMAIN k = 1..3 /\ m \in Seq(Nat) /\ Len(m) = 3
    BY KeyIs
<1>2. k[1] = m[1] /\ k[2] = m[2] /\ k[3] = m[3] <=> Alike(r, s)
    <2>1. /\ k[1] = Rank[r.table[1]] /\ k[2] = Rank[r.table[2]] /\ k[3] = Rank[r.name]
          /\ m[1] = Rank[s.table[1]] /\ m[2] = Rank[s.table[2]] /\ m[3] = Rank[s.name]
        BY KeyIs
    <2>2. Alike(r, s) => k = m
        BY EarlierIs
    <2> HIDE DEF k, m
    <2>3. /\ k[1] = m[1] => r.table[1] = s.table[1]
          /\ k[2] = m[2] => r.table[2] = s.table[2]
          /\ k[3] = m[3] => r.name = s.name
          /\ r.table[1] = s.table[1] /\ r.table[2] = s.table[2] => r.table = s.table
        <3>1. /\ Rank[r.table[1]] = Rank[s.table[1]] => r.table[1] = s.table[1]
              /\ Rank[r.table[2]] = Rank[s.table[2]] => r.table[2] = s.table[2]
              /\ Rank[r.name] = Rank[s.name] => r.name = s.name
              /\ r.table[1] = s.table[1] /\ r.table[2] = s.table[2] => r.table = s.table
            BY EarlierIs
        <3>2. QED
            BY <2>1, <3>1, Zenon
    <2>4. QED
        BY <2>2, <2>3 DEF Alike
<1>3. Before(r, s) <=> Less(a, b)
    BY Zenon DEF Before
<1>4. Earlier(r, s) <=> Less(k, m)
    BY Zenon DEF Earlier
<1> HIDE DEF k, m
<1>5. /\ DOMAIN a = 1..4 /\ a[1] = k[1] /\ a[2] = k[2] /\ a[3] = k[3] /\ a[4] = r.ordinal
      /\ b[1] = m[1] /\ b[2] = m[2] /\ b[3] = m[3] /\ b[4] = s.ordinal
    <2>1. r.ordinal \in Nat /\ s.ordinal \in Nat
        OBVIOUS
    <2>0. \A three \in Seq(Nat), n \in Nat :
              Len(three) = 3 =>
                  /\ DOMAIN Append(three, n) = 1..4 /\ Append(three, n)[4] = n
                  /\ Append(three, n)[1] = three[1] /\ Append(three, n)[2] = three[2]
                  /\ Append(three, n)[3] = three[3]
        BY FourIs
    <2>2. /\ DOMAIN a = 1..4 /\ a[1] = k[1] /\ a[2] = k[2] /\ a[3] = k[3] /\ a[4] = r.ordinal
        BY <1>1, <2>0, <2>1, Zenon DEF a
    <2>3. b[1] = m[1] /\ b[2] = m[2] /\ b[3] = m[3] /\ b[4] = s.ordinal
        BY <1>1, <2>0, <2>1, Zenon DEF b
    <2>4. QED
        BY <2>2, <2>3
<1> HIDE DEF a, b
<1>6. Less(a, b) <=> \/ Less(k, m)
                     \/ k[1] = m[1] /\ k[2] = m[2] /\ k[3] = m[3] /\ r.ordinal < s.ordinal
    <2>1. Less(k, m) <=> \/ k[1] < m[1]
                         \/ k[1] = m[1] /\ k[2] < m[2]
                         \/ k[1] = m[1] /\ k[2] = m[2] /\ k[3] < m[3]
        BY <1>1, LessOfThree, Zenon
    <2>2. Less(a, b) <=> \/ a[1] < b[1]
                         \/ a[1] = b[1] /\ a[2] < b[2]
                         \/ a[1] = b[1] /\ a[2] = b[2] /\ a[3] < b[3]
                         \/ a[1] = b[1] /\ a[2] = b[2] /\ a[3] = b[3] /\ a[4] < b[4]
        BY <1>5, LessOfFour, Zenon
    <2>3. QED
        BY <1>5, <2>1, <2>2, Zenon
<1>7. QED
    BY <1>2, <1>3, <1>4, <1>6, Zenon

-----------------------------------------------------------------------------
\* The columns that are shown of an index or key.
Columns(x) == {k \in DOMAIN x.columns : x.columns[k] # Nil}

\* The rows are those of some indexes or keys, one for each column to show.
RowsOf(all, own) ==
    /\ \A x \in own : HasName(x) /\ Columns(x) \subseteq Nat /\ Columns(x) # {}
    /\ \A r \in all :
          /\ HasName(r) /\ r.ordinal \in Nat
          /\ \E x \in own : Alike(x, r) /\ r.ordinal \in Columns(x)
    /\ \A x \in own : \A k \in Columns(x) : \E r \in all : Alike(x, r) /\ r.ordinal = k
    /\ \A r, s \in all : Alike(r, s) /\ r.ordinal = s.ordinal => r = s
    /\ \A x, y \in own : Alike(x, y) => x = y

\* What is left behind the c-th column of x, and what comes before x.
Begun(all, x, c) == {r \in all : Earlier(x, r) \/ (Alike(x, r) /\ c < r.ordinal)}
Ahead(own, x) == {y \in own : Earlier(y, x)}

\* The first of some rows comes before all others.
LEMMA FirstIsFirst ==
    ASSUME NEW all, NEW own, RowsOf(all, own), NEW rest \in SUBSET all, NEW r \in First(rest)
    PROVE  /\ r \in rest /\ HasName(r) /\ r.ordinal \in Nat
           /\ \E x \in own : Alike(x, r) /\ r.ordinal \in Columns(x)
           /\ \A s \in rest : \/ s = r \/ Earlier(r, s)
                              \/ Alike(r, s) /\ r.ordinal < s.ordinal
<1>1. r \in rest /\ \A s \in rest : ~ Before(s, r)
    BY DEF First
<1>2. \A s \in all : HasName(s) /\ s.ordinal \in Nat
    BY DEF RowsOf
<1>3. \E x \in own : Alike(x, r) /\ r.ordinal \in Columns(x)
    BY <1>1 DEF RowsOf
<1>4. ASSUME NEW s \in rest
      PROVE  \/ s = r \/ Earlier(r, s)
             \/ Alike(r, s) /\ r.ordinal < s.ordinal
    <2>1. HasName(s) /\ s.ordinal \in Nat /\ HasName(r) /\ r.ordinal \in Nat
        BY <1>1, <1>2
    <2>2. ~ Earlier(s, r) /\ ~ (Alike(s, r) /\ s.ordinal < r.ordinal)
        BY <1>1, <2>1, BeforeIs, Zenon
    <2>3. Earlier(r, s) \/ Alike(r, s)
        BY <2>1, <2>2, EarlierOrders, Zenon DEF Alike
    <2>4. Alike(r, s) => ~ (s.ordinal < r.ordinal)
        BY <2>2 DEF Alike
    <2>5. Alike(r, s) /\ r.ordinal = s.ordinal => r = s
        BY <1>1, Zenon DEF RowsOf
    <2>6. r.ordinal < s.ordinal \/ s.ordinal < r.ordinal \/ r.ordinal = s.ordinal
        BY <2>1
    <2>7. QED
        BY <2>3, <2>4, <2>5, <2>6, Zenon
<1>5. QED
    BY <1>1, <1>2, <1>3, <1>4

\* The first row of all is the first column of what comes first.
LEMMA FirstRow ==
    ASSUME NEW all, NEW own, RowsOf(all, own), NEW r \in First(all)
    PROVE  \E x \in own :
              /\ Alike(x, r) /\ r.ordinal \in Columns(x) /\ \A k \in Columns(x) : r.ordinal <= k
              /\ Ahead(own, x) = {} /\ all \ {r} = Begun(all, x, r.ordinal)
<1>0. all \in SUBSET all
    OBVIOUS
<1>1. PICK x \in own : Alike(x, r) /\ r.ordinal \in Columns(x)
    BY <1>0, FirstIsFirst
<1>2. /\ r \in all /\ HasName(r) /\ r.ordinal \in Nat /\ HasName(x) /\ Columns(x) \subseteq Nat
      /\ \A s \in all : HasName(s) /\ s.ordinal \in Nat
    <2>1. r \in all
        BY <1>0, FirstIsFirst
    <2>2. QED
        BY <2>1 DEF RowsOf
<1>3. ASSUME NEW s \in all
      PROVE  \/ s = r \/ Earlier(r, s)
             \/ Alike(r, s) /\ r.ordinal < s.ordinal
    BY <1>0, FirstIsFirst
<1>4. ASSUME NEW k \in Columns(x)
      PROVE  r.ordinal <= k
    <2>1. PICK s \in all : Alike(x, s) /\ s.ordinal = k
        BY Zenon DEF RowsOf
    <2>2. Alike(r, s) /\ HasName(s)
        BY <1>1, <1>2, <2>1, Zenon DEF Alike
    <2>3. ~ Earlier(r, s)
        BY <1>2, <2>2, EarlierOrders, Zenon
    <2>4. r.ordinal < s.ordinal \/ s = r
        BY <1>3, <2>3, Zenon
    <2>5. QED
        BY <1>2, <2>1, <2>4
<1>5. ASSUME NEW y \in own, Earlier(y, x)
      PROVE  FALSE
    <2>1. HasName(y) /\ \E k \in Columns(y) : TRUE
        BY DEF RowsOf
    <2>2. PICK s \in all : Alike(y, s)
        BY <2>1, Zenon DEF RowsOf
    <2>3. HasName(s) /\ Earlier(s, r)
        BY <1>1, <1>2, <1>5, <2>1, <2>2, EarlierOrders, Zenon
    <2>4. ~ Earlier(r, s) /\ ~ Alike(r, s) /\ s # r
        BY <1>2, <2>3, EarlierOrders, Zenon DEF Alike
    <2>5. QED
        BY <1>3, <2>4, Zenon
<1>6. Ahead(own, x) = {}
    BY <1>5 DEF Ahead
<1>7. ASSUME NEW s \in all
      PROVE  s # r <=> (Earlier(x, s) \/ (Alike(x, s) /\ r.ordinal < s.ordinal))
    <2>1. (Earlier(r, s) <=> Earlier(x, s)) /\ (Alike(r, s) <=> Alike(x, s))
        BY <1>1, <1>2, EarlierOrders, Zenon DEF Alike
    <2>2. ~ Earlier(x, r) /\ ~ (r.ordinal < r.ordinal)
        BY <1>1, <1>2, EarlierOrders
    <2>3. QED
        BY <1>3, <2>1, <2>2, Zenon
<1>8. all \ {r} = Begun(all, x, r.ordinal)
    BY <1>7 DEF Begun
<1>9. QED
    BY <1>1, <1>4, <1>6, <1>8

\* After the c-th column of x comes the next one, or else the first one of what
\* comes next.
LEMMA NextRow ==
    ASSUME NEW all, NEW own, RowsOf(all, own), NEW x \in own, NEW c \in Columns(x),
           NEW r \in First(Begun(all, x, c))
    PROVE  \/ /\ Alike(x, r) /\ r.ordinal \in Columns(x) /\ c < r.ordinal
              /\ \A k \in Columns(x) : k <= c \/ r.ordinal <= k
              /\ Begun(all, x, c) \ {r} = Begun(all, x, r.ordinal)
           \/ \E y \in own :
                /\ Alike(y, r) /\ r.ordinal \in Columns(y) /\ \A k \in Columns(y) : r.ordinal <= k
                /\ \A k \in Columns(x) : k <= c
                /\ Earlier(x, y) /\ Ahead(own, y) = Ahead(own, x) \cup {x}
                /\ Begun(all, x, c) \ {r} = Begun(all, y, r.ordinal)
<1> DEFINE rest == Begun(all, x, c)
<1>1. rest \in SUBSET all
    BY DEF Begun
<1> HIDE DEF rest
<1>2. PICK y \in own : Alike(y, r) /\ r.ordinal \in Columns(y)
    <2>1. r \in First(rest)
        BY DEF rest
    <2>2. QED
        BY <1>1, <2>1, FirstIsFirst
<1>3. /\ r \in rest /\ HasName(r) /\ r.ordinal \in Nat /\ HasName(x) /\ Columns(x) \subseteq Nat
      /\ HasName(y) /\ Columns(y) \subseteq Nat /\ c \in Nat
      /\ \A s \in all : HasName(s) /\ s.ordinal \in Nat
    <2>1. r \in First(rest)
        BY DEF rest
    <2>2. r \in rest
        BY <1>1, <2>1, FirstIsFirst
    <2>3. QED
        BY <1>1, <2>2 DEF RowsOf
<1>4. ASSUME NEW s \in rest
      PROVE  \/ s = r \/ Earlier(r, s)
             \/ Alike(r, s) /\ r.ordinal < s.ordinal
    <2>1. r \in First(rest)
        BY DEF rest
    <2>2. QED
        BY <1>1, <2>1, FirstIsFirst
<1>5. \A s : s \in rest <=> s \in all /\ (Earlier(x, s) \/ (Alike(x, s) /\ c < s.ordinal))
    BY Zenon DEF rest, Begun
\* A column of y that is left is no earlier than the row.
<1>6. ASSUME NEW k \in Columns(y), Earlier(x, y) \/ (x = y /\ c < k)
      PROVE  r.ordinal <= k
    <2>1. PICK s \in all : Alike(y, s) /\ s.ordinal = k
        BY Zenon DEF RowsOf
    <2>2. Alike(r, s) /\ HasName(s)
        BY <1>2, <1>3, <2>1, Zenon DEF Alike
    <2>3. s \in rest
        BY <1>3, <1>5, <1>6, <2>1, <2>2, EarlierOrders, Zenon DEF Alike
    <2>4. ~ Earlier(r, s)
        BY <1>3, <2>2, EarlierOrders, Zenon
    <2>5. r.ordinal < s.ordinal \/ s = r
        BY <1>4, <2>3, <2>4, Zenon
    <2>6. QED
        BY <1>3, <2>1, <2>5
<1>7. ASSUME NEW s \in all, Earlier(x, y) \/ (x = y /\ c < r.ordinal)
      PROVE  s \in rest /\ s # r <=> (Earlier(y, s) \/ (Alike(y, s) /\ r.ordinal < s.ordinal))
    <2>1. HasName(s) /\ s.ordinal \in Nat
        BY <1>3
    <2>2. (Earlier(r, s) <=> Earlier(y, s)) /\ (Alike(r, s) <=> Alike(y, s))
        BY <1>2, <1>3, <2>1, EarlierOrders, Zenon DEF Alike
    <2>3. ~ Earlier(y, r) /\ ~ (r.ordinal < r.ordinal)
        BY <1>2, <1>3, EarlierOrders
    <2>4. Earlier(y, s) => Earlier(x, s)
        BY <1>3, <1>7, <2>1, EarlierOrders, Zenon
    <2>5. Alike(y, s) /\ r.ordinal < s.ordinal => Earlier(x, s) \/ (Alike(x, s) /\ c < s.ordinal)
        <3>1. CASE Earlier(x, y)
            BY <1>3, <2>1, <3>1, EarlierOrders, Zenon
        <3>2. CASE x = y /\ c < r.ordinal
            BY <1>3, <2>1, <3>2
        <3>3. QED
            BY <1>7, <3>1, <3>2
    <2>6. QED
        BY <1>4, <1>5, <2>2, <2>3, <2>4, <2>5, Zenon
<1>8. Earlier(x, y) \/ (x = y /\ c < r.ordinal)
    <2>1. Earlier(x, r) \/ (Alike(x, r) /\ c < r.ordinal)
        BY <1>3, <1>5
    <2>2. Earlier(x, r) => Earlier(x, y)
        BY <1>2, <1>3, EarlierOrders, Zenon
    <2>3. Alike(x, r) => x = y
        <3>1. Alike(x, r) => Alike(x, y)
            BY <1>2 DEF Alike
        <3>2. QED
            BY <3>1, Zenon DEF RowsOf
    <2>4. QED
        BY <2>1, <2>2, <2>3
<1>9. rest \ {r} = Begun(all, y, r.ordinal)
    BY <1>5, <1>7, <1>8 DEF Begun
<1>10. CASE x = y /\ c < r.ordinal
    <2>1. \A k \in Columns(x) : k <= c \/ r.ordinal <= k
        BY <1>3, <1>6, <1>10
    <2>2. QED
        BY <1>2, <1>9, <1>10, <2>1 DEF rest
<1>11. CASE Earlier(x, y)
    <2>1. \A k \in Columns(y) : r.ordinal <= k
        BY <1>6, <1>11
    <2>2. ASSUME NEW z \in own, ~ (Earlier(z, x) \/ z = x)
          PROVE  ~ Earlier(z, y)
        <3>1. HasName(z) /\ \E k \in Columns(z) : TRUE
            BY DEF RowsOf
        <3>2. PICK s \in all : Alike(z, s)
            BY <3>1, Zenon DEF RowsOf
        <3>3. ~ Alike(z, x)
            BY <2>2, Zenon DEF RowsOf
        <3>4. Earlier(x, z)
            BY <1>3, <2>2, <3>1, <3>3, EarlierOrders, Zenon
        <3>5. s \in rest
            BY <1>3, <1>5, <3>1, <3>2, <3>4, EarlierOrders, Zenon
        <3>6. ~ Earlier(s, r)
            BY <1>3, <1>4, <3>5, EarlierOrders, Zenon DEF Alike
        <3>7. QED
            BY <1>2, <1>3, <3>1, <3>2, <3>6, EarlierOrders, Zenon
    <2>3. ASSUME NEW z \in own, Earlier(z, x) \/ z = x
          PROVE  Earlier(z, y)
        BY <1>3, <1>11, <2>3, EarlierOrders, Zenon DEF RowsOf
    <2>4. Ahead(own, y) = Ahead(own, x) \cup {x}
        BY <2>2, <2>3 DEF Ahead
    <2>5. ASSUME NEW k \in Columns(x), ~ (k <= c)
          PROVE  FALSE
        <3>1. PICK s \in all : Alike(x, s) /\ s.ordinal = k
            BY Zenon DEF RowsOf
        <3>2. c < s.ordinal
            BY <1>3, <2>5, <3>1
        <3>3. s \in rest /\ Earlier(s, r)
            BY <1>2, <1>3, <1>5, <1>11, <3>1, <3>2, EarlierOrders, Zenon
        <3>4. QED
            BY <1>3, <1>4, <3>3, EarlierOrders, Zenon DEF Alike
    <2>6. QED
        BY <1>2, <1>9, <1>11, <2>1, <2>4, <2>5 DEF rest
<1>12. QED
    BY <1>8, <1>10, <1>11

\* When no row is left, everything has been gone through.
LEMMA NoRowLeft ==
    ASSUME NEW all, NEW own, RowsOf(all, own)
    PROVE  /\ all = {} => own = {}
           /\ \A x \in own : \A c \in Columns(x) : Begun(all, x, c) = {} =>
                 own = Ahead(own, x) \cup {x} /\ x \notin Ahead(own, x)
                     /\ \A k \in Columns(x) : k <= c
<1>1. ASSUME NEW y \in own
      PROVE  HasName(y) /\ \E s \in all : Alike(y, s) /\ HasName(s)
    <2>1. HasName(y) /\ \E k \in Columns(y) : TRUE
        BY DEF RowsOf
    <2>2. QED
        BY <2>1, Zenon DEF RowsOf
<1>2. ASSUME NEW x \in own, NEW c \in Columns(x), Begun(all, x, c) = {}
      PROVE  own = Ahead(own, x) \cup {x} /\ x \notin Ahead(own, x) /\ \A k \in Columns(x) : k <= c
    <2>1. \A s \in all : ~ Earlier(x, s) /\ ~ (Alike(x, s) /\ c < s.ordinal)
        BY <1>2 DEF Begun
    <2>2. HasName(x) /\ c \in Nat /\ Columns(x) \subseteq Nat
        BY DEF RowsOf
    <2>3. ASSUME NEW y \in own
          PROVE  Earlier(y, x) \/ y = x
        <3>1. PICK s \in all : Alike(y, s) /\ HasName(s)
            BY <1>1
        <3>2. ~ Earlier(x, y)
            BY <1>1, <2>1, <2>2, <3>1, EarlierOrders, Zenon
        <3>3. Earlier(y, x) \/ Alike(y, x)
            BY <1>1, <2>2, <3>2, EarlierOrders, Zenon DEF Alike
        <3>4. QED
            BY <3>3, Zenon DEF RowsOf
    <2>4. ~ Earlier(x, x)
        BY <2>2, EarlierOrders, Zenon
    <2>5. ASSUME NEW k \in Columns(x)
          PROVE  k <= c
        <3>1. PICK s \in all : Alike(x, s) /\ s.ordinal = k
            BY Zenon DEF RowsOf
        <3>2. QED
            BY <2>1, <2>2, <3>1
    <2>6. QED
        BY <2>3, <2>4, <2>5 DEF Ahead
<1>3. all = {} => own = {}
    BY <1>1
<1>4. QED
    BY <1>2, <1>3

-----------------------------------------------------------------------------
\* One thing more at the end.
LEMMA AppendIs ==
    ASSUME NEW n \in Nat, NEW f, f = [k \in 1..n |-> f[k]], NEW e
    PROVE  /\ Append(f, e) = [k \in 1..(n + 1) |-> IF k = n + 1 THEN e ELSE f[k]]
           /\ f \o <<e>> = Append(f, e)
           /\ Len(Append(f, e)) = n + 1 /\ Append(f, e)[n + 1] = e /\ Append(f, e) # <<>>
           /\ \A d : [Append(f, e) EXCEPT ![n + 1] = d] = Append(f, d)
<1>0. ASSUME NEW d
      PROVE  Append(f, d) = [k \in 1..(n + 1) |-> IF k = n + 1 THEN d ELSE f[k]]
             /\ f \o <<d>> = Append(f, d)
    <2> DEFINE V == {f[k] : k \in 1..n} \cup {d}
    <2>1. f \in Seq(V) /\ Len(f) = n /\ d \in V
        <3>1. \A k \in 1..n : f[k] \in V
            OBVIOUS
        <3>2. f \in [1..n -> V]
            BY <3>1
        <3>3. QED
            BY <3>2
    <2> HIDE DEF V
    <2>2. Append(f, d) \in Seq(V)
        BY <2>1, AppendProperties
    <2>3. Len(Append(f, d)) = Len(f) + 1
        BY <2>1, AppendProperties
    <2>4. Append(f, d)[Len(f) + 1] = d
        BY <2>1, AppendProperties
    <2>5. \A i \in 1..Len(f) : Append(f, d)[i] = f[i]
        BY <2>1, AppendProperties
    <2>6. f \o <<d>> = Append(f, d)
        BY <2>1
    <2> DEFINE a == Append(f, d)
    <2> HIDE DEF a
    <2>7. a \in [1..(n + 1) -> V] /\ a[n + 1] = d /\ \A i \in 1..n : a[i] = f[i]
        <3>1. a \in Seq(V) /\ Len(a) = n + 1
            BY <2>1, <2>2, <2>3 DEF a
        <3>2. a[n + 1] = d
            BY <2>1, <2>4 DEF a
        <3>3. \A i \in 1..n : a[i] = f[i]
            BY <2>1, <2>5 DEF a
        <3>4. QED
            BY <3>1, <3>2, <3>3
    <2>8. a = [k \in 1..(n + 1) |-> IF k = n + 1 THEN d ELSE f[k]]
        BY <2>7
    <2>9. QED
        BY <2>6, <2>8 DEF a
<1> DEFINE a(d) == Append(f, d)
<1>1. \A d : a(d) = [k \in 1..(n + 1) |-> IF k = n + 1 THEN d ELSE f[k]] /\ f \o <<d>> = a(d)
    BY <1>0
<1> HIDE DEF a
<1>2. Len(a(e)) = n + 1 /\ a(e)[n + 1] = e /\ a(e) # <<>>
    <2>1. n + 1 \in 1..(n + 1)
        OBVIOUS
    <2>2. DOMAIN a(e) = 1..(n + 1) /\ a(e)[n + 1] = e
        BY <1>1, <2>1
    <2>3. Len(a(e)) = n + 1
        <3>1. a(e) \in Seq({a(e)[k] : k \in 1..(n + 1)})
            BY <1>1
        <3>2. QED
            BY <2>2, <3>1
    <2>4. DOMAIN <<>> = {}
        OBVIOUS
    <2>5. QED
        BY <2>1, <2>2, <2>3, <2>4
<1>3. \A d : [a(e) EXCEPT ![n + 1] = d] = a(d)
    BY <1>1
<1>4. QED
    BY <1>1, <1>2, <1>3 DEF a

-----------------------------------------------------------------------------
\* What comes after all others stands at the end.
LEMMA InOrderAppend ==
    ASSUME NEW S, IsFiniteSet(S), NEW x, HasName(x), \A y \in S : HasName(y) /\ Earlier(y, x)
    PROVE  /\ Cardinality(S) \in Nat /\ x \notin S
           /\ Cardinality(S \cup {x}) = Cardinality(S) + 1
           /\ \A k \in 1..Cardinality(S) : InOrder(S \cup {x})[k] = InOrder(S)[k]
           /\ InOrder(S \cup {x})[Cardinality(S) + 1] = x
<1> DEFINE n == Cardinality(S)
           T == S \cup {x}
<1>1. x \notin S
    BY EarlierOrders
<1>2. n \in Nat /\ Cardinality(T) = n + 1
    BY <1>1, FS_CardinalityType, FS_AddElement
<1>3. {y \in T : Earlier(y, x)} = S
    <2>1. ~ Earlier(x, x)
        BY EarlierOrders
    <2>2. QED
        BY <1>1, <2>1
<1>4. ASSUME NEW z \in S
      PROVE  /\ {y \in T : Earlier(y, z)} = {y \in S : Earlier(y, z)}
             /\ Cardinality({y \in S : Earlier(y, z)}) # n
    <2>1. ~ Earlier(x, z) /\ ~ Earlier(z, z)
        BY EarlierOrders
    <2> DEFINE B == {y \in S : Earlier(y, z)}
    <2>2. B \subseteq S /\ B # S
        BY <2>1
    <2>3. Cardinality(B) # n
        BY <2>2, FS_Subset, Zenon
    <2>4. QED
        BY <2>1, <2>3
<1>5. ASSUME NEW m
      PROVE  Behind(T, m) = IF m = n THEN {x} ELSE Behind(S, m)
    <2>1. x \in Behind(T, m) <=> m = n
        BY <1>3 DEF Behind
    <2>2. ASSUME NEW z \in S
          PROVE  (z \in Behind(T, m) <=> z \in Behind(S, m)) /\ (m = n => z \notin Behind(T, m))
        BY <1>4 DEF Behind
    <2>3. Behind(T, m) \subseteq T /\ Behind(S, m) \subseteq S
        BY DEF Behind
    <2>4. QED
        BY <1>1, <2>1, <2>2, <2>3
<1>6. ASSUME NEW k \in 1..n
      PROVE  InOrder(T)[k] = InOrder(S)[k]
    <2>1. k - 1 # n /\ k \in 1..(n + 1)
        BY <1>2
    <2>2. Behind(T, k - 1) = Behind(S, k - 1)
        BY <1>5, <2>1
    <2> HIDE DEF n, T
    <2>3. QED
        BY <1>2, <2>1, <2>2 DEF InOrder, n
<1>7. InOrder(T)[n + 1] = x
    <2>1. n + 1 \in 1..(n + 1) /\ (n + 1) - 1 = n
        BY <1>2
    <2>2. Behind(T, n) = {x}
        BY <1>5
    <2> HIDE DEF n, T
    <2>3. InOrder(T)[n + 1] = CHOOSE z \in {x} : TRUE
        BY <1>2, <2>1, <2>2 DEF InOrder
    <2>4. QED
        BY <2>3
<1>8. QED
    BY <1>1, <1>2, <1>6, <1>7
-----------------------------------------------------------------------------
\* The operations that list indexes, those for the whole database, and the rest.
ForIndexes(l) == l.op \in {"ListIndexes", "ListIndexesAll"}
ForReferencing(l) == l.op = "ListReferencingForeignKeys"

\* What a listing says of an index or key, and what it says of it up to the
\* c-th of its columns.
Entry(l, x) ==
    IF ForIndexes(l) THEN IndexEntry(x)
    ELSE IF ForReferencing(l) THEN ReferencingEntry(x) ELSE ForeignKeyEntry(x)

FirstOf(names, c) == [k \in 1..c |-> Displayed[names[k]]]

Part(l, x, c) ==
    IF ForIndexes(l) THEN [IndexEntry(x) EXCEPT !.columns = ShownUpTo(x.columns)[c]]
    ELSE [Entry(l, x) EXCEPT !.columns = FirstOf(x.columns, c),
                             !.refColumns = FirstOf(x.refColumns, c)]

Listed(l, S) == [k \in 1..Cardinality(S) |-> Entry(l, InOrder(S)[k])]

OfTable(S, q) == {x \in S : Qualified[x.table] = q}
Tabled(l, S) == [q \in {Qualified[x.table] : x \in S} |-> Listed(l, OfTable(S, q))]

\* x comes after all of S.
AllBefore(S, x) == IsFiniteSet(S) /\ HasName(x) /\ \A y \in S : HasName(y) /\ Earlier(y, x)

\* Of a sequence with something at the end.
EndsIn(f) ==
    \A e : /\ f \o <<e>> = Append(f, e)
           /\ Append(f, e) # <<>>
           /\ Append(f, e)[Len(Append(f, e))] = e
           /\ \A d : [Append(f, e) EXCEPT ![Len(Append(f, e))] = d] = Append(f, d)

ListedGrows(l, S, x) ==
    Listed(l, S \cup {x}) = Append(Listed(l, S), Entry(l, x)) /\ EndsIn(Listed(l, S))

TabledGrows(l, S, x) ==
    LET q == Qualified[x.table]
        old == Tabled(l, S)
        e == <<Entry(l, x)>>
    IN  Tabled(l, S \cup {x}) =
           [t \in DOMAIN old \cup {q} |->
               IF t \notin DOMAIN old THEN e ELSE IF t = q THEN old[t] \o e ELSE old[t]]

LEMMA ListedAppend ==
    ASSUME NEW l, NEW S, NEW x, AllBefore(S, x)
    PROVE  ListedGrows(l, S, x)
<1> DEFINE n == Cardinality(S)
           f == Listed(l, S)
<1>1. /\ n \in Nat /\ Cardinality(S \cup {x}) = n + 1
      /\ \A k \in 1..n : InOrder(S \cup {x})[k] = InOrder(S)[k]
      /\ InOrder(S \cup {x})[n + 1] = x
    BY InOrderAppend DEF AllBefore
<1>2. f = [k \in 1..n |-> f[k]]
    BY DEF Listed
<1>3. ASSUME NEW e
      PROVE  /\ Append(f, e) = [k \in 1..(n + 1) |-> IF k = n + 1 THEN e ELSE f[k]]
             /\ f \o <<e>> = Append(f, e)
             /\ Len(Append(f, e)) = n + 1 /\ Append(f, e)[n + 1] = e /\ Append(f, e) # <<>>
             /\ \A d : [Append(f, e) EXCEPT ![n + 1] = d] = Append(f, d)
    <2> HIDE DEF f, n
    <2>1. QED
        BY <1>1, <1>2, AppendIs
<1>4. Listed(l, S \cup {x}) = [k \in 1..(n + 1) |-> IF k = n + 1 THEN Entry(l, x) ELSE f[k]]
    <2>1. Listed(l, S \cup {x}) = [k \in 1..(n + 1) |-> Entry(l, InOrder(S \cup {x})[k])]
        BY <1>1, Zenon DEF Listed
    <2>2. ASSUME NEW k \in 1..(n + 1)
          PROVE  Entry(l, InOrder(S \cup {x})[k]) = IF k = n + 1 THEN Entry(l, x) ELSE f[k]
        <3>1. CASE k = n + 1
            BY <1>1, <3>1, Zenon
        <3>2. CASE k # n + 1
            <4>1. k \in 1..n
                BY <1>1, <3>2
            <4>2. InOrder(S \cup {x})[k] = InOrder(S)[k]
                BY <1>1, <4>1
            <4>3. f[k] = Entry(l, InOrder(S)[k])
                BY <4>1, Zenon DEF Listed
            <4>4. QED
                BY <3>2, <4>2, <4>3, Zenon
        <3>3. QED
            BY <3>1, <3>2
    <2> HIDE DEF f, n
    <2>3. QED
        BY <2>1, <2>2
<1>5. Listed(l, S \cup {x}) = Append(f, Entry(l, x))
    BY <1>3, <1>4, Zenon
<1>6. ASSUME NEW e
      PROVE  /\ f \o <<e>> = Append(f, e) /\ Append(f, e) # <<>>
             /\ Append(f, e)[Len(Append(f, e))] = e
             /\ \A d : [Append(f, e) EXCEPT ![Len(Append(f, e))] = d] = Append(f, d)
    <2> DEFINE a == Append(f, e)
    <2> HIDE DEF f, n
    <2>1. /\ f \o <<e>> = a /\ a # <<>> /\ Len(a) = n + 1 /\ a[n + 1] = e
          /\ \A d : [a EXCEPT ![n + 1] = d] = Append(f, d)
        BY <1>3, Zenon
    <2> HIDE DEF a
    <2>2. a[Len(a)] = e /\ \A d : [a EXCEPT ![Len(a)] = d] = Append(f, d)
        BY ONLY <2>1
    <2>3. QED
        BY <2>1, <2>2 DEF a
<1>7. EndsIn(f)
    <2> HIDE DEF f
    <2>1. QED
        BY <1>6, Zenon DEF EndsIn
<1>8. QED
    BY <1>5, <1>7, Zenon DEF ListedGrows

LEMMA NothingListed ==
    ASSUME NEW l
    PROVE  Listed(l, {}) = <<>> /\ Tabled(l, {}) = <<>> /\ IsFiniteSet({})
<1>1. Cardinality({}) = 0 /\ IsFiniteSet({}) /\ 1..0 = {}
    BY FS_EmptySet
<1>2. \A f : DOMAIN f = {} /\ f = [k \in {} |-> f[k]] => f = <<>>
    OBVIOUS
<1>3. QED
    BY <1>1, <1>2 DEF Listed, Tabled

\* One thing more, and its table has it at the end.
LEMMA TabledAppend ==
    ASSUME NEW l, NEW S, NEW x, AllBefore(S, x)
    PROVE  TabledGrows(l, S, x)
<1> DEFINE q == Qualified[x.table]
           old == Tabled(l, S)
           e == <<Entry(l, x)>>
           T == S \cup {x}
           now(t) == IF t \notin DOMAIN old THEN e ELSE IF t = q THEN old[t] \o e ELSE old[t]
<1>1. DOMAIN old = {Qualified[y.table] : y \in S}
    BY DEF Tabled
<1>2. {Qualified[y.table] : y \in T} = DOMAIN old \cup {q}
    BY <1>1
<1>3. ASSUME NEW t \in DOMAIN old \cup {q}
      PROVE  Listed(l, OfTable(T, t)) = now(t)
    <2>1. CASE t # q
        <3>1. OfTable(T, t) = OfTable(S, t) /\ t \in DOMAIN old
            BY <2>1 DEF OfTable
        <3>2. old[t] = Listed(l, OfTable(S, t))
            BY <1>1, <3>1 DEF Tabled
        <3>3. QED
            BY <2>1, <3>1, <3>2
    <2>2. CASE t = q
        <3> DEFINE P == OfTable(S, t)
        <3>1. OfTable(T, t) = P \cup {x}
            BY <2>2 DEF OfTable
        <3>2. P \subseteq S /\ IsFiniteSet(P)
            <4>1. P \subseteq S
                BY DEF OfTable
            <4>2. QED
                BY <4>1, FS_Subset DEF AllBefore
        <3> HIDE DEF P
        <3>3. /\ Listed(l, P \cup {x}) = Append(Listed(l, P), Entry(l, x))
              /\ Listed(l, P) \o e = Append(Listed(l, P), Entry(l, x))
            <4>1. AllBefore(P, x)
                BY <3>2 DEF AllBefore
            <4>2. ListedGrows(l, P, x)
                BY <4>1, ListedAppend, Zenon
            <4>3. QED
                BY <4>2, Zenon DEF ListedGrows, EndsIn
        <3>4. CASE t \in DOMAIN old
            <4>1. old[t] = Listed(l, P)
                BY <1>1, <3>4 DEF Tabled, P
            <4>2. QED
                BY <2>2, <3>1, <3>3, <3>4, <4>1
        <3>5. CASE t \notin DOMAIN old
            <4>1. P = {}
                BY <1>1, <3>5 DEF P, OfTable
            <4>2. Listed(l, P) = <<>>
                BY <4>1, NothingListed
            <4>3. <<>> \o e = e
                OBVIOUS
            <4>4. QED
                BY <3>1, <3>3, <3>5, <4>2, <4>3, Zenon
        <3>6. QED
            BY <3>4, <3>5
    <2>3. QED
        BY <2>1, <2>2
<1>4. Tabled(l, T) = [t \in DOMAIN old \cup {q} |-> now(t)]
    <2>1. Tabled(l, T) = [t \in DOMAIN old \cup {q} |-> Listed(l, OfTable(T, t))]
        BY <1>2, Zenon DEF Tabled
    <2> HIDE DEF old, q, T, now
    <2>2. QED
        BY <1>3, <2>1
<1>5. QED
    BY <1>4, Zenon DEF TabledGrows
-----------------------------------------------------------------------------
\* The columns shown, part after part of the key.
LEMMA ShownIs ==
    ASSUME NEW columns \in Seq(Texts \cup {Nil})
    PROVE  /\ ShownUpTo(columns)[0] = <<>>
           /\ \A k \in 1..Len(columns) :
                 ShownUpTo(columns)[k] =
                    IF columns[k] = Nil THEN ShownUpTo(columns)[k - 1]
                    ELSE Append(ShownUpTo(columns)[k - 1], Displayed[columns[k]])
           /\ ShownUpTo(columns) \in [0..Len(columns) -> Seq(Texts)]
<1> DEFINE n == Len(columns)
           D == 0..n
           V == Seq(Texts)
           Body(f, k) == IF k = 0 THEN <<>>
                         ELSE IF columns[k] = Nil THEN f[k - 1]
                         ELSE Append(f[k - 1], Displayed[columns[k]])
           rank == [k \in D |-> k]
           Step == [z \in D \X [D -> V] |-> Body(z[2], z[1])]
<1>0. n \in Nat /\ \A k \in 1..n : columns[k] \in Texts \cup {Nil}
    OBVIOUS
<1>1. ASSUME NEW k \in D, NEW f \in [D -> V]
      PROVE  Body(f, k) \in V
    <2>1. CASE k = 0
        BY <2>1
    <2>2. CASE k # 0
        <3>1. k \in 1..n /\ k - 1 \in D
            BY <1>0, <2>2
        <3>2. f[k - 1] \in V
            BY <3>1
        <3>3. CASE columns[k] = Nil
            BY <2>2, <3>2, <3>3
        <3>4. CASE columns[k] # Nil
            <4>1. Displayed[columns[k]] \in Texts
                BY <1>0, <3>1, <3>4, TextsAssumption
            <4>2. Append(f[k - 1], Displayed[columns[k]]) \in V
                BY <3>2, <4>1
            <4>3. QED
                BY <2>2, <3>4, <4>2, Zenon
        <3>5. QED
            BY <3>3, <3>4
    <2>3. QED
        BY <2>1, <2>2
<1>2. ASSUME NEW k \in D, NEW f \in [D -> V], NEW g \in [D -> V],
             \A y \in D : y < k => f[y] = g[y]
      PROVE  Body(f, k) = Body(g, k)
    <2>1. CASE k = 0
        BY <2>1
    <2>2. CASE k # 0
        <3>1. k - 1 \in D /\ k - 1 < k
            BY <1>0, <2>2
        <3>2. f[k - 1] = g[k - 1]
            BY <1>2, <3>1
        <3>3. QED
            BY <3>2, Zenon
    <2>3. QED
        BY <2>1, <2>2
<1> HIDE DEF Body, V
<1>3. Step \in [D \X [D -> V] -> V]
    BY <1>1
<1>4. MadeOfLower(Step, D, V, rank)
    BY <1>2 DEF MadeOfLower
<1>5. rank \in [D -> 0..n]
    OBVIOUS
<1>6. V # {}
    <2>1. <<>> \in Seq(Texts)
        OBVIOUS
    <2>2. QED
        BY <2>1 DEF V
<1>7. PICK f \in [D -> V] : Solves(f, Step, D)
    <2> HIDE DEF D, rank, Step, n
    <2> QED BY <1>0, <1>3, <1>4, <1>5, <1>6, RecursiveFunction, Zenon
<1> DEFINE Shows(s) == s = [k \in 0..Len(columns) |->
                IF k = 0 THEN <<>>
                ELSE IF columns[k] = Nil THEN s[k - 1]
                ELSE Append(s[k - 1], Displayed[columns[k]])]
<1>8. Shows(f)
    BY <1>7 DEF Solves, Body
<1>9. Shows(ShownUpTo(columns))
    <2> DEFINE s == CHOOSE s : Shows(s)
    <2>1. Shows(s)
        <3> HIDE DEF Shows
        <3>1. QED
            BY <1>8, Zenon
    <2>2. ShownUpTo(columns) = s
        BY Zenon DEF ShownUpTo
    <2> HIDE DEF s
    <2>3. QED
        BY <2>1, <2>2, Zenon
<1> DEFINE s == ShownUpTo(columns)
<1> HIDE DEF s
<1>10. Shows(s)
    BY <1>9 DEF s
<1>11. s[0] = <<>>
    BY <1>0, <1>10
<1>12. ASSUME NEW k \in 1..n
       PROVE  s[k] = IF columns[k] = Nil THEN s[k - 1] ELSE Append(s[k - 1], Displayed[columns[k]])
    <2>1. k \in 0..Len(columns) /\ k # 0
        BY <1>0
    <2>2. QED
        BY <1>10, <2>1, Zenon
<1>13. \A k \in D : s[k] \in V
    <2> DEFINE T == {k \in Nat : k <= n => s[k] \in V}
    <2>1. 0 \in T
        BY <1>11 DEF V
    <2>2. ASSUME NEW k \in T
          PROVE  k + 1 \in T
        <3>1. k \in Nat /\ (k <= n => s[k] \in V)
            OBVIOUS
        <3>2. CASE k + 1 <= n
            <4>1. k + 1 \in 1..n /\ (k + 1) - 1 = k /\ k <= n
                BY <1>0, <3>1, <3>2
            <4>2. s[k] \in V
                BY <3>1, <4>1
            <4>3. s[k + 1] = IF columns[k + 1] = Nil THEN s[k]
                             ELSE Append(s[k], Displayed[columns[k + 1]])
                BY <1>12, <4>1
            <4>4. CASE columns[k + 1] = Nil
                BY <3>1, <4>2, <4>3, <4>4
            <4>5. CASE columns[k + 1] # Nil
                <5>1. Displayed[columns[k + 1]] \in Texts
                    BY <1>0, <4>1, <4>5, TextsAssumption
                <5>2. Append(s[k], Displayed[columns[k + 1]]) \in V
                    BY <4>2, <5>1 DEF V
                <5>3. s[k + 1] \in V
                    BY <4>3, <4>5, <5>2, Zenon
                <5>4. QED
                    BY <3>1, <5>3
            <4>6. QED
                BY <4>4, <4>5
        <3>3. QED
            BY <3>1, <3>2
    <2>3. T \in SUBSET Nat
        OBVIOUS
    <2>4. T = Nat
        <3> HIDE DEF T
        <3>1. QED
            BY <2>1, <2>2, <2>3, SetInduction
    <2>5. QED
        BY <1>0, <2>4
<1>14. s \in [D -> V]
    BY <1>10, <1>13
<1>15. QED
    BY <1>11, <1>12, <1>14, Zenon DEF s, V

\* Expressions in between show nothing.
LEMMA ShownBetween ==
    ASSUME NEW columns \in Seq(Texts \cup {Nil}), NEW c \in 0..Len(columns),
           NEW d \in c..Len(columns), \A k \in (c + 1)..d : columns[k] = Nil
    PROVE  ShownUpTo(columns)[d] = ShownUpTo(columns)[c]
<1> DEFINE s == ShownUpTo(columns)
           n == Len(columns)
           T == {m \in Nat : c + m <= d => s[c + m] = s[c]}
<1>1. n \in Nat /\ \A k \in 1..n : columns[k] = Nil => s[k] = s[k - 1]
    BY ShownIs
<1> HIDE DEF s
<1>2. 0 \in T
    OBVIOUS
<1>3. ASSUME NEW m \in T
      PROVE  m + 1 \in T
    <2>1. m \in Nat /\ (c + m <= d => s[c + m] = s[c])
        OBVIOUS
    <2>2. CASE c + (m + 1) <= d
        <3>1. /\ c + (m + 1) \in (c + 1)..d /\ c + (m + 1) \in 1..n /\ (c + (m + 1)) - 1 = c + m
              /\ c + m <= d
            BY <1>1, <2>1, <2>2
        <3>2. s[c + (m + 1)] = s[c + m]
            BY <1>1, <3>1
        <3>3. QED
            BY <2>1, <3>1, <3>2
    <2>3. QED
        BY <2>1, <2>2
<1>4. T \in SUBSET Nat
    OBVIOUS
<1>5. T = Nat
    <2> HIDE DEF T
    <2>1. QED
        BY <1>2, <1>3, <1>4, SetInduction
<1>6. d - c \in Nat /\ c + (d - c) = d
    BY <1>1
<1>7. s[d] = s[c]
    <2>1. d - c \in T
        <3> HIDE DEF T
        <3>1. QED
            BY <1>5, <1>6
    <2>2. c + (d - c) <= d => s[c + (d - c)] = s[c]
        BY <2>1
    <2>3. d <= d
        BY <1>1
    <2>4. QED
        BY <1>6, <2>2, <2>3
<1>8. QED
    BY <1>7 DEF s
-----------------------------------------------------------------------------
\* A row says what the catalog has of an index's or a key's column.
Says(l, x, r) ==
    /\ Alike(x, r) /\ r.ordinal \in Columns(x) /\ r.column = x.columns[r.ordinal]
    /\ IF ForIndexes(l) THEN r.unique = x.unique /\ r.primary = x.primary
       ELSE r.refColumn = x.refColumns[r.ordinal] /\ r.ref = x.ref /\ r.rules = x.rules

\* Only an index has expressions among its columns.
Typed(l, x) ==
    IF ForIndexes(l) THEN x.columns \in Seq(Texts \cup {Nil}) ELSE x.columns \in Seq(Texts)

\* An entry before its first column, and with a column more.
Bare(l, x) ==
    IF ForIndexes(l) THEN [IndexEntry(x) EXCEPT !.columns = <<>>]
    ELSE [Entry(l, x) EXCEPT !.columns = <<>>, !.refColumns = <<>>]
With(l, e, r) == IF ForIndexes(l) THEN WithIndexColumn(e, r) ELSE WithKeyColumns(e, r)

LEMMA IndexParts ==
    ASSUME NEW l, NEW x, NEW r, ForIndexes(l), Typed(l, x), Says(l, x, r)
    PROVE  /\ (\A k \in Columns(x) : r.ordinal <= k) =>
                  With(l, Bare(l, x), r) = Part(l, x, r.ordinal)
           /\ \A c \in Columns(x) :
                 /\ c < r.ordinal /\ (\A k \in Columns(x) : k <= c \/ r.ordinal <= k) =>
                        With(l, Part(l, x, c), r) = Part(l, x, r.ordinal)
                 /\ (\A k \in Columns(x) : k <= c) => Part(l, x, c) = Entry(l, x)
<1> DEFINE s == ShownUpTo(x.columns)
           n == Len(x.columns)
           d == r.ordinal
<1>1. /\ n \in Nat /\ x.columns \in Seq(Texts \cup {Nil}) /\ d \in 1..n /\ x.columns[d] # Nil
      /\ Columns(x) \subseteq 1..n /\ \A k \in 1..n : k \in Columns(x) <=> x.columns[k] # Nil
    <2>1. x.columns \in Seq(Texts \cup {Nil})
        BY DEF Typed
    <2>2. DOMAIN x.columns = 1..n /\ n \in Nat
        BY <2>1
    <2>3. QED
        BY <2>1, <2>2 DEF Columns, Says
<1>2. s[0] = <<>> /\ s[d] = Append(s[d - 1], Displayed[x.columns[d]])
    BY <1>1, ShownIs
<1>3. ASSUME NEW a \in 0..n, NEW b \in a..n, \A k \in (a + 1)..b : k \notin Columns(x)
      PROVE  s[b] = s[a]
    <2>1. \A k \in (a + 1)..b : x.columns[k] = Nil
        BY <1>1, <1>3
    <2>2. QED
        BY <1>1, <2>1, ShownBetween
<1>4. r.column = x.columns[d]
    BY DEF Says
<1>5. ASSUME \A k \in Columns(x) : d <= k
      PROVE  With(l, Bare(l, x), r) = Part(l, x, d)
    <2>1. s[d - 1] = s[0]
        <3>1. 0 \in 0..n /\ d - 1 \in 0..n
            BY <1>1
        <3>2. \A k \in (0 + 1)..(d - 1) : k \notin Columns(x)
            BY <1>1, <1>5
        <3> HIDE DEF s, n, d
        <3>3. QED
            BY <1>3, <3>1, <3>2
    <2>2. s[d] = Append(<<>>, Displayed[r.column])
        BY <1>2, <1>4, <2>1
    <2> HIDE DEF s
    <2>3. Part(l, x, d) = [IndexEntry(x) EXCEPT !.columns = s[d]]
        BY Zenon DEF Part, s
    <2>4. With(l, Bare(l, x), r) = [IndexEntry(x) EXCEPT !.columns = Append(<<>>, Displayed[r.column])]
        BY DEF With, Bare, WithIndexColumn, IndexEntry
    <2>5. QED
        BY <2>2, <2>3, <2>4
<1>6. ASSUME NEW c \in Columns(x), c < d, \A k \in Columns(x) : k <= c \/ d <= k
      PROVE  With(l, Part(l, x, c), r) = Part(l, x, d)
    <2>1. s[d - 1] = s[c]
        <3>1. c \in 0..n /\ d - 1 \in c..n
            BY <1>1, <1>6
        <3>2. \A k \in (c + 1)..(d - 1) : k \notin Columns(x)
            BY <1>1, <1>6
        <3> HIDE DEF s, n, d
        <3>3. QED
            BY <1>3, <3>1, <3>2
    <2>2. s[d] = Append(s[c], Displayed[r.column])
        BY <1>2, <1>4, <2>1
    <2> HIDE DEF s
    <2>3. Part(l, x, d) = [IndexEntry(x) EXCEPT !.columns = s[d]]
          /\ Part(l, x, c) = [IndexEntry(x) EXCEPT !.columns = s[c]]
        BY Zenon DEF Part, s
    <2>4. With(l, Part(l, x, c), r) =
            [IndexEntry(x) EXCEPT !.columns = Append(s[c], Displayed[r.column])]
        BY <2>3 DEF With, WithIndexColumn, IndexEntry
    <2>5. QED
        BY <2>2, <2>3, <2>4
<1>7. ASSUME NEW c \in Columns(x), \A k \in Columns(x) : k <= c
      PROVE  Part(l, x, c) = Entry(l, x)
    <2>1. s[n] = s[c]
        <3>1. c \in 0..n /\ n \in c..n
            BY <1>1
        <3>2. \A k \in (c + 1)..n : k \notin Columns(x)
            BY <1>1, <1>7
        <3> HIDE DEF s, n
        <3>3. QED
            BY <1>3, <3>1, <3>2
    <2> HIDE DEF s
    <2>2. Part(l, x, c) = [IndexEntry(x) EXCEPT !.columns = s[c]]
        BY Zenon DEF Part, s
    <2>3. IndexEntry(x).columns = s[n]
        BY DEF IndexEntry, s
    <2>4. [IndexEntry(x) EXCEPT !.columns = IndexEntry(x).columns] = IndexEntry(x)
        BY DEF IndexEntry
    <2>5. QED
        BY <2>1, <2>2, <2>3, <2>4 DEF Entry
<1>8. QED
    BY <1>5, <1>6, <1>7

\* One more of some names.
LEMMA FirstOfAppend ==
    ASSUME NEW names, NEW c \in Nat
    PROVE  /\ FirstOf(names, 0) = <<>>
           /\ Append(FirstOf(names, c), Displayed[names[c + 1]]) = FirstOf(names, c + 1)
<1> DEFINE f == FirstOf(names, c)
<1>1. f = [k \in 1..c |-> f[k]] /\ \A k \in 1..c : f[k] = Displayed[names[k]]
    BY DEF FirstOf
<1> HIDE DEF f
<1>2. Append(f, Displayed[names[c + 1]]) =
        [k \in 1..(c + 1) |-> IF k = c + 1 THEN Displayed[names[c + 1]] ELSE f[k]]
    BY <1>1, AppendIs
<1>3. FirstOf(names, c + 1) =
        [k \in 1..(c + 1) |-> IF k = c + 1 THEN Displayed[names[c + 1]] ELSE f[k]]
    BY <1>1 DEF FirstOf
<1>4. FirstOf(names, 0) = <<>>
    BY DEF FirstOf
<1>5. QED
    BY <1>2, <1>3, <1>4 DEF f

LEMMA KeyParts ==
    ASSUME NEW l, NEW x, NEW r, ~ ForIndexes(l), Typed(l, x), Says(l, x, r),
           DOMAIN x.refColumns = DOMAIN x.columns
    PROVE  /\ (\A k \in Columns(x) : r.ordinal <= k) =>
                  With(l, Bare(l, x), r) = Part(l, x, r.ordinal)
           /\ \A c \in Columns(x) :
                 /\ c < r.ordinal /\ (\A k \in Columns(x) : k <= c \/ r.ordinal <= k) =>
                        With(l, Part(l, x, c), r) = Part(l, x, r.ordinal)
                 /\ (\A k \in Columns(x) : k <= c) => Part(l, x, c) = Entry(l, x)
<1> DEFINE n == Len(x.columns)
           d == r.ordinal
           P(a, b) == [Entry(l, x) EXCEPT !.columns = a, !.refColumns = b]
<1>1. /\ n \in Nat /\ DOMAIN x.columns = 1..n /\ Columns(x) = 1..n /\ d \in 1..n
    <2>1. x.columns \in Seq(Texts)
        BY DEF Typed
    <2>2. DOMAIN x.columns = 1..n /\ n \in Nat /\ \A k \in 1..n : x.columns[k] \in Texts
        BY <2>1
    <2>3. Columns(x) = 1..n
        BY <2>2, TextsAssumption DEF Columns
    <2>4. QED
        BY <2>2, <2>3 DEF Says
<1>2. r.column = x.columns[d] /\ r.refColumn = x.refColumns[d]
    BY DEF Says
<1>3. \A c : Part(l, x, c) = P(FirstOf(x.columns, c), FirstOf(x.refColumns, c))
    BY Zenon DEF Part
<1>4. Bare(l, x) = P(<<>>, <<>>)
    BY Zenon DEF Bare
<1>5. \A a, b : With(l, P(a, b), r) = P(Append(a, Displayed[r.column]), Append(b, Displayed[r.refColumn]))
    <2>1. Entry(l, x) = [Entry(l, x) EXCEPT !.columns = Entry(l, x).columns]
          /\ "columns" \in DOMAIN Entry(l, x) /\ "refColumns" \in DOMAIN Entry(l, x)
        BY DEF Entry, ForeignKeyEntry, ReferencingEntry
    <2> DEFINE e == Entry(l, x)
    <2> HIDE DEF e
    <2>2. ASSUME NEW a, NEW b
          PROVE  With(l, [e EXCEPT !.columns = a, !.refColumns = b], r) =
                    [e EXCEPT !.columns = Append(a, Displayed[r.column]),
                              !.refColumns = Append(b, Displayed[r.refColumn])]
        <3>1. "columns" \in DOMAIN e /\ "refColumns" \in DOMAIN e
            BY <2>1 DEF e
        <3>2. QED
            BY <3>1 DEF With, WithKeyColumns
    <2>3. QED
        BY <2>2 DEF e
<1> HIDE DEF P
<1>6. ASSUME NEW c \in 0..n, d = c + 1
      PROVE  With(l, P(FirstOf(x.columns, c), FirstOf(x.refColumns, c)), r) = Part(l, x, d)
    <2>1. c \in Nat
        BY <1>1
    <2>2. Append(FirstOf(x.columns, c), Displayed[r.column]) = FirstOf(x.columns, d)
          /\ Append(FirstOf(x.refColumns, c), Displayed[r.refColumn]) = FirstOf(x.refColumns, d)
        BY <1>2, <1>6, <2>1, FirstOfAppend
    <2>3. QED
        BY <1>3, <1>5, <2>2, Zenon
<1>7. ASSUME \A k \in Columns(x) : d <= k
      PROVE  With(l, Bare(l, x), r) = Part(l, x, d)
    <2>1. 0 \in 0..n /\ d = 0 + 1
        <3>1. 1 \in Columns(x)
            BY <1>1
        <3>2. d <= 1
            BY <1>7, <3>1
        <3>3. QED
            BY <1>1, <3>2
    <2>2. FirstOf(x.columns, 0) = <<>> /\ FirstOf(x.refColumns, 0) = <<>>
        BY FirstOfAppend
    <2>3. With(l, P(FirstOf(x.columns, 0), FirstOf(x.refColumns, 0)), r) = Part(l, x, d)
        BY <1>6, <2>1
    <2>4. QED
        BY <1>4, <2>2, <2>3
<1>8. ASSUME NEW c \in Columns(x), c < d, \A k \in Columns(x) : k <= c \/ d <= k
      PROVE  With(l, Part(l, x, c), r) = Part(l, x, d)
    <2>1. c \in 0..n /\ d = c + 1
        <3>1. c \in 1..n /\ c + 1 \in Columns(x)
            BY <1>1, <1>8
        <3>2. c + 1 <= c \/ d <= c + 1
            BY <1>8, <3>1
        <3>3. QED
            BY <1>1, <1>8, <3>1, <3>2
    <2>2. With(l, P(FirstOf(x.columns, c), FirstOf(x.refColumns, c)), r) = Part(l, x, d)
        BY <1>6, <2>1
    <2>3. QED
        BY <1>3, <2>2
<1>9. ASSUME NEW c \in Columns(x), \A k \in Columns(x) : k <= c
      PROVE  Part(l, x, c) = Entry(l, x)
    <2>1. c = n
        <3>1. c \in 1..n /\ n \in Columns(x)
            BY <1>1
        <3>2. n <= c
            BY <1>9, <3>1
        <3>3. QED
            BY <1>1, <3>1, <3>2
    <2>2. FirstOf(x.columns, n) = AllDisplayed(x.columns)
          /\ FirstOf(x.refColumns, n) = AllDisplayed(x.refColumns)
        BY <1>1 DEF FirstOf, AllDisplayed
    <2>3. P(AllDisplayed(x.columns), AllDisplayed(x.refColumns)) = Entry(l, x)
        <3> DEFINE a == AllDisplayed(x.columns)
                   b == AllDisplayed(x.refColumns)
                   e == Entry(l, x)
        <3>1. e = [f \in DOMAIN e |-> e[f]] /\ e.columns = a /\ e.refColumns = b
            <4>1. CASE ForReferencing(l)
                BY <4>1 DEF Entry, ReferencingEntry
            <4>2. CASE ~ ForReferencing(l)
                BY <4>2 DEF Entry, ForeignKeyEntry
            <4>3. QED
                BY <4>1, <4>2
        <3> HIDE DEF a, b, e
        <3>2. [e EXCEPT !.columns = a, !.refColumns = b] = e
            BY <3>1
        <3>3. QED
            BY <3>2 DEF a, b, e, P
    <2>4. QED
        BY <1>3, <2>1, <2>2, <2>3
<1>10. QED
    BY <1>7, <1>8, <1>9
-----------------------------------------------------------------------------
(***************************************************************************)
(* What the queries answer.                                                *)
(***************************************************************************)
IndexRow(i, k) ==
    [table |-> i.table, name |-> i.name, ordinal |-> k, column |-> i.columns[k],
     unique |-> i.unique, primary |-> i.primary]

LEMMA IndexRowsAre ==
    ASSUME NEW r
    PROVE  r \in IndexRows <=> \E i \in catalog.indexes : \E k \in Columns(i) : r = IndexRow(i, k)
BY DEF IndexRows, IndexRow, Columns

LEMMA IndexQuery ==
    ASSUME catalog \in Catalogs, NEW own \in SUBSET Showable, NEW all,
           \A r : r \in all <=> \E i \in own : \E k \in Columns(i) : r = IndexRow(i, k)
    PROVE  /\ RowsOf(all, own)
           /\ \A x \in own : x \in catalog.indexes /\ x.columns \in Seq(Texts \cup {Nil})
           /\ \A r \in all : \A x \in own : Alike(x, r) =>
                 r.column = x.columns[r.ordinal] /\ r.unique = x.unique
                    /\ r.primary = x.primary
<1>1. ASSUME NEW i \in catalog.indexes
      PROVE  /\ HasName(i) /\ i.columns \in Seq(Texts \cup {Nil})
             /\ Columns(i) \subseteq Nat
             /\ \A j \in catalog.indexes : Alike(i, j) => i = j
    <2>1. HasName(i) /\ i.columns \in Seq(Texts \cup {Nil})
        BY CatalogsAssumption, Zenon DEF HasName
    <2>2. DOMAIN i.columns \subseteq Nat
        BY <2>1
    <2>3. \A j \in catalog.indexes : Alike(i, j) => i = j
        BY CatalogsAssumption, Zenon DEF Alike
    <2>4. QED
        BY <2>1, <2>2, <2>3 DEF Columns
<1>2. \A i \in own : i \in catalog.indexes /\ Columns(i) # {}
    BY DEF Showable, Columns
<1>4. ASSUME NEW r \in all
      PROVE  \E x \in own :
                /\ r = IndexRow(x, r.ordinal) /\ r.ordinal \in Columns(x) /\ Alike(x, r)
                /\ HasName(r) /\ r.ordinal \in Nat
    <2>0. PICK i \in own : \E k \in Columns(i) : r = IndexRow(i, k)
        OBVIOUS
    <2>1. PICK k \in Columns(i) : r = IndexRow(i, k)
        BY <2>0
    <2>2. r.ordinal = k /\ r.table = i.table /\ r.name = i.name
        BY <2>1 DEF IndexRow
    <2>3. HasName(i) /\ k \in Nat
        BY <1>1, <1>2
    <2>4. QED
        BY <2>1, <2>2, <2>3 DEF HasName, Alike
<1>5. ASSUME NEW x \in own
      PROVE  /\ x \in catalog.indexes /\ HasName(x) /\ Columns(x) \subseteq Nat /\ Columns(x) # {}
             /\ \A y \in own : Alike(x, y) => x = y
             /\ \A k \in Columns(x) : \E r \in all : Alike(x, r) /\ r.ordinal = k
    <2>1. x \in catalog.indexes /\ Columns(x) # {}
        BY <1>2
    <2>2. \A y \in own : Alike(x, y) => x = y
        BY <1>1, <1>2, <2>1, Zenon
    <2>3. ASSUME NEW k \in Columns(x)
          PROVE  \E r \in all : Alike(x, r) /\ r.ordinal = k
        <3>1. IndexRow(x, k) \in all
            OBVIOUS
        <3>2. Alike(x, IndexRow(x, k)) /\ IndexRow(x, k).ordinal = k
            BY DEF Alike, IndexRow
        <3>3. QED
            BY <3>1, <3>2
    <2>4. QED
        BY <1>1, <2>1, <2>2, <2>3
<1>6. ASSUME NEW r \in all, NEW x \in own, Alike(x, r)
      PROVE  r = IndexRow(x, r.ordinal)
    <2>1. PICK y \in own : r = IndexRow(y, r.ordinal) /\ Alike(y, r)
        BY <1>4
    <2>2. Alike(x, y)
        BY <1>6, <2>1 DEF Alike
    <2>3. x = y
        BY <1>5, <2>2, Zenon
    <2>4. QED
        BY <2>1, <2>3
<1>7. ASSUME NEW r \in all, NEW s \in all, Alike(r, s), r.ordinal = s.ordinal
      PROVE  r = s
    <2>1. PICK x \in own : r = IndexRow(x, r.ordinal) /\ Alike(x, r)
        BY <1>4
    <2>2. Alike(x, s)
        BY <1>7, <2>1 DEF Alike
    <2>3. s = IndexRow(x, s.ordinal)
        BY <1>6, <2>2
    <2>4. QED
        BY <1>7, <2>1, <2>3, Zenon
<1>8. RowsOf(all, own)
    <2>1. \A r \in all : /\ HasName(r) /\ r.ordinal \in Nat
                         /\ \E x \in own : Alike(x, r) /\ r.ordinal \in Columns(x)
        BY <1>4
    <2>2. QED
        BY <1>5, <1>7, <2>1, Zenon DEF RowsOf
<1>9. ASSUME NEW r \in all, NEW x \in own, Alike(x, r)
      PROVE  r.column = x.columns[r.ordinal] /\ r.unique = x.unique /\ r.primary = x.primary
    <2> DEFINE k == r.ordinal
    <2>1. r = IndexRow(x, k)
        BY <1>6, <1>9
    <2> HIDE DEF k
    <2>2. r.column = x.columns[k] /\ r.unique = x.unique /\ r.primary = x.primary
        BY <2>1 DEF IndexRow
    <2>3. QED
        BY <2>2 DEF k
<1>10. QED
    BY <1>1, <1>5, <1>8, <1>9, Zenon

-----------------------------------------------------------------------------
\* The usages that the join finds for the n-th column of a foreign key.
Usage(k, n) ==
    [table |-> k.table, name |-> k.name, ordinal |-> n, column |-> k.columns[n],
     position |-> k.positions[n]]
KeyUsage(key, m) ==
    [table |-> key.table, name |-> key.name, ordinal |-> m, column |-> key.columns[m],
     position |-> Nil]
Referred(k) == CHOOSE key \in catalog.keys : Named(key) = k.rests
Sources(k, n) == <<k, Usage(k, n), k, KeyUsage(Referred(k), k.positions[n])>>

\* What the join asks of four rows.
Joined(q) ==
    /\ q \in catalog.fks \X KeyColumnUsage \X catalog.fks \X KeyColumnUsage
    /\ Named(q[2]) = Named(q[1]) /\ Named(q[3]) = Named(q[1])
    /\ JoinedColumns(q[2], q[3], q[4])

KeyRow(q) ==
    [table |-> q[1].table, name |-> q[1].name, ordinal |-> q[2].ordinal, column |-> q[2].column,
     ref |-> q[4].table, refColumn |-> q[4].column, rules |-> q[3].rules, source |-> q]

LEMMA KeyRowsAre ==
    ASSUME NEW r
    PROVE  r \in ForeignKeyRows <=> \E q : Joined(q) /\ r = KeyRow(q)
BY DEF ForeignKeyRows, Joined, KeyRow

LEMMA UsagesAre ==
    ASSUME NEW u
    PROVE  u \in KeyColumnUsage <=>
              \/ \E key \in catalog.keys : \E n \in DOMAIN key.columns : u = KeyUsage(key, n)
              \/ \E key \in catalog.fks : \E n \in DOMAIN key.columns : u = Usage(key, n)
<1>1. \A key : UsageOf(key, [k \in DOMAIN key.columns |-> Nil]) =
                  {KeyUsage(key, n) : n \in DOMAIN key.columns}
    BY DEF UsageOf, KeyUsage
<1>2. \A key : UsageOf(key, key.positions) = {Usage(key, n) : n \in DOMAIN key.columns}
    BY DEF UsageOf, Usage
<1>3. u \in KeyColumnUsage <=>
        \/ \E key \in catalog.keys : u \in UsageOf(key, [k \in DOMAIN key.columns |-> Nil])
        \/ \E key \in catalog.fks : u \in UsageOf(key, key.positions)
    <2> DEFINE A(key) == UsageOf(key, [k \in DOMAIN key.columns |-> Nil])
               B(key) == UsageOf(key, key.positions)
    <2>1. KeyColumnUsage = (UNION {A(key) : key \in catalog.keys}) \cup (UNION {B(key) : key \in catalog.fks})
        BY Zenon DEF KeyColumnUsage
    <2> HIDE DEF A, B
    <2>2. u \in KeyColumnUsage <=> \/ \E key \in catalog.keys : u \in A(key)
                                   \/ \E key \in catalog.fks : u \in B(key)
        <3> DEFINE M == UNION {A(key) : key \in catalog.keys}
                   N == UNION {B(key) : key \in catalog.fks}
        <3>1. u \in M <=> \E key \in catalog.keys : u \in A(key)
            BY Zenon
        <3>2. u \in N <=> \E key \in catalog.fks : u \in B(key)
            BY Zenon
        <3>3. KeyColumnUsage = M \cup N
            BY <2>1, Zenon
        <3> HIDE DEF M, N
        <3>4. u \in KeyColumnUsage <=> u \in M \/ u \in N
            BY <3>3
        <3>5. QED
            BY <3>1, <3>2, <3>4, Zenon
    <2>3. QED
        BY <2>2 DEF A, B
<1>4. ASSUME NEW key
      PROVE  /\ u \in UsageOf(key, [k \in DOMAIN key.columns |-> Nil]) <=>
                    \E n \in DOMAIN key.columns : u = KeyUsage(key, n)
             /\ u \in UsageOf(key, key.positions) <=>
                    \E n \in DOMAIN key.columns : u = Usage(key, n)
    <2>1. u \in {KeyUsage(key, n) : n \in DOMAIN key.columns} <=>
            \E n \in DOMAIN key.columns : u = KeyUsage(key, n)
        OBVIOUS
    <2>2. u \in {Usage(key, n) : n \in DOMAIN key.columns} <=>
            \E n \in DOMAIN key.columns : u = Usage(key, n)
        OBVIOUS
    <2>3. QED
        BY <1>1, <1>2, <2>1, <2>2, Zenon
<1>5. QED
    BY <1>3, <1>4, Zenon

\* What a foreign key rests on has the columns it references.
LEMMA ReferredIs ==
    ASSUME catalog \in Catalogs, NamesIdentify, NEW k \in Resting
    PROVE  /\ Referred(k) \in catalog.keys /\ Named(Referred(k)) = k.rests
           /\ Referred(k).table = k.ref
           /\ \A n \in DOMAIN k.columns :
                 /\ k.positions[n] \in DOMAIN Referred(k).columns
                 /\ Referred(k).columns[k.positions[n]] = k.refColumns[n]
<1>1. k \in catalog.fks /\ k.rests # Nil
    BY DEF Resting
<1>2. PICK key \in catalog.keys :
        /\ key.table = k.ref /\ Named(key) = k.rests
        /\ \A n \in DOMAIN k.columns :
              /\ k.positions[n] \in DOMAIN key.columns
              /\ key.columns[k.positions[n]] = k.refColumns[n]
    BY <1>1, CatalogsAssumption, Zenon
<1>3. Referred(k) \in catalog.keys /\ Named(Referred(k)) = k.rests
    BY <1>2, Zenon DEF Referred
<1>4. Referred(k) = key
    BY <1>2, <1>3, Zenon DEF NamesIdentify
<1>5. QED
    BY <1>2, <1>4, Zenon

LEMMA JoinedAre ==
    ASSUME catalog \in Catalogs, NamesIdentify, NEW q
    PROVE  Joined(q) <=> \E k \in Resting : \E n \in DOMAIN k.columns : q = Sources(k, n)
<1>0. /\ \A key, n : Named(KeyUsage(key, n)) = Named(key) /\ Named(Usage(key, n)) = Named(key)
      /\ \A key, n : KeyUsage(key, n).ordinal = n /\ Usage(key, n).position = key.positions[n]
    BY DEF Named, KeyUsage, Usage
<1>1. catalog.keys \cap catalog.fks = {}
    BY CatalogsAssumption
<1>2. ASSUME Joined(q)
      PROVE  \E k \in Resting : \E n \in DOMAIN k.columns : q = Sources(k, n)
    <2>1. /\ q[1] \in catalog.fks /\ q[2] \in KeyColumnUsage
          /\ q[3] \in catalog.fks /\ q[4] \in KeyColumnUsage
          /\ q = <<q[1], q[2], q[3], q[4]>>
          /\ Named(q[2]) = Named(q[1]) /\ Named(q[3]) = Named(q[1])
          /\ q[3].rests # Nil /\ Named(q[4]) = q[3].rests /\ q[4].ordinal = q[2].position
        BY <1>2 DEF Joined, JoinedColumns
    <2> DEFINE k == q[1]
    <2>2. q[3] = k /\ k \in Resting
        <3>1. q[3] = k
            BY <2>1, Zenon DEF NamesIdentify
        <3>2. QED
            BY <2>1, <3>1 DEF Resting
    <2>3. PICK n \in DOMAIN k.columns : q[2] = Usage(k, n)
        <3>1. ASSUME NEW key \in catalog.keys \cup catalog.fks, Named(key) = Named(k)
              PROVE  key = k
            BY <2>1, <3>1, Zenon DEF NamesIdentify
        <3>2. ~ \E key \in catalog.keys : \E m \in DOMAIN key.columns : q[2] = KeyUsage(key, m)
            BY <1>0, <1>1, <2>1, <3>1
        <3>3. PICK key \in catalog.fks : \E m \in DOMAIN key.columns : q[2] = Usage(key, m)
            BY <2>1, <3>2, UsagesAre, Zenon
        <3>4. key = k
            BY <1>0, <2>1, <3>1, <3>3
        <3>5. QED
            BY <3>3, <3>4
    <2>4. q[4] = KeyUsage(Referred(k), k.positions[n])
        <3>0. Referred(k) \in catalog.keys /\ Named(Referred(k)) = k.rests
            BY <2>2, ReferredIs
        <3>1. ASSUME NEW key \in catalog.keys \cup catalog.fks, Named(key) = Named(q[4])
              PROVE  key = Referred(k)
            BY <2>1, <2>2, <3>0, <3>1, Zenon DEF NamesIdentify
        <3>2. ~ \E key \in catalog.fks : \E m \in DOMAIN key.columns : q[4] = Usage(key, m)
            BY <1>0, <1>1, <3>0, <3>1
        <3>3. PICK key \in catalog.keys : \E m \in DOMAIN key.columns : q[4] = KeyUsage(key, m)
            BY <2>1, <3>2, UsagesAre, Zenon
        <3>4. PICK m \in DOMAIN key.columns : q[4] = KeyUsage(key, m)
            BY <3>3
        <3>5. key = Referred(k)
            BY <1>0, <3>1, <3>4
        <3>6. m = k.positions[n]
            <4>1. q[4].ordinal = m
                BY <1>0, <3>4
            <4>2. q[2].position = k.positions[n]
                BY <1>0, <2>3
            <4>3. q[4].ordinal = q[2].position
                BY <2>1
            <4>4. QED
                BY <4>1, <4>2, <4>3, Zenon
        <3>7. QED
            BY <3>4, <3>5, <3>6
    <2>5. q = Sources(k, n)
        BY <2>1, <2>2, <2>3, <2>4, Zenon DEF Sources
    <2>6. QED
        BY <2>2, <2>5
<1>3. ASSUME NEW k \in Resting, NEW n \in DOMAIN k.columns, q = Sources(k, n)
      PROVE  Joined(q)
    <2> DEFINE u == Usage(k, n)
               v == KeyUsage(Referred(k), k.positions[n])
    <2>1. /\ Referred(k) \in catalog.keys /\ Named(Referred(k)) = k.rests
          /\ k.positions[n] \in DOMAIN Referred(k).columns
          /\ k \in catalog.fks /\ k.rests # Nil
        BY ReferredIs, Zenon DEF Resting
    <2>2. u \in KeyColumnUsage /\ v \in KeyColumnUsage
        BY <2>1, UsagesAre, Zenon
    <2>3. /\ Named(u) = Named(k) /\ JoinedColumns(u, k, v)
        BY <1>0, <2>1, Zenon DEF JoinedColumns
    <2>4. q = <<k, u, k, v>>
        BY <1>3 DEF Sources
    <2> HIDE DEF u, v
    <2>5. QED
        BY <2>1, <2>2, <2>3, <2>4 DEF Joined
<1>4. QED
    BY <1>2, <1>3
\* The row of a foreign key's n-th column.
LEMMA KeyRowIs ==
    ASSUME catalog \in Catalogs, NamesIdentify, NEW k \in Resting, NEW n \in DOMAIN k.columns
    PROVE  LET r == KeyRow(Sources(k, n))
           IN  /\ r.table = k.table /\ r.name = k.name /\ r.ordinal = n
               /\ r.column = k.columns[n] /\ r.ref = k.ref /\ r.refColumn = k.refColumns[n]
               /\ r.rules = k.rules
<1> DEFINE u == Usage(k, n)
           key == Referred(k)
           v == KeyUsage(key, k.positions[n])
           q == <<k, u, k, v>>
<1>1. key.table = k.ref /\ key.columns[k.positions[n]] = k.refColumns[n]
    BY ReferredIs
<1>2. u.ordinal = n /\ u.column = k.columns[n]
    BY DEF Usage
<1>3. v.table = key.table /\ v.column = key.columns[k.positions[n]]
    BY DEF KeyUsage
<1> HIDE DEF u, v, key
<1>4. q[1] = k /\ q[2] = u /\ q[3] = k /\ q[4] = v
    OBVIOUS
<1> HIDE DEF q
<1>5. LET r == KeyRow(q)
      IN  /\ r.table = k.table /\ r.name = k.name /\ r.ordinal = n
          /\ r.column = k.columns[n] /\ r.ref = k.ref /\ r.refColumn = k.refColumns[n]
          /\ r.rules = k.rules
    BY <1>1, <1>2, <1>3, <1>4 DEF KeyRow
<1>6. Sources(k, n) = q
    BY Zenon DEF Sources, q, u, v, key
<1>7. QED
    BY <1>5, <1>6, Zenon

LEMMA RestingIs ==
    ASSUME catalog \in Catalogs, NamesIdentify, NEW k \in Resting
    PROVE  /\ HasName(k) /\ k.columns \in Seq(Texts) /\ DOMAIN k.refColumns = DOMAIN k.columns
           /\ Columns(k) = DOMAIN k.columns /\ Columns(k) # {} /\ Columns(k) \subseteq Nat
           /\ \A m \in Resting : Alike(k, m) => k = m
<1>1. k \in catalog.fks
    BY DEF Resting
<1>2. HasName(k) /\ k.columns \in Seq(Texts) \ {<<>>}
        /\ DOMAIN k.refColumns = DOMAIN k.columns
    BY <1>1, CatalogsAssumption, Zenon DEF HasName
<1>3. Columns(k) = DOMAIN k.columns /\ Columns(k) # {} /\ Columns(k) \subseteq Nat
    <2> DEFINE columns == k.columns
    <2>1. columns \in Seq(Texts) /\ columns # <<>>
        BY <1>2
    <2> HIDE DEF columns
    <2>2. /\ DOMAIN columns = 1..Len(columns) /\ 1 \in DOMAIN columns
          /\ \A n \in DOMAIN columns : columns[n] \in Texts
        BY <2>1
    <2>3. QED
        BY <2>2, TextsAssumption DEF Columns, columns
<1>4. \A m \in Resting : Alike(k, m) => k = m
    BY <1>1, Zenon DEF Resting, NamesIdentify, Alike, Named
<1>5. QED
    BY <1>2, <1>3, <1>4

\* A row has the content of the key's column.
KeyContent(k, r) ==
    /\ r.column = k.columns[r.ordinal] /\ r.refColumn = k.refColumns[r.ordinal]
    /\ r.ref = k.ref /\ r.rules = k.rules

LEMMA KeyQuery ==
    ASSUME catalog \in Catalogs, NamesIdentify, NEW own \in SUBSET Resting, NEW all,
           \A r : r \in all <=> \E k \in own : \E n \in Columns(k) : r = KeyRow(Sources(k, n))
    PROVE  /\ RowsOf(all, own)
           /\ \A r \in all : \A x \in own : Alike(x, r) => KeyContent(x, r)
<1> DEFINE Row(k, n) == KeyRow(Sources(k, n))
<1>1. ASSUME NEW k \in own, NEW n \in Columns(k)
      PROVE  /\ Row(k, n) \in all /\ Alike(k, Row(k, n)) /\ HasName(Row(k, n))
             /\ n \in Nat /\ Row(k, n).ordinal = n
             /\ Row(k, n).column = k.columns[n] /\ Row(k, n).refColumn = k.refColumns[n]
             /\ Row(k, n).ref = k.ref /\ Row(k, n).rules = k.rules
    <2>1. k \in Resting /\ n \in DOMAIN k.columns /\ n \in Nat /\ HasName(k)
        BY RestingIs
    <2>2. /\ Row(k, n).table = k.table /\ Row(k, n).name = k.name /\ Row(k, n).ordinal = n
          /\ Row(k, n).column = k.columns[n] /\ Row(k, n).ref = k.ref
          /\ Row(k, n).refColumn = k.refColumns[n] /\ Row(k, n).rules = k.rules
        BY <2>1, KeyRowIs
    <2> HIDE DEF Row
    <2>3. Alike(k, Row(k, n)) /\ HasName(Row(k, n))
        BY <2>1, <2>2, Zenon DEF Alike, HasName
    <2>4. Row(k, n) \in all
        BY Zenon DEF Row
    <2>5. QED
        BY <2>1, <2>2, <2>3, <2>4
<1>2. ASSUME NEW r \in all
      PROVE  \E x \in own : r = Row(x, r.ordinal) /\ r.ordinal \in Columns(x) /\ Alike(x, r)
                            /\ HasName(r) /\ r.ordinal \in Nat
    <2>1. PICK x \in own : \E n \in Columns(x) : r = Row(x, n)
        OBVIOUS
    <2>2. PICK n \in Columns(x) : r = Row(x, n)
        BY <2>1
    <2> HIDE DEF Row
    <2>3. r.ordinal = n
        BY <1>1, <2>2
    <2>4. QED
        BY <1>1, <2>2, <2>3
<1> HIDE DEF Row
<1>3. ASSUME NEW x \in own
      PROVE  /\ HasName(x) /\ Columns(x) \subseteq Nat /\ Columns(x) # {}
             /\ \A y \in own : Alike(x, y) => x = y
    BY RestingIs
<1>4. ASSUME NEW r \in all, NEW x \in own, Alike(x, r)
      PROVE  r = Row(x, r.ordinal) /\ r.ordinal \in Columns(x)
    <2>1. PICK y \in own : r = Row(y, r.ordinal) /\ Alike(y, r) /\ r.ordinal \in Columns(y)
        BY <1>2
    <2>2. Alike(x, y)
        BY <1>4, <2>1 DEF Alike
    <2>3. x = y
        BY <1>3, <2>2, Zenon
    <2>4. QED
        BY <2>1, <2>3
<1>5. ASSUME NEW r \in all, NEW s \in all, Alike(r, s), r.ordinal = s.ordinal
      PROVE  r = s
    <2>1. PICK x \in own : r = Row(x, r.ordinal) /\ Alike(x, r)
        BY <1>2
    <2>2. Alike(x, s)
        BY <1>5, <2>1 DEF Alike
    <2>3. s = Row(x, s.ordinal)
        BY <1>4, <2>2
    <2>4. QED
        BY <1>5, <2>1, <2>3, Zenon
<1>6. RowsOf(all, own)
    <2>1. \A r \in all : /\ HasName(r) /\ r.ordinal \in Nat
                         /\ \E x \in own : Alike(x, r) /\ r.ordinal \in Columns(x)
        BY <1>2
    <2>2. \A x \in own : \A k \in Columns(x) : \E r \in all : Alike(x, r) /\ r.ordinal = k
        BY <1>1
    <2>3. QED
        BY <1>3, <1>5, <2>1, <2>2, Zenon DEF RowsOf
<1>7. ASSUME NEW r \in all, NEW x \in own, Alike(x, r)
      PROVE  KeyContent(x, r)
    <2> DEFINE n == r.ordinal
    <2>1. r = Row(x, n) /\ n \in Columns(x)
        BY <1>4, <1>7
    <2> HIDE DEF n
    <2>2. r.column = x.columns[n] /\ r.refColumn = x.refColumns[n] /\ r.ref = x.ref
            /\ r.rules = x.rules
        BY <1>1, <2>1
    <2>3. QED
        BY <2>2 DEF n, KeyContent
<1>8. QED
    BY <1>6, <1>7

-----------------------------------------------------------------------------
\* What a listing is about.
Own(l) ==
    CASE l.op = "ListIndexes" -> {i \in Showable : i.table = TableParts(l.table)}
      [] l.op = "ListIndexesAll" -> {i \in Showable : i.table[1] \notin SystemSchemas}
      [] l.op = "ListForeignKeys" -> {k \in Resting : k.table = TableParts(l.table)}
      [] l.op = "ListReferencingForeignKeys" -> {k \in Resting : k.ref = TableParts(l.table)}
      [] l.op = "ListForeignKeysAll" -> Resting

\* What it is promised under.
Promised(l) ==
    /\ ~ ForIndexes(l) => NamesIdentify
    /\ ~ ForAll(l) => PlainNames(Own(l))
    /\ ForReferencing(l) => ApartWhenDisplayed(Own(l))
    /\ ForAll(l) => ApartWhenJoined(Own(l))

\* Of one index or key, what the scan needs.
Sound(l, x) ==
    /\ HasName(x) /\ Typed(l, x)
    /\ ~ ForIndexes(l) => DOMAIN x.refColumns = DOMAIN x.columns
    /\ l.op = "ListReferencingForeignKeys" => x.ref = TableParts(l.table)
    /\ l.op \in {"ListIndexes", "ListForeignKeys"} => x.table = TableParts(l.table)

LEMMA OpsAre ==
    ASSUME NEW l \in Lists
    PROVE  l.op \in {"ListIndexes", "ListIndexesAll", "ListForeignKeys",
                     "ListReferencingForeignKeys", "ListForeignKeysAll"}
BY ListsAssumption

LEMMA IndexQueryIs ==
    ASSUME catalog \in Catalogs, NEW l \in Lists, ForIndexes(l)
    PROVE  /\ RowsOf(Query(l), Own(l)) /\ IsFiniteSet(Own(l))
           /\ \A x \in Own(l) : Sound(l, x)
           /\ \A r \in Query(l) : \A x \in Own(l) :
                 Alike(x, r) /\ r.ordinal \in Columns(x) => Says(l, x, r)
<1> DEFINE own == Own(l)
           all == Query(l)
<1>1. own \in SUBSET Showable
    <2>1. CASE l.op = "ListIndexes"
        BY <2>1 DEF Own
    <2>2. CASE l.op = "ListIndexesAll"
        BY <2>2 DEF Own
    <2>3. QED
        BY <2>1, <2>2 DEF ForIndexes
<1>2. \A r : r \in all <=> \E i \in own : \E k \in Columns(i) : r = IndexRow(i, k)
    <2>1. \A i, k : IndexRow(i, k).table = i.table
        BY DEF IndexRow
    <2>2. \A i \in catalog.indexes : \A k \in Columns(i) : i \in Showable
        BY DEF Showable, Columns
    <2>3. \A r : r \in IndexRows <=> \E i \in Showable : \E k \in Columns(i) : r = IndexRow(i, k)
        <3>1. \A i \in Showable : i \in catalog.indexes
            BY DEF Showable
        <3>2. QED
            BY <2>2, <3>1, IndexRowsAre, Zenon
    <2>4. CASE l.op = "ListIndexes"
        <3>1. \A r : r \in all <=> r \in IndexRows /\ r.table = TableParts(l.table)
            BY <2>4 DEF Query
        <3>2. \A i : i \in own <=> i \in Showable /\ i.table = TableParts(l.table)
            BY <2>4 DEF Own
        <3> HIDE DEF own, all
        <3>3. QED
            BY <2>1, <2>3, <3>1, <3>2
    <2>5. CASE l.op = "ListIndexesAll"
        <3>1. \A r : r \in all <=> r \in IndexRows /\ r.table[1] \notin SystemSchemas
            BY <2>5 DEF Query
        <3>2. \A i : i \in own <=> i \in Showable /\ i.table[1] \notin SystemSchemas
            BY <2>5 DEF Own
        <3> HIDE DEF own, all
        <3>3. QED
            BY <2>1, <2>3, <3>1, <3>2
    <2>6. QED
        BY <2>4, <2>5 DEF ForIndexes
<1> HIDE DEF own, all
<1>3. /\ RowsOf(all, own)
      /\ \A x \in own : x \in catalog.indexes /\ x.columns \in Seq(Texts \cup {Nil})
      /\ \A r \in all : \A x \in own : Alike(x, r) =>
            r.column = x.columns[r.ordinal] /\ r.unique = x.unique /\ r.primary = x.primary
    BY <1>1, <1>2, IndexQuery
<1>4. IsFiniteSet(own)
    <2>1. own \subseteq catalog.indexes
        BY <1>3
    <2>2. IsFiniteSet(catalog.indexes)
        BY CatalogsAssumption
    <2>3. QED
        BY <2>1, <2>2, FS_Subset
<1>5. ASSUME NEW x \in own
      PROVE  Sound(l, x)
    <2>1. HasName(x) /\ Typed(l, x)
        BY <1>3 DEF RowsOf, Typed
    <2>3. CASE l.op = "ListIndexes"
        <3>1. x.table = TableParts(l.table)
            BY <2>3 DEF own, Own
        <3>2. QED
            BY <2>1, <2>3, <3>1 DEF Sound, ForIndexes
    <2>4. CASE l.op = "ListIndexesAll"
        <3>1. QED
            BY <2>1, <2>4 DEF Sound, ForIndexes
    <2>5. QED
        BY <2>3, <2>4 DEF ForIndexes
<1>6. ASSUME NEW r \in all, NEW x \in own, Alike(x, r), r.ordinal \in Columns(x)
      PROVE  Says(l, x, r)
    BY <1>3, <1>6 DEF Says
<1>7. QED
    BY <1>3, <1>4, <1>5, <1>6 DEF own, all

LEMMA KeyQueryIs ==
    ASSUME catalog \in Catalogs, NEW l \in Lists, ~ ForIndexes(l), NamesIdentify
    PROVE  /\ RowsOf(Query(l), Own(l)) /\ IsFiniteSet(Own(l))
           /\ \A x \in Own(l) : Sound(l, x)
           /\ \A r \in Query(l) : \A x \in Own(l) :
                 Alike(x, r) /\ r.ordinal \in Columns(x) => Says(l, x, r)
<1> DEFINE own == Own(l)
           all == Query(l)
<1>0. l.op \in {"ListForeignKeys", "ListReferencingForeignKeys", "ListForeignKeysAll"}
    BY OpsAre DEF ForIndexes
<1>1. own \in SUBSET Resting
    <2>1. CASE l.op = "ListForeignKeys"
        BY <2>1 DEF Own
    <2>2. CASE l.op = "ListReferencingForeignKeys"
        BY <2>2 DEF Own
    <2>3. CASE l.op = "ListForeignKeysAll"
        BY <2>3 DEF Own
    <2>4. QED
        BY <1>0, <2>1, <2>2, <2>3
<1>2. \A r : r \in all <=> \E k \in own : \E n \in Columns(k) : r = KeyRow(Sources(k, n))
    <2> DEFINE Row(k, n) == KeyRow(Sources(k, n))
    <2>1. \A k \in Resting : \A n \in Columns(k) : Row(k, n).table = k.table /\ Row(k, n).ref = k.ref
        <3>1. ASSUME NEW k \in Resting, NEW n \in Columns(k)
              PROVE  Row(k, n).table = k.table /\ Row(k, n).ref = k.ref
            <4>1. n \in DOMAIN k.columns
                BY RestingIs
            <4>2. QED
                BY <4>1, KeyRowIs
        <3>2. QED
            BY <3>1
    <2>2. \A r : r \in ForeignKeyRows <=> \E k \in Resting : \E n \in Columns(k) : r = Row(k, n)
        <3>1. \A k \in Resting : Columns(k) = DOMAIN k.columns
            BY RestingIs
        <3>2. ASSUME NEW r
              PROVE  r \in ForeignKeyRows <=> \E k \in Resting : \E n \in Columns(k) : r = Row(k, n)
            <4>1. r \in ForeignKeyRows <=> \E q : Joined(q) /\ r = KeyRow(q)
                BY KeyRowsAre
            <4>2. \A q : Joined(q) <=> \E k \in Resting : \E n \in DOMAIN k.columns : q = Sources(k, n)
                BY JoinedAre
            <4>3. QED
                BY <3>1, <4>1, <4>2, Zenon
        <3>3. QED
            BY <3>2
    <2> HIDE DEF Row
    <2>3. CASE l.op = "ListForeignKeys"
        <3>1. \A r : r \in all <=> r \in ForeignKeyRows /\ r.table = TableParts(l.table)
            BY <2>3 DEF Query
        <3>2. \A k : k \in own <=> k \in Resting /\ k.table = TableParts(l.table)
            BY <2>3 DEF Own
        <3> HIDE DEF own, all
        <3>3. QED
            <4>1. \A r : r \in all <=> \E k \in own : \E n \in Columns(k) : r = Row(k, n)
                BY <2>1, <2>2, <3>1, <3>2
            <4>2. QED
                BY <4>1, Zenon DEF Row
    <2>4. CASE l.op = "ListReferencingForeignKeys"
        <3>1. \A r : r \in all <=> r \in ForeignKeyRows /\ r.ref = TableParts(l.table)
            BY <2>4 DEF Query
        <3>2. \A k : k \in own <=> k \in Resting /\ k.ref = TableParts(l.table)
            BY <2>4 DEF Own
        <3> HIDE DEF own, all
        <3>3. QED
            <4>1. \A r : r \in all <=> \E k \in own : \E n \in Columns(k) : r = Row(k, n)
                BY <2>1, <2>2, <3>1, <3>2
            <4>2. QED
                BY <4>1, Zenon DEF Row
    <2>5. CASE l.op = "ListForeignKeysAll"
        <3>1. all = ForeignKeyRows /\ own = Resting
            BY <2>5 DEF Query, Own
        <3> HIDE DEF own, all
        <3>2. QED
            BY <2>2, <3>1 DEF Row
    <2>6. QED
        BY <1>0, <2>3, <2>4, <2>5
<1> HIDE DEF own, all
<1>3. /\ RowsOf(all, own)
      /\ \A r \in all : \A x \in own : Alike(x, r) => KeyContent(x, r)
    <2>1. RowsOf(all, own)
        BY <1>1, <1>2, KeyQuery, Zenon
    <2>2. \A r \in all : \A x \in own : Alike(x, r) => KeyContent(x, r)
        BY <1>1, <1>2, KeyQuery, Zenon
    <2>3. QED
        BY <2>1, <2>2
<1>4. IsFiniteSet(own)
    <2>1. own \subseteq catalog.fks
        BY <1>1 DEF Resting
    <2>2. IsFiniteSet(catalog.fks)
        BY CatalogsAssumption
    <2>3. QED
        BY <2>1, <2>2, FS_Subset
<1>5. ASSUME NEW x \in own
      PROVE  Sound(l, x)
    <2>1. HasName(x) /\ Typed(l, x) /\ DOMAIN x.refColumns = DOMAIN x.columns
        BY <1>1, RestingIs DEF Typed
    <2>2. l.op = "ListForeignKeys" => x.table = TableParts(l.table)
        BY DEF own, Own
    <2>3. l.op = "ListReferencingForeignKeys" => x.ref = TableParts(l.table)
        BY DEF own, Own
    <2>4. QED
        BY <2>1, <2>2, <2>3 DEF Sound, ForIndexes
<1>6. ASSUME NEW r \in all, NEW x \in own, Alike(x, r), r.ordinal \in Columns(x)
      PROVE  Says(l, x, r)
    BY <1>3, <1>6 DEF Says, KeyContent
<1>7. QED
    BY <1>3, <1>4, <1>5, <1>6 DEF own, all
-----------------------------------------------------------------------------
(***************************************************************************)
(* The invariant: nothing has been scanned yet, or all rows up to the c-th *)
(* column of x have, and the entries of what comes before x are whole.     *)
(***************************************************************************)
Fresh == rows = Query(list) /\ result = <<>> /\ info = <<>>

UnderWay(x, c) ==
    /\ rows = Begun(Query(list), x, c)
    /\ IF ForAll(list)
       THEN /\ result = Tabled(list, Ahead(Own(list), x))
            /\ info = <<Part(list, x, c)>> /\ last = Place(x)
       ELSE result = Append(Listed(list, Ahead(Own(list), x)), Part(list, x, c))

Done == result = IF ForAll(list) THEN Tabled(list, Own(list)) ELSE Listed(list, Own(list))

ListingInv ==
    /\ catalog \in Catalogs
    /\ list = Nil => rows = {} /\ result = <<>> /\ info = <<>> /\ answer = Nil
    /\ list # Nil => list \in Lists
    /\ list # Nil /\ Promised(list) =>
          /\ answer = Nil => Fresh \/ \E x \in Own(list) : \E c \in Columns(x) : UnderWay(x, c)
          /\ answer = "ok" => Done
-----------------------------------------------------------------------------
(***************************************************************************)
(* One row more.                                                           *)
(***************************************************************************)
LEMMA QueryIs ==
    ASSUME catalog \in Catalogs, NEW l \in Lists, Promised(l)
    PROVE  /\ RowsOf(Query(l), Own(l)) /\ IsFiniteSet(Own(l))
           /\ \A x \in Own(l) : Sound(l, x)
           /\ \A r \in Query(l) : \A x \in Own(l) :
                 Alike(x, r) /\ r.ordinal \in Columns(x) => Says(l, x, r)
<1>1. CASE ForIndexes(l)
    BY <1>1, IndexQueryIs, Zenon
<1>2. CASE ~ ForIndexes(l)
    <2>1. NamesIdentify
        BY <1>2 DEF Promised
    <2>2. QED
        BY <1>2, <2>1, KeyQueryIs, Zenon
<1>3. QED
    BY <1>1, <1>2

LEMMA PartsAre ==
    ASSUME NEW l, NEW x, NEW r, Sound(l, x), Says(l, x, r)
    PROVE  /\ (\A k \in Columns(x) : r.ordinal <= k) =>
                  With(l, Bare(l, x), r) = Part(l, x, r.ordinal)
           /\ \A c \in Columns(x) :
                 /\ c < r.ordinal /\ (\A k \in Columns(x) : k <= c \/ r.ordinal <= k) =>
                        With(l, Part(l, x, c), r) = Part(l, x, r.ordinal)
                 /\ (\A k \in Columns(x) : k <= c) => Part(l, x, c) = Entry(l, x)
<1>1. Typed(l, x) /\ (~ ForIndexes(l) => DOMAIN x.refColumns = DOMAIN x.columns)
    BY DEF Sound
<1>2. CASE ForIndexes(l)
    BY <1>1, <1>2, IndexParts, Zenon
<1>3. CASE ~ ForIndexes(l)
    BY <1>1, <1>3, KeyParts, Zenon
<1>4. QED
    BY <1>2, <1>3

\* When the last column has been scanned the entry is whole.
LEMMA WholeIs ==
    ASSUME catalog \in Catalogs, NEW l \in Lists, Promised(l), NEW x \in Own(l),
           NEW c \in Columns(x), \A k \in Columns(x) : k <= c
    PROVE  Part(l, x, c) = Entry(l, x)
<1>1. PICK r \in Query(l) : Alike(x, r) /\ r.ordinal = c
    BY QueryIs, Zenon DEF RowsOf
<1>2. Sound(l, x) /\ Says(l, x, r)
    BY <1>1, QueryIs, Zenon
<1>3. QED
    BY <1>2, PartsAre, Zenon

\* The row is the first of all, the next of what is under way, or the first of
\* what comes after it.
Opens(l, y, r) == With(l, Bare(l, y), r) = Part(l, y, r.ordinal) /\ Ahead(Own(l), y) = {}
Goes(l, x, c, y, r) == x = y /\ With(l, Part(l, x, c), r) = Part(l, y, r.ordinal)
Follows(l, x, c, y, r) ==
    /\ x # y /\ Part(l, x, c) = Entry(l, x)
    /\ Ahead(Own(l), y) = Ahead(Own(l), x) \cup {x}
    /\ With(l, Bare(l, y), r) = Part(l, y, r.ordinal)

LEMMA RowIs ==
    ASSUME catalog \in Catalogs, list \in Lists, Promised(list), NEW r \in First(rows),
           Fresh \/ \E x \in Own(list) : \E c \in Columns(x) : UnderWay(x, c)
    PROVE  \E y \in Own(list) :
              /\ Says(list, y, r) /\ rows \ {r} = Begun(Query(list), y, r.ordinal)
              /\ \/ Fresh /\ Opens(list, y, r)
                 \/ \E x \in Own(list) : \E c \in Columns(x) :
                        UnderWay(x, c) /\ (Goes(list, x, c, y, r) \/ Follows(list, x, c, y, r))
<1> DEFINE all == Query(list)
           own == Own(list)
<1>1. /\ RowsOf(all, own)
      /\ \A x \in own : Sound(list, x)
      /\ \A s \in all : \A x \in own : Alike(x, s) /\ s.ordinal \in Columns(x) => Says(list, x, s)
    BY QueryIs, Zenon
<1> HIDE DEF all, own
<1>2. CASE Fresh
    <2>1. rows = all
        BY <1>2 DEF Fresh, all
    <2>2. PICK y \in own :
              /\ Alike(y, r) /\ r.ordinal \in Columns(y) /\ \A k \in Columns(y) : r.ordinal <= k
              /\ Ahead(own, y) = {} /\ all \ {r} = Begun(all, y, r.ordinal)
        BY <1>1, <2>1, FirstRow, Zenon
    <2>3. r \in all
        BY <2>1 DEF First
    <2>4. Says(list, y, r) /\ Sound(list, y)
        BY <1>1, <2>2, <2>3, Zenon
    <2>5. With(list, Bare(list, y), r) = Part(list, y, r.ordinal)
        BY <2>2, <2>4, PartsAre, Zenon
    <2>6. QED
        BY <1>2, <2>1, <2>2, <2>4, <2>5, Zenon DEF Opens, all, own
<1>3. ASSUME NEW x \in own, NEW c \in Columns(x), UnderWay(x, c)
      PROVE  \E y \in own :
                /\ Says(list, y, r) /\ rows \ {r} = Begun(all, y, r.ordinal)
                /\ Goes(list, x, c, y, r) \/ Follows(list, x, c, y, r)
    <2>1. rows = Begun(all, x, c) /\ r \in all
        <3>1. rows = Begun(all, x, c)
            BY <1>3 DEF UnderWay, all
        <3>2. QED
            BY <3>1 DEF First, Begun
    <2>2. r \in First(Begun(all, x, c))
        BY <2>1
    <2>3. CASE /\ Alike(x, r) /\ r.ordinal \in Columns(x) /\ c < r.ordinal
               /\ \A k \in Columns(x) : k <= c \/ r.ordinal <= k
               /\ Begun(all, x, c) \ {r} = Begun(all, x, r.ordinal)
        <3>1. Says(list, x, r) /\ Sound(list, x)
            BY <1>1, <2>1, <2>3, Zenon
        <3>2. With(list, Part(list, x, c), r) = Part(list, x, r.ordinal)
            BY <2>3, <3>1, PartsAre, Zenon
        <3>3. QED
            BY <2>1, <2>3, <3>1, <3>2, Zenon DEF Goes
    <2>4. ASSUME NEW y \in own,
                 /\ Alike(y, r) /\ r.ordinal \in Columns(y) /\ \A k \in Columns(y) : r.ordinal <= k
                 /\ \A k \in Columns(x) : k <= c
                 /\ Earlier(x, y) /\ Ahead(own, y) = Ahead(own, x) \cup {x}
                 /\ Begun(all, x, c) \ {r} = Begun(all, y, r.ordinal)
          PROVE  Says(list, y, r) /\ Follows(list, x, c, y, r)
        <3>1. Says(list, y, r) /\ Sound(list, y)
            BY <1>1, <2>1, <2>4, Zenon
        <3>2. With(list, Bare(list, y), r) = Part(list, y, r.ordinal)
            <4>1. \A k \in Columns(y) : r.ordinal <= k
                BY <2>4
            <4>2. QED
                BY <3>1, <4>1, PartsAre, Zenon
        <3>3. Part(list, x, c) = Entry(list, x)
            BY <2>4, WholeIs, Zenon DEF own
        <3>4. x # y
            <4>1. HasName(x)
                BY <1>1 DEF RowsOf
            <4>2. QED
                BY <2>4, <4>1, EarlierOrders
        <3>5. QED
            BY <2>4, <3>1, <3>2, <3>3, <3>4, Zenon DEF Follows, own
    <2>5. QED
        BY <1>1, <2>1, <2>2, <2>3, <2>4, NextRow, Zenon
<1>4. QED
    <2>1. CASE Fresh
        BY <1>2, <2>1
    <2>2. CASE \E x \in own : \E c \in Columns(x) : UnderWay(x, c)
        <3>1. PICK x \in own : \E c \in Columns(x) : UnderWay(x, c)
            BY <2>2
        <3>2. PICK c \in Columns(x) : UnderWay(x, c)
            BY <3>1
        <3>3. QED
            BY <1>3, <3>2, Zenon DEF own, all
    <2>3. QED
        BY <2>1, <2>2 DEF own
-----------------------------------------------------------------------------
\* What the row makes of the entries, in the listing of a single table.
Made(l, belongs, y, r) ==
    IF result # <<>> /\ belongs
    THEN [result EXCEPT ![Len(result)] = With(l, @, r)]
    ELSE Append(result, With(l, Bare(l, y), r))

\* What is ahead is finite, and earlier.
LEMMA AheadIs ==
    ASSUME catalog \in Catalogs, NEW l \in Lists, Promised(l), NEW x \in Own(l)
    PROVE  AllBefore(Ahead(Own(l), x), x)
<1>1. RowsOf(Query(l), Own(l)) /\ IsFiniteSet(Own(l))
    BY QueryIs, Zenon
<1>2. \A y \in Own(l) : HasName(y)
    BY <1>1 DEF RowsOf
<1>3. Ahead(Own(l), x) \subseteq Own(l)
    BY DEF Ahead
<1>4. IsFiniteSet(Ahead(Own(l), x))
    BY <1>1, <1>3, FS_Subset
<1>5. QED
    BY <1>2, <1>4 DEF Ahead, AllBefore

LEMMA MadeIs ==
    ASSUME catalog \in Catalogs, list \in Lists, Promised(list), ~ ForAll(list),
           NEW y \in Own(list), NEW r, NEW belongs \in BOOLEAN,
           \/ Fresh /\ Opens(list, y, r)
           \/ \E x \in Own(list) : \E c \in Columns(x) :
                 /\ UnderWay(x, c) /\ (Goes(list, x, c, y, r) \/ Follows(list, x, c, y, r))
                 /\ belongs <=> x = y
    PROVE  Made(list, belongs, y, r) =
              Append(Listed(list, Ahead(Own(list), y)), Part(list, y, r.ordinal))
<1> DEFINE l == list
           ahead(x) == Ahead(Own(list), x)
<1>1. CASE Fresh /\ Opens(list, y, r)
    <2>1. result = <<>> /\ ahead(y) = {} /\ With(l, Bare(l, y), r) = Part(l, y, r.ordinal)
        BY <1>1 DEF Fresh, Opens
    <2>2. Made(l, belongs, y, r) = Append(<<>>, Part(l, y, r.ordinal))
        BY <2>1 DEF Made
    <2>3. QED
        BY <2>1, <2>2, NothingListed, Zenon
<1>2. ASSUME NEW x \in Own(list), NEW c \in Columns(x), UnderWay(x, c),
             Goes(list, x, c, y, r) \/ Follows(list, x, c, y, r), belongs <=> x = y
      PROVE  Made(l, belongs, y, r) = Append(Listed(l, ahead(y)), Part(l, y, r.ordinal))
    <2> DEFINE p == Part(l, x, c)
               f == Listed(l, ahead(x))
    <2>1. result = Append(f, p)
        BY <1>2, Zenon DEF UnderWay
    <2>2. /\ result # <<>> /\ result[Len(result)] = p
          /\ \A d : [result EXCEPT ![Len(result)] = d] = Append(f, d)
          /\ Listed(l, ahead(x) \cup {x}) = Append(f, Entry(l, x))
        <3>1. ListedGrows(l, ahead(x), x)
            BY AheadIs, ListedAppend, Zenon
        <3>2. /\ Listed(l, ahead(x) \cup {x}) = Append(f, Entry(l, x))
              /\ EndsIn(f)
            BY <3>1, Zenon DEF ListedGrows
        <3> HIDE DEF p, f
        <3>3. /\ Append(f, p) # <<>> /\ Append(f, p)[Len(Append(f, p))] = p
              /\ \A d : [Append(f, p) EXCEPT ![Len(Append(f, p))] = d] = Append(f, d)
            BY <3>2, Zenon DEF EndsIn
        <3>4. QED
            BY <2>1, <3>2, <3>3, Zenon
    <2>3. CASE Goes(list, x, c, y, r)
        <3>1. x = y /\ With(l, p, r) = Part(l, y, r.ordinal) /\ belongs
            BY <1>2, <2>3 DEF Goes
        <3> HIDE DEF p, f
        <3>2. Made(l, belongs, y, r) = [result EXCEPT ![Len(result)] = With(l, result[Len(result)], r)]
            BY <2>2, <3>1, Zenon DEF Made
        <3>3. Made(l, belongs, y, r) = Append(f, With(l, p, r))
            BY <2>2, <3>2, Zenon
        <3>4. f = Listed(l, ahead(y))
            BY <3>1 DEF f
        <3>5. QED
            BY <3>1, <3>3, <3>4, Zenon
    <2>4. CASE Follows(list, x, c, y, r)
        <3>1. /\ ~ belongs /\ p = Entry(l, x) /\ ahead(y) = ahead(x) \cup {x}
              /\ With(l, Bare(l, y), r) = Part(l, y, r.ordinal)
            BY <1>2, <2>4 DEF Follows
        <3> HIDE DEF p, f
        <3>2. result = Listed(l, ahead(y))
            BY <2>1, <2>2, <3>1, Zenon
        <3>3. Made(l, belongs, y, r) = Append(result, With(l, Bare(l, y), r))
            BY <3>1, Zenon DEF Made
        <3>4. QED
            BY <3>1, <3>2, <3>3, Zenon
    <2>5. QED
        BY <1>2, <2>3, <2>4
<1>3. QED
    BY <1>1, <1>2

\* What the row makes of them when all tables are listed.
LEMMA RecordedIs ==
    ASSUME catalog \in Catalogs, list \in Lists, Promised(list), ForAll(list),
           NEW x \in Own(list), NEW c \in Columns(x), UnderWay(x, c),
           Part(list, x, c) = Entry(list, x)
    PROVE  Recorded = Tabled(list, Ahead(Own(list), x) \cup {x})
<1> DEFINE S == Ahead(Own(list), x)
           old == Tabled(list, S)
           e == <<Entry(list, x)>>
           q == Qualified[x.table]
<1>1. result = old /\ info = e /\ last.table = q
    BY DEF UnderWay, Place
<1>2. TabledGrows(list, S, x)
    BY AheadIs, TabledAppend, Zenon
<1>3. Tabled(list, S \cup {x}) =
        [t \in DOMAIN old \cup {q} |->
            IF t \notin DOMAIN old THEN e ELSE IF t = q THEN old[t] \o e ELSE old[t]]
    <2> HIDE DEF S
    <2>1. QED
        BY <1>2, Zenon DEF TabledGrows
<1>4. info # <<>>
    BY <1>1
<1> HIDE DEF S, old, q, e
<1>5. Recorded = [t \in DOMAIN old \cup {q} |->
            IF t \notin DOMAIN old THEN e ELSE IF t = q THEN old[t] \o e ELSE old[t]]
    BY <1>1, <1>4, Zenon DEF Recorded
<1>6. QED
    BY <1>3, <1>5, Zenon DEF S
-----------------------------------------------------------------------------
(***************************************************************************)
(* Every step keeps the invariant.                                         *)
(***************************************************************************)
LEMMA Unmoved ==
    ASSUME UNCHANGED <<catalog, list>>
    PROVE  Query(list)' = Query(list) /\ Own(list)' = Own(list) /\ (Promised(list)' <=> Promised(list))
<1>0. catalog' = catalog /\ list' = list
    OBVIOUS
<1>1. IndexRows' = IndexRows /\ KeyColumnUsage' = KeyColumnUsage
    BY <1>0 DEF IndexRows, KeyColumnUsage
<1>2. ForeignKeyRows' = ForeignKeyRows
    BY <1>0, <1>1 DEF ForeignKeyRows
<1>3. Query(list)' = Query(list)
    BY <1>0, <1>1, <1>2 DEF Query
<1>4. Showable' = Showable /\ Resting' = Resting
    BY <1>0 DEF Showable, Resting
<1>5. Own(list)' = Own(list)
    BY <1>0, <1>4 DEF Own
<1>6. NamesIdentify' <=> NamesIdentify
    BY <1>0 DEF NamesIdentify
<1>7. Promised(list)' <=> Promised(list)
    BY <1>0, <1>5, <1>6 DEF Promised, ForIndexes, ForAll, ForReferencing, PlainNames, ApartWhenDisplayed,
        ApartWhenJoined, Place
<1>8. QED
    BY <1>3, <1>5, <1>7

\* What stands at the end, and the name in it.
LEMMA LatestIs ==
    ASSUME catalog \in Catalogs, list \in Lists, Promised(list), ~ ForAll(list),
           NEW x \in Own(list), NEW c \in Columns(x), UnderWay(x, c)
    PROVE  result # <<>> /\ Latest = Part(list, x, c)
<1> DEFINE f == Listed(list, Ahead(Own(list), x))
           p == Part(list, x, c)
<1>1. result = Append(f, p)
    BY Zenon DEF UnderWay
<1>2. EndsIn(f)
    BY AheadIs, ListedAppend, Zenon DEF ListedGrows
<1> HIDE DEF f, p
<1>3. Append(f, p) # <<>> /\ Append(f, p)[Len(Append(f, p))] = p
    BY <1>2, Zenon DEF EndsIn
<1>4. QED
    BY <1>1, <1>3, Zenon DEF Latest, p

LEMMA PartNames ==
    ASSUME NEW l, NEW x, NEW c
    PROVE  /\ ForIndexes(l) => Part(l, x, c).name = Displayed[x.name]
           /\ ~ ForIndexes(l) => Part(l, x, c).id = Displayed[x.name]
           /\ ~ ForIndexes(l) /\ ForReferencing(l) =>
                 Part(l, x, c).table = Displayed[Qualified[x.table]]
<1>1. CASE ForIndexes(l)
    BY <1>1 DEF Part, IndexEntry
<1>2. CASE ~ ForIndexes(l)
    <2> DEFINE e == Entry(l, x)
    <2>1. /\ DOMAIN e \subseteq {"table", "id", "ref", "rules", "columns", "refColumns"}
          /\ "id" \in DOMAIN e /\ e.id = Displayed[x.name]
          /\ ForReferencing(l) => "table" \in DOMAIN e /\ e.table = Displayed[Qualified[x.table]]
        <3>1. CASE ForReferencing(l)
            BY <1>2, <3>1 DEF Entry, ReferencingEntry
        <3>2. CASE ~ ForReferencing(l)
            BY <1>2, <3>2 DEF Entry, ForeignKeyEntry
        <3>3. QED
            BY <3>1, <3>2
    <2> HIDE DEF e
    <2>2. Part(l, x, c) = [e EXCEPT !.columns = FirstOf(x.columns, c),
                                    !.refColumns = FirstOf(x.refColumns, c)]
        BY <1>2, Zenon DEF Part, e
    <2>3. QED
        BY <1>2, <2>1, <2>2
<1>3. QED
    BY <1>1, <1>2

\* A new entry is the one of the row's index or key.
LEMMA BareIs ==
    ASSUME NEW x, NEW r, list \in Lists, Sound(list, x), Says(list, x, r)
    PROVE  /\ ForIndexes(list) => IndexInfo(r) = Bare(list, x)
           /\ list.op \in {"ListForeignKeys", "ListForeignKeysAll"} =>
                 ForeignKeyInfo(r) = Bare(list, x)
           /\ ForReferencing(list) => ReferencingInfo(r) = Bare(list, x)
<1>1. r.table = x.table /\ r.name = x.name
    BY DEF Says, Alike
<1>2. ASSUME ForIndexes(list)
      PROVE  IndexInfo(r) = Bare(list, x)
    <2>1. r.unique = x.unique /\ r.primary = x.primary
        BY <1>2 DEF Says
    <2>2. QED
        BY <1>1, <1>2, <2>1 DEF IndexInfo, Bare, IndexEntry
<1>3. ASSUME ~ ForIndexes(list)
      PROVE  r.ref = x.ref /\ r.rules = x.rules
    BY <1>3 DEF Says
<1>4. ASSUME list.op \in {"ListForeignKeys", "ListForeignKeysAll"}
      PROVE  ForeignKeyInfo(r) = Bare(list, x)
    <2>1. ~ ForIndexes(list) /\ ~ ForReferencing(list)
        BY <1>4 DEF ForIndexes, ForReferencing
    <2>2. Bare(list, x) = [ForeignKeyEntry(x) EXCEPT !.columns = <<>>, !.refColumns = <<>>]
        BY <2>1, Zenon DEF Bare, Entry
    <2>3. QED
        BY <1>1, <1>3, <2>1, <2>2 DEF ForeignKeyInfo, ForeignKeyEntry
<1>5. ASSUME ForReferencing(list)
      PROVE  ReferencingInfo(r) = Bare(list, x)
    <2>1. ~ ForIndexes(list) /\ x.ref = TableParts(list.table)
        BY <1>5 DEF ForIndexes, ForReferencing, Sound
    <2>2. Bare(list, x) = [ReferencingEntry(x) EXCEPT !.columns = <<>>, !.refColumns = <<>>]
        BY <1>5, <2>1, Zenon DEF Bare, Entry
    <2>3. QED
        BY <1>1, <1>3, <2>1, <2>2 DEF ReferencingInfo, ReferencingEntry
<1>6. QED
    BY <1>2, <1>4, <1>5

\* Two indexes or keys in a listing of one name are one and the same.
LEMMA SameIs ==
    ASSUME catalog \in Catalogs, NEW l \in Lists, Promised(l), NEW x \in Own(l), NEW y \in Own(l),
           x.table = y.table, x.name = y.name
    PROVE  x = y
<1>1. RowsOf(Query(l), Own(l))
    BY QueryIs, Zenon
<1>2. Alike(x, y)
    BY DEF Alike
<1>3. QED
    BY <1>1, <1>2, Zenon DEF RowsOf

\* The row belongs to the last entry just when both are of one index or key.
LEMMA BelongsIs ==
    ASSUME catalog \in Catalogs, list \in Lists, Promised(list), ~ ForAll(list),
           NEW x \in Own(list), NEW c \in Columns(x), UnderWay(x, c),
           NEW y \in Own(list), NEW r, Says(list, y, r)
    PROVE  /\ list.op = "ListIndexes" => (Latest.name = r.name <=> x = y)
           /\ list.op = "ListForeignKeys" => (Latest.id = r.name <=> x = y)
           /\ ForReferencing(list) =>
                 (Latest.table = Displayed[Qualified[r.table]] /\ Latest.id = r.name <=> x = y)
<1> DEFINE p == Part(list, x, c)
<1>1. Latest = p
    BY LatestIs, Zenon
<1>2. /\ ForIndexes(list) => p.name = Displayed[x.name]
      /\ ~ ForIndexes(list) => p.id = Displayed[x.name]
      /\ ~ ForIndexes(list) /\ ForReferencing(list) => p.table = Displayed[Qualified[x.table]]
    BY PartNames, Zenon
<1> HIDE DEF p
<1>3. Displayed[x.name] = x.name
    BY DEF Promised, PlainNames
<1>4. r.name = y.name /\ r.table = y.table
    BY DEF Says, Alike
<1>5. Sound(list, x) /\ Sound(list, y)
    BY QueryIs, Zenon
<1>6. x.table = y.table /\ x.name = y.name => x = y
    BY SameIs, Zenon
<1>7. ASSUME list.op = "ListIndexes"
      PROVE  Latest.name = r.name <=> x = y
    <2>1. x.table = y.table /\ ForIndexes(list)
        BY <1>5, <1>7 DEF Sound, ForIndexes
    <2>2. QED
        BY <1>1, <1>2, <1>3, <1>4, <1>6, <2>1, Zenon
<1>8. ASSUME list.op = "ListForeignKeys"
      PROVE  Latest.id = r.name <=> x = y
    <2>1. x.table = y.table /\ ~ ForIndexes(list)
        BY <1>5, <1>8 DEF Sound, ForIndexes
    <2>2. QED
        BY <1>1, <1>2, <1>3, <1>4, <1>6, <2>1, Zenon
<1>9. ASSUME ForReferencing(list)
      PROVE  Latest.table = Displayed[Qualified[r.table]] /\ Latest.id = r.name <=> x = y
    <2>1. ~ ForIndexes(list)
        BY <1>9 DEF ForIndexes, ForReferencing
    <2>2. Displayed[Qualified[x.table]] = Displayed[Qualified[y.table]] /\ x.name = y.name =>
              x.table = y.table
        BY <1>9 DEF Promised, ApartWhenDisplayed
    <2>3. QED
        BY <1>1, <1>2, <1>3, <1>4, <1>6, <1>9, <2>1, <2>2, Zenon
<1>10. QED
    BY <1>7, <1>8, <1>9
-----------------------------------------------------------------------------
\* What a step has to leave.
LEMMA InvAfter ==
    ASSUME ListingInv, list # Nil, UNCHANGED <<catalog, list>>,
           Promised(list) =>
              /\ answer' = Nil =>
                    \E y \in Own(list) : \E c \in Columns(y) :
                        /\ rows' = Begun(Query(list), y, c)
                        /\ IF ForAll(list)
                           THEN /\ result' = Tabled(list, Ahead(Own(list), y))
                                /\ info' = <<Part(list, y, c)>> /\ last' = Place(y)
                           ELSE result' = Append(Listed(list, Ahead(Own(list), y)), Part(list, y, c))
              /\ answer' = "ok" =>
                    result' = IF ForAll(list) THEN Tabled(list, Own(list)) ELSE Listed(list, Own(list))
    PROVE  ListingInv'
<1> DEFINE q == Query(list)
           o == Own(list)
           After(y, c) ==
              /\ rows' = Begun(q, y, c)
              /\ IF ForAll(list)
                 THEN /\ result' = Tabled(list, Ahead(o, y))
                      /\ info' = <<Part(list, y, c)>> /\ last' = Place(y)
                 ELSE result' = Append(Listed(list, Ahead(o, y)), Part(list, y, c))
<1>1. list' = list /\ catalog' = catalog
    OBVIOUS
<1>2. Query(list)' = q /\ Own(list)' = o /\ (Promised(list)' <=> Promised(list))
    BY Unmoved
<1>3. \A y, c : UnderWay(y, c)' <=> After(y, c)
    <2>1. ForAll(list)' <=> ForAll(list)
        BY <1>1 DEF ForAll
    <2>2. QED
        BY <1>1, <1>2, <2>1, Zenon DEF UnderWay
<1>4. Done' <=> result' = IF ForAll(list) THEN Tabled(list, o) ELSE Listed(list, o)
    <2>1. ForAll(list)' <=> ForAll(list)
        BY <1>1 DEF ForAll
    <2>2. QED
        BY <1>1, <1>2, <2>1, Zenon DEF Done
<1>5. Promised(list) /\ answer' = Nil => \E y \in o : \E c \in Columns(y) : UnderWay(y, c)'
    BY <1>3, Zenon
<1>6. Promised(list) /\ answer' = "ok" => Done'
    BY <1>4, Zenon
<1> HIDE DEF q, o, After
<1>7. QED
    BY <1>1, <1>2, <1>5, <1>6 DEF ListingInv
\* The listing of a single table: the row goes with the last entry just when
\* they are of one index or key.
LEMMA SingleStep ==
    ASSUME ListingInv, list # Nil, ~ ForAll(list), NEW r, Scan(list.op, r), NEW belongs \in BOOLEAN,
           \A y \in Own(list) : Promised(list) /\ Says(list, y, r) =>
              /\ result' = Made(list, belongs, y, r)
              /\ \A x \in Own(list) : \A c \in Columns(x) : UnderWay(x, c) => (belongs <=> x = y)
    PROVE  ListingInv'
<1>1. /\ catalog \in Catalogs /\ list \in Lists /\ answer = Nil /\ answer' = Nil
      /\ r \in First(rows) /\ rows' = rows \ {r} /\ UNCHANGED <<catalog, list>>
    BY DEF ListingInv, Scan
<1>2. Nil # "ok"
    BY ListsAssumption
<1>3. ASSUME Promised(list)
      PROVE  \E y \in Own(list) : \E c \in Columns(y) :
                /\ rows' = Begun(Query(list), y, c)
                /\ result' = Append(Listed(list, Ahead(Own(list), y)), Part(list, y, c))
    <2>1. Fresh \/ \E x \in Own(list) : \E c \in Columns(x) : UnderWay(x, c)
        BY <1>1, <1>3 DEF ListingInv
    <2>2. PICK y \in Own(list) :
              /\ Says(list, y, r) /\ rows \ {r} = Begun(Query(list), y, r.ordinal)
              /\ \/ Fresh /\ Opens(list, y, r)
                 \/ \E x \in Own(list) : \E c \in Columns(x) :
                        UnderWay(x, c) /\ (Goes(list, x, c, y, r) \/ Follows(list, x, c, y, r))
        BY <1>1, <1>3, <2>1, RowIs, Zenon
    <2>3. /\ result' = Made(list, belongs, y, r)
          /\ \A x \in Own(list) : \A c \in Columns(x) : UnderWay(x, c) => (belongs <=> x = y)
        BY <1>3, <2>2, Zenon
    <2>4. \/ Fresh /\ Opens(list, y, r)
          \/ \E x \in Own(list) : \E c \in Columns(x) :
                /\ UnderWay(x, c) /\ (Goes(list, x, c, y, r) \/ Follows(list, x, c, y, r))
                /\ belongs <=> x = y
        BY <2>2, <2>3, Zenon
    <2>5. Made(list, belongs, y, r) =
              Append(Listed(list, Ahead(Own(list), y)), Part(list, y, r.ordinal))
        BY <1>1, <1>3, <2>4, MadeIs, Zenon
    <2>6. r.ordinal \in Columns(y)
        BY <2>2 DEF Says
    <2>7. QED
        BY <1>1, <2>2, <2>3, <2>5, <2>6, Zenon
<1>4. QED
    BY <1>1, <1>2, <1>3, InvAfter, Zenon

LEMMA ScanIndexStep ==
    ASSUME ListingInv, NEW r, ScanIndex(r)
    PROVE  ListingInv'
<1> DEFINE belongs == Latest.name = r.name
<1>1. list # Nil /\ list.op = "ListIndexes" /\ Scan(list.op, r) /\ catalog \in Catalogs
        /\ list \in Lists
    BY DEF ScanIndex, Scan, ListingInv
<1>2. ForIndexes(list) /\ ~ ForAll(list)
    BY <1>1 DEF ForIndexes, ForAll
<1>3. ASSUME NEW y \in Own(list), Promised(list), Says(list, y, r)
      PROVE  /\ result' = Made(list, belongs, y, r)
             /\ \A x \in Own(list) : \A c \in Columns(x) : UnderWay(x, c) => (belongs <=> x = y)
    <2>1. Sound(list, y)
        BY <1>1, <1>3, QueryIs, Zenon
    <2>2. IndexInfo(r) = Bare(list, y)
        BY <1>1, <1>2, <1>3, <2>1, BareIs, Zenon
    <2>3. result' = Extended(r, belongs, Bare(list, y), WithIndexColumn)
        BY <2>2, Zenon DEF ScanIndex
    <2>4. result' = Made(list, belongs, y, r)
        BY <1>2, <2>3, Zenon DEF Extended, Made, With
    <2>5. \A x \in Own(list) : \A c \in Columns(x) : UnderWay(x, c) => (belongs <=> x = y)
        BY <1>1, <1>2, <1>3, BelongsIs, Zenon
    <2>6. QED
        BY <2>4, <2>5
<1>4. belongs \in BOOLEAN
    OBVIOUS
<1> HIDE DEF belongs
<1>5. QED
    BY <1>1, <1>2, <1>3, <1>4, SingleStep, Zenon

LEMMA ScanForeignKeyStep ==
    ASSUME ListingInv, NEW r, ScanForeignKey(r)
    PROVE  ListingInv'
<1> DEFINE belongs == Latest.id = r.name
<1>1. list # Nil /\ list.op = "ListForeignKeys" /\ Scan(list.op, r) /\ catalog \in Catalogs
        /\ list \in Lists
    BY DEF ScanForeignKey, Scan, ListingInv
<1>2. ~ ForIndexes(list) /\ ~ ForAll(list) /\ list.op \in {"ListForeignKeys", "ListForeignKeysAll"}
    BY <1>1 DEF ForIndexes, ForAll
<1>3. ASSUME NEW y \in Own(list), Promised(list), Says(list, y, r)
      PROVE  /\ result' = Made(list, belongs, y, r)
             /\ \A x \in Own(list) : \A c \in Columns(x) : UnderWay(x, c) => (belongs <=> x = y)
    <2>1. Sound(list, y)
        BY <1>1, <1>3, QueryIs, Zenon
    <2>2. ForeignKeyInfo(r) = Bare(list, y)
        BY <1>1, <1>2, <1>3, <2>1, BareIs, Zenon
    <2>3. result' = Extended(r, belongs, Bare(list, y), WithKeyColumns)
        BY <2>2, Zenon DEF ScanForeignKey
    <2>4. result' = Made(list, belongs, y, r)
        BY <1>2, <2>3, Zenon DEF Extended, Made, With
    <2>5. \A x \in Own(list) : \A c \in Columns(x) : UnderWay(x, c) => (belongs <=> x = y)
        BY <1>1, <1>2, <1>3, BelongsIs, Zenon
    <2>6. QED
        BY <2>4, <2>5
<1>4. belongs \in BOOLEAN
    OBVIOUS
<1> HIDE DEF belongs
<1>5. QED
    BY <1>1, <1>2, <1>3, <1>4, SingleStep, Zenon

LEMMA ScanReferencingStep ==
    ASSUME ListingInv, NEW r, ScanReferencing(r)
    PROVE  ListingInv'
<1> DEFINE belongs == Latest.table = Displayed[Qualified[r.table]] /\ Latest.id = r.name
<1>1. list # Nil /\ ForReferencing(list) /\ Scan(list.op, r) /\ catalog \in Catalogs
        /\ list \in Lists
    BY DEF ScanReferencing, Scan, ListingInv, ForReferencing
<1>2. ~ ForIndexes(list) /\ ~ ForAll(list)
    BY <1>1 DEF ForIndexes, ForAll, ForReferencing
<1>3. ASSUME NEW y \in Own(list), Promised(list), Says(list, y, r)
      PROVE  /\ result' = Made(list, belongs, y, r)
             /\ \A x \in Own(list) : \A c \in Columns(x) : UnderWay(x, c) => (belongs <=> x = y)
    <2>1. Sound(list, y)
        BY <1>1, <1>3, QueryIs, Zenon
    <2>2. ReferencingInfo(r) = Bare(list, y)
        BY <1>1, <1>3, <2>1, BareIs, Zenon
    <2>3. result' = Extended(r, belongs, Bare(list, y), WithKeyColumns)
        BY <2>2, Zenon DEF ScanReferencing
    <2>4. result' = Made(list, belongs, y, r)
        BY <1>2, <2>3, Zenon DEF Extended, Made, With
    <2>5. \A x \in Own(list) : \A c \in Columns(x) : UnderWay(x, c) => (belongs <=> x = y)
        BY <1>1, <1>2, <1>3, BelongsIs, Zenon
    <2>6. QED
        BY <2>4, <2>5
<1>4. belongs \in BOOLEAN
    OBVIOUS
<1> HIDE DEF belongs
<1>5. QED
    BY <1>1, <1>2, <1>3, <1>4, SingleStep, Zenon

\* The listing of all tables: the row's table and name tell whether it
\* continues the entry under way.
LEMMA AllStep ==
    ASSUME ListingInv, list # Nil, ForAll(list), NEW r, Scan(list.op, r),
           \A y \in Own(list) : Promised(list) /\ Says(list, y, r) =>
              IF Continues(r)
              THEN info' = <<With(list, info[1], r)>> /\ UNCHANGED <<result, last>>
              ELSE result' = Recorded /\ last' = Place(r) /\ info' = <<With(list, Bare(list, y), r)>>
    PROVE  ListingInv'
<1>1. /\ catalog \in Catalogs /\ list \in Lists /\ answer = Nil /\ answer' = Nil
      /\ r \in First(rows) /\ rows' = rows \ {r} /\ UNCHANGED <<catalog, list>>
    BY DEF ListingInv, Scan
<1>2. Nil # "ok"
    BY ListsAssumption
<1>3. ASSUME Promised(list)
      PROVE  \E y \in Own(list) : \E c \in Columns(y) :
                /\ rows' = Begun(Query(list), y, c)
                /\ result' = Tabled(list, Ahead(Own(list), y))
                /\ info' = <<Part(list, y, c)>> /\ last' = Place(y)
    <2>1. Fresh \/ \E x \in Own(list) : \E c \in Columns(x) : UnderWay(x, c)
        BY <1>1, <1>3 DEF ListingInv
    <2>2. PICK y \in Own(list) :
              /\ Says(list, y, r) /\ rows \ {r} = Begun(Query(list), y, r.ordinal)
              /\ \/ Fresh /\ Opens(list, y, r)
                 \/ \E x \in Own(list) : \E c \in Columns(x) :
                        UnderWay(x, c) /\ (Goes(list, x, c, y, r) \/ Follows(list, x, c, y, r))
        BY <1>1, <1>3, <2>1, RowIs, Zenon
    <2>3. /\ Continues(r) => info' = <<With(list, info[1], r)>> /\ result' = result /\ last' = last
          /\ ~ Continues(r) =>
                result' = Recorded /\ last' = Place(r) /\ info' = <<With(list, Bare(list, y), r)>>
        BY <1>3, <2>2
    <2>4. Place(r) = Place(y) /\ r.ordinal \in Columns(y)
        BY <2>2 DEF Says, Alike, Place
    <2>5. CASE Fresh /\ Opens(list, y, r)
        <3>1. /\ info = <<>> /\ result = <<>> /\ Ahead(Own(list), y) = {}
              /\ With(list, Bare(list, y), r) = Part(list, y, r.ordinal)
            BY <2>5 DEF Fresh, Opens
        <3>2. ~ Continues(r) /\ Recorded = <<>>
            BY <3>1 DEF Continues, Recorded
        <3>3. Tabled(list, Ahead(Own(list), y)) = <<>>
            BY <3>1, NothingListed
        <3>4. QED
            BY <1>1, <2>2, <2>3, <2>4, <3>1, <3>2, <3>3, Zenon
    <2>6. ASSUME NEW x \in Own(list), NEW c \in Columns(x), UnderWay(x, c),
                 Goes(list, x, c, y, r) \/ Follows(list, x, c, y, r)
          PROVE  /\ result' = Tabled(list, Ahead(Own(list), y))
                 /\ info' = <<Part(list, y, r.ordinal)>> /\ last' = Place(y)
        <3>1. /\ result = Tabled(list, Ahead(Own(list), x))
              /\ info = <<Part(list, x, c)>> /\ last = Place(x)
            BY <2>6 DEF UnderWay
        <3>2. info # <<>> /\ info[1] = Part(list, x, c)
            BY <3>1
        <3>3. CASE Goes(list, x, c, y, r)
            <4>1. x = y /\ With(list, Part(list, x, c), r) = Part(list, y, r.ordinal)
                BY <3>3 DEF Goes
            <4>2. Continues(r)
                BY <2>4, <3>1, <3>2, <4>1 DEF Continues
            <4>3. QED
                BY <2>3, <3>1, <3>2, <4>1, <4>2, Zenon
        <3>4. CASE Follows(list, x, c, y, r)
            <4>1. /\ x # y /\ Part(list, x, c) = Entry(list, x)
                  /\ Ahead(Own(list), y) = Ahead(Own(list), x) \cup {x}
                  /\ With(list, Bare(list, y), r) = Part(list, y, r.ordinal)
                BY <3>4 DEF Follows
            <4>2. Place(x) # Place(y)
                <5>1. Place(x) = Place(y) => x.table = y.table
                    BY <1>3 DEF Promised, ApartWhenJoined
                <5>2. Place(x) = Place(y) => x.name = y.name
                    BY DEF Place
                <5>3. QED
                    BY <1>1, <1>3, <4>1, <5>1, <5>2, SameIs, Zenon
            <4>3. ~ Continues(r)
                BY <2>4, <3>1, <4>2 DEF Continues
            <4>4. Recorded = Tabled(list, Ahead(Own(list), x) \cup {x})
                BY <1>1, <1>3, <2>6, <4>1, RecordedIs, Zenon
            <4>5. QED
                BY <2>3, <2>4, <4>1, <4>3, <4>4, Zenon
        <3>5. QED
            BY <2>6, <3>3, <3>4
    <2>7. QED
        BY <1>1, <2>2, <2>4, <2>5, <2>6, Zenon
<1>4. QED
    BY <1>1, <1>2, <1>3, InvAfter, Zenon

LEMMA ScanIndexAllStep ==
    ASSUME ListingInv, NEW r, ScanIndexAll(r)
    PROVE  ListingInv'
<1>1. list # Nil /\ list.op = "ListIndexesAll" /\ Scan(list.op, r) /\ catalog \in Catalogs
        /\ list \in Lists
    BY DEF ScanIndexAll, Scan, ListingInv
<1>2. ForIndexes(list) /\ ForAll(list)
    BY <1>1 DEF ForIndexes, ForAll
<1>3. ASSUME NEW y \in Own(list), Promised(list), Says(list, y, r)
      PROVE  IF Continues(r)
             THEN info' = <<With(list, info[1], r)>> /\ UNCHANGED <<result, last>>
             ELSE result' = Recorded /\ last' = Place(r) /\ info' = <<With(list, Bare(list, y), r)>>
    <2>1. Sound(list, y)
        BY <1>1, <1>3, QueryIs, Zenon
    <2>2. IndexInfo(r) = Bare(list, y)
        BY <1>1, <1>2, <1>3, <2>1, BareIs, Zenon
    <2>3. Grouped(r, Bare(list, y), WithIndexColumn)
        BY <2>2, Zenon DEF ScanIndexAll
    <2>4. QED
        BY <1>2, <2>3, Zenon DEF Grouped, With
<1>4. QED
    BY <1>1, <1>2, <1>3, AllStep, Zenon

LEMMA ScanForeignKeyAllStep ==
    ASSUME ListingInv, NEW r, ScanForeignKeyAll(r)
    PROVE  ListingInv'
<1>1. list # Nil /\ list.op = "ListForeignKeysAll" /\ Scan(list.op, r) /\ catalog \in Catalogs
        /\ list \in Lists
    BY DEF ScanForeignKeyAll, Scan, ListingInv
<1>2. ~ ForIndexes(list) /\ ForAll(list) /\ list.op \in {"ListForeignKeys", "ListForeignKeysAll"}
    BY <1>1 DEF ForIndexes, ForAll
<1>3. ASSUME NEW y \in Own(list), Promised(list), Says(list, y, r)
      PROVE  IF Continues(r)
             THEN info' = <<With(list, info[1], r)>> /\ UNCHANGED <<result, last>>
             ELSE result' = Recorded /\ last' = Place(r) /\ info' = <<With(list, Bare(list, y), r)>>
    <2>1. Sound(list, y)
        BY <1>1, <1>3, QueryIs, Zenon
    <2>2. ForeignKeyInfo(r) = Bare(list, y)
        BY <1>1, <1>2, <1>3, <2>1, BareIs, Zenon
    <2>3. Grouped(r, Bare(list, y), WithKeyColumns)
        BY <2>2, Zenon DEF ScanForeignKeyAll
    <2>4. QED
        BY <1>2, <2>3, Zenon DEF Grouped, With
<1>4. QED
    BY <1>1, <1>2, <1>3, AllStep, Zenon
-----------------------------------------------------------------------------
LEMMA StartStep ==
    ASSUME ListingInv, NEW l \in Lists, Start(l)
    PROVE  ListingInv'
<1>1. /\ list = Nil /\ list' = l /\ l # Nil /\ rows' = Query(l) /\ catalog' = catalog
      /\ result' = <<>> /\ info' = <<>> /\ answer' = Nil /\ catalog \in Catalogs
    BY ListsAssumption DEF Start, ListingInv
<1>2. Nil # "ok"
    BY ListsAssumption
<1>3. Query(list)' = Query(l)
    <2>1. IndexRows' = IndexRows /\ KeyColumnUsage' = KeyColumnUsage
        BY <1>1 DEF IndexRows, KeyColumnUsage
    <2>2. ForeignKeyRows' = ForeignKeyRows
        BY <1>1, <2>1 DEF ForeignKeyRows
    <2>3. QED
        BY <1>1, <2>1, <2>2 DEF Query
<1>4. Fresh'
    BY <1>1, <1>3 DEF Fresh
<1>5. QED
    BY <1>1, <1>2, <1>4 DEF ListingInv

LEMMA FinishStep ==
    ASSUME ListingInv, Finish
    PROVE  ListingInv'
<1> DEFINE own == Own(list)
           all == Query(list)
<1>1. /\ catalog \in Catalogs /\ list # Nil /\ list \in Lists /\ answer = Nil /\ rows = {}
      /\ result' = IF ForAll(list) THEN Recorded ELSE result
      /\ answer' = "ok" /\ UNCHANGED <<catalog, list>>
    BY DEF Finish, ListingInv
<1>2. Nil # "ok"
    BY ListsAssumption
<1>3. ASSUME Promised(list)
      PROVE  result' = IF ForAll(list) THEN Tabled(list, own) ELSE Listed(list, own)
    <2>1. RowsOf(all, own)
        BY <1>1, <1>3, QueryIs, Zenon
    <2> HIDE DEF own, all
    <2>2. CASE Fresh
        <3>1. own = {} /\ result = <<>> /\ info = <<>>
            BY <1>1, <2>1, <2>2, NoRowLeft DEF Fresh, all
        <3>2. result' = <<>>
            BY <1>1, <3>1 DEF Recorded
        <3>3. QED
            BY <3>1, <3>2, NothingListed
    <2>3. ASSUME NEW x \in own, NEW c \in Columns(x), UnderWay(x, c)
          PROVE  result' = IF ForAll(list) THEN Tabled(list, own) ELSE Listed(list, own)
        <3>1. Begun(all, x, c) = {}
            BY <1>1, <2>3 DEF UnderWay, all
        <3>2. own = Ahead(own, x) \cup {x} /\ \A k \in Columns(x) : k <= c
            BY <2>1, <3>1, NoRowLeft, Zenon
        <3>3. Part(list, x, c) = Entry(list, x)
            BY <1>1, <1>3, <3>2, WholeIs, Zenon DEF own
        <3>4. CASE ForAll(list)
            <4>1. Recorded = Tabled(list, Ahead(own, x) \cup {x})
                BY <1>1, <1>3, <2>3, <3>3, <3>4, RecordedIs, Zenon DEF own
            <4>2. QED
                BY <1>1, <3>2, <3>4, <4>1, Zenon
        <3>5. CASE ~ ForAll(list)
            <4>1. result = Append(Listed(list, Ahead(own, x)), Entry(list, x))
                BY <2>3, <3>3, <3>5, Zenon DEF UnderWay, own
            <4>2. ListedGrows(list, Ahead(own, x), x)
                BY <1>1, <1>3, AheadIs, ListedAppend, Zenon DEF own
            <4>3. result = Listed(list, own)
                BY <3>2, <4>1, <4>2, Zenon DEF ListedGrows
            <4>4. QED
                BY <1>1, <3>5, <4>3, Zenon
        <3>6. QED
            BY <3>4, <3>5
    <2>4. Fresh \/ \E x \in own : \E c \in Columns(x) : UnderWay(x, c)
        BY <1>1, <1>3 DEF ListingInv, own
    <2>5. QED
        BY <2>2, <2>3, <2>4
<1>4. answer' # Nil
    BY <1>1, <1>2
<1>5. QED
    BY <1>1, <1>3, <1>4, InvAfter, Zenon

LEMMA FailStep ==
    ASSUME ListingInv, Fail
    PROVE  ListingInv'
<1>1. list # Nil /\ UNCHANGED <<catalog, list>> /\ answer' = "failed"
    BY DEF Fail
<1>2. answer' # Nil /\ answer' # "ok"
    BY <1>1, ListsAssumption
<1>3. QED
    BY <1>1, <1>2, InvAfter, Zenon

LEMMA StutterStep ==
    ASSUME ListingInv, UNCHANGED vars
    PROVE  ListingInv'
<1>1. /\ catalog' = catalog /\ list' = list /\ rows' = rows /\ result' = result
      /\ last' = last /\ info' = info /\ answer' = answer
    BY DEF vars
<1>2. CASE list = Nil
    BY <1>1, <1>2 DEF ListingInv
<1>3. CASE list # Nil
    <2>1. Query(list)' = Query(list) /\ Own(list)' = Own(list) /\ (Promised(list)' <=> Promised(list))
        BY <1>1, Unmoved
    <2>2. (Fresh' <=> Fresh) /\ (Done' <=> Done)
        BY <1>1, <2>1 DEF Fresh, Done, ForAll
    <2>3. \A x, c : UnderWay(x, c)' <=> UnderWay(x, c)
        BY <1>1, <2>1 DEF UnderWay, ForAll
    <2>4. QED
        BY <1>1, <1>3, <2>1, <2>2, <2>3 DEF ListingInv
<1>4. QED
    BY <1>2, <1>3

\* The invariant is one: it holds at the start and every step keeps it.
THEOREM ListingIsKept == Spec => []ListingInv
<1>1. Init => ListingInv
    BY DEF Init, ListingInv
<1>2. ListingInv /\ [Next]_vars => ListingInv'
    <2>1. ASSUME ListingInv, Next
          PROVE  ListingInv'
        <3>1. ASSUME NEW l \in Lists, Start(l)
              PROVE  ListingInv'
            BY <2>1, <3>1, StartStep
        <3>2. ASSUME NEW r \in rows, ScanIndex(r)
              PROVE  ListingInv'
            BY <2>1, <3>2, ScanIndexStep
        <3>3. ASSUME NEW r \in rows, ScanForeignKey(r)
              PROVE  ListingInv'
            BY <2>1, <3>3, ScanForeignKeyStep
        <3>4. ASSUME NEW r \in rows, ScanReferencing(r)
              PROVE  ListingInv'
            BY <2>1, <3>4, ScanReferencingStep
        <3>5. ASSUME NEW r \in rows, ScanIndexAll(r)
              PROVE  ListingInv'
            BY <2>1, <3>5, ScanIndexAllStep
        <3>6. ASSUME NEW r \in rows, ScanForeignKeyAll(r)
              PROVE  ListingInv'
            BY <2>1, <3>6, ScanForeignKeyAllStep
        <3>7. QED
            BY <2>1, <3>1, <3>2, <3>3, <3>4, <3>5, <3>6, FinishStep, FailStep DEF Next
    <2>2. QED
        BY <2>1, StutterStep
<1>3. QED
    BY <1>1, <1>2, PTL DEF Spec

\* What it says of a listing that is over is what the properties say.
LEMMA DescribedIs ==
    ASSUME NEW l, NEW S
    PROVE  /\ ForIndexes(l) => /\ Listed(l, S) = Described(S, IndexEntry)
                               /\ Tabled(l, S) = ByTable(S, IndexEntry)
           /\ ~ ForIndexes(l) /\ ForReferencing(l) => Listed(l, S) = Described(S, ReferencingEntry)
           /\ ~ ForIndexes(l) /\ ~ ForReferencing(l) =>
                 /\ Listed(l, S) = Described(S, ForeignKeyEntry)
                 /\ Tabled(l, S) = ByTable(S, ForeignKeyEntry)
<1>1. \A T : DOMAIN InOrder(T) = 1..Cardinality(T)
    BY DEF InOrder
<1>2. ASSUME ForIndexes(l)
      PROVE  \A T : Listed(l, T) = Described(T, IndexEntry)
    BY <1>1, <1>2 DEF Listed, Described, Entry
<1>3. ASSUME ~ ForIndexes(l), ForReferencing(l)
      PROVE  \A T : Listed(l, T) = Described(T, ReferencingEntry)
    BY <1>1, <1>3 DEF Listed, Described, Entry
<1>4. ASSUME ~ ForIndexes(l), ~ ForReferencing(l)
      PROVE  \A T : Listed(l, T) = Described(T, ForeignKeyEntry)
    BY <1>1, <1>4 DEF Listed, Described, Entry
<1>5. ASSUME ForIndexes(l)
      PROVE  Tabled(l, S) = ByTable(S, IndexEntry)
    BY <1>2, <1>5, Zenon DEF Tabled, ByTable, OfTable
<1>6. ASSUME ~ ForIndexes(l), ~ ForReferencing(l)
      PROVE  Tabled(l, S) = ByTable(S, ForeignKeyEntry)
    BY <1>4, <1>6, Zenon DEF Tabled, ByTable, OfTable
<1>7. QED
    BY <1>2, <1>3, <1>4, <1>5, <1>6

\* IndexListingIsExact: whatever is in the database, scanning the rows of the
\* query one by one, with one row of memory, puts every index together again,
\* whole, once and in order (index.go:19, index.go:48).
THEOREM IndexListingsAreExact == Spec => []IndexListingIsExact
<1>1. ListingInv => IndexListingIsExact
    <2> SUFFICES ASSUME ListingInv, answer = "ok"
                 PROVE  /\ list.op = "ListIndexes" =>
                            LET own == {i \in Showable : i.table = TableParts(list.table)}
                            IN  PlainNames(own) => result = Described(own, IndexEntry)
                        /\ list.op = "ListIndexesAll" =>
                            LET own == {i \in Showable : i.table[1] \notin SystemSchemas}
                            IN  ApartWhenJoined(own) => result = ByTable(own, IndexEntry)
        BY DEF IndexListingIsExact
    <2>1. list # Nil /\ (Promised(list) => Done)
        BY ListsAssumption DEF ListingInv
    <2>2. ASSUME list.op = "ListIndexes", NEW own,
                 own = {i \in Showable : i.table = TableParts(list.table)}, PlainNames(own)
          PROVE  result = Described(own, IndexEntry)
        <3>1. own = Own(list) /\ ForIndexes(list) /\ ~ ForAll(list) /\ ~ ForReferencing(list)
            BY <2>2 DEF Own, ForIndexes, ForAll, ForReferencing
        <3>2. Promised(list)
            BY <2>2, <3>1 DEF Promised
        <3>3. result = Listed(list, own)
            BY <2>1, <3>1, <3>2 DEF Done
        <3>4. Listed(list, own) = Described(own, IndexEntry)
            BY <3>1, DescribedIs, Zenon
        <3>5. QED
            BY <3>3, <3>4, Zenon
    <2>3. ASSUME list.op = "ListIndexesAll", NEW own,
                 own = {i \in Showable : i.table[1] \notin SystemSchemas}, ApartWhenJoined(own)
          PROVE  result = ByTable(own, IndexEntry)
        <3>1. own = Own(list) /\ ForIndexes(list) /\ ForAll(list) /\ ~ ForReferencing(list)
            BY <2>3 DEF Own, ForIndexes, ForAll, ForReferencing
        <3>2. Promised(list)
            BY <2>3, <3>1 DEF Promised
        <3>3. result = Tabled(list, own)
            BY <2>1, <3>1, <3>2 DEF Done
        <3>4. Tabled(list, own) = ByTable(own, IndexEntry)
            BY <3>1, DescribedIs, Zenon
        <3>5. QED
            BY <3>3, <3>4, Zenon
    <2>4. QED
        BY <2>2, <2>3
<1>2. QED
    BY <1>1, ListingIsKept, PTL

\* ForeignKeyListingIsExact: the same of foreign keys, each column opposite the
\* one it references (foreign_key.go:21, foreign_key.go:61, foreign_key.go:103).
THEOREM ForeignKeyListingsAreExact == Spec => []ForeignKeyListingIsExact
<1>1. ListingInv => ForeignKeyListingIsExact
    <2> SUFFICES ASSUME ListingInv, answer = "ok", NamesIdentify
                 PROVE  /\ list.op = "ListForeignKeys" =>
                            LET own == {k \in Resting : k.table = TableParts(list.table)}
                            IN  PlainNames(own) => result = Described(own, ForeignKeyEntry)
                        /\ list.op = "ListReferencingForeignKeys" =>
                            LET own == {k \in Resting : k.ref = TableParts(list.table)}
                            IN  PlainNames(own) /\ ApartWhenDisplayed(own) =>
                                    result = Described(own, ReferencingEntry)
                        /\ list.op = "ListForeignKeysAll" =>
                            (ApartWhenJoined(Resting) => result = ByTable(Resting, ForeignKeyEntry))
        BY DEF ForeignKeyListingIsExact
    <2>1. list # Nil /\ (Promised(list) => Done)
        BY ListsAssumption DEF ListingInv
    <2>2. ASSUME list.op = "ListForeignKeys", NEW own,
                 own = {k \in Resting : k.table = TableParts(list.table)}, PlainNames(own)
          PROVE  result = Described(own, ForeignKeyEntry)
        <3>1. own = Own(list) /\ ~ ForIndexes(list) /\ ~ ForAll(list) /\ ~ ForReferencing(list)
            BY <2>2 DEF Own, ForIndexes, ForAll, ForReferencing
        <3>2. Promised(list)
            BY <2>2, <3>1 DEF Promised
        <3>3. result = Listed(list, own)
            BY <2>1, <3>1, <3>2 DEF Done
        <3>4. Listed(list, own) = Described(own, ForeignKeyEntry)
            BY <3>1, DescribedIs, Zenon
        <3>5. QED
            BY <3>3, <3>4, Zenon
    <2>3. ASSUME list.op = "ListReferencingForeignKeys", NEW own,
                 own = {k \in Resting : k.ref = TableParts(list.table)},
                 PlainNames(own), ApartWhenDisplayed(own)
          PROVE  result = Described(own, ReferencingEntry)
        <3>1. own = Own(list) /\ ~ ForIndexes(list) /\ ~ ForAll(list) /\ ForReferencing(list)
            BY <2>3 DEF Own, ForIndexes, ForAll, ForReferencing
        <3>2. Promised(list)
            BY <2>3, <3>1 DEF Promised
        <3>3. result = Listed(list, own)
            BY <2>1, <3>1, <3>2 DEF Done
        <3>4. Listed(list, own) = Described(own, ReferencingEntry)
            BY <3>1, DescribedIs, Zenon
        <3>5. QED
            BY <3>3, <3>4, Zenon
    <2>4. ASSUME list.op = "ListForeignKeysAll", ApartWhenJoined(Resting)
          PROVE  result = ByTable(Resting, ForeignKeyEntry)
        <3>1. Resting = Own(list) /\ ~ ForIndexes(list) /\ ForAll(list) /\ ~ ForReferencing(list)
            BY <2>4 DEF Own, ForIndexes, ForAll, ForReferencing
        <3>2. Promised(list)
            BY <2>4, <3>1 DEF Promised
        <3>3. result = Tabled(list, Resting)
            BY <2>1, <3>1, <3>2 DEF Done
        <3>4. Tabled(list, Resting) = ByTable(Resting, ForeignKeyEntry)
            BY <3>1, DescribedIs, Zenon
        <3>5. QED
            BY <3>3, <3>4, Zenon
    <2>5. QED
        BY <2>2, <2>3, <2>4
<1>2. QED
    BY <1>1, ListingIsKept, PTL
=============================================================================
