-------------------------- MODULE PagedLists_proofs --------------------------
(***************************************************************************)
(* Proofs about PagedLists, for any number of documents, any page sizes    *)
(* and any bound on the keys.                                              *)
(***************************************************************************)
EXTENDS PagedLists, FiniteSetTheorems, WellFoundedInduction, TLAPS

-----------------------------------------------------------------------------
(* Pages *)

\* A page is the last one if it reaches the total.
LEMMA PageMath ==
  ASSUME NEW page \in Nat \ {0}, NEW limit \in Nat \ {0}, NEW total \in Nat
  PROVE  /\ page >= TotalPages(total, limit) <=> total <= page * limit
         /\ TotalPages(total, limit) \in Nat /\ TotalPages(total, limit) <= total
         /\ page * limit \in Nat
         /\ Skip(page, limit) \in Nat
         /\ Skip(page, limit) + limit = page * limit
         /\ Skip(page + 1, limit) = page * limit
<1>1. PICK n \in Nat : n = TotalPages(total, limit)
  BY DEF TotalPages
<1>2. n * limit <= total + limit - 1 /\ total + limit - 1 < (n + 1) * limit
  BY <1>1 DEF TotalPages
<1>3. (n + 1) * limit = n * limit + limit /\ n * limit \in Nat /\ page * limit \in Nat
  OBVIOUS
<1>4. total <= n * limit
  BY <1>2, <1>3
<1>5. ASSUME page >= n PROVE total <= page * limit
  <2>1. n * limit <= page * limit
    BY <1>5
  <2>2. QED
    BY <1>3, <1>4, <2>1
<1>6. ASSUME page < n PROVE page * limit < total
  <2>1. (page + 1) * limit <= n * limit
    BY <1>6
  <2>2. (page + 1) * limit = page * limit + limit
    OBVIOUS
  <2>3. QED
    BY <1>2, <1>3, <2>1, <2>2
<1>7. n <= total
  <2>1. CASE n = 0
    BY <2>1
  <2>2. CASE n # 0
    <3>1. (n - 1) * limit < total
      <4>1. (n - 1) * limit = n * limit - limit
        OBVIOUS
      <4>2. QED
        BY <1>2, <1>3, <4>1
    <3>2. n - 1 <= (n - 1) * limit
      BY <2>2
    <3>3. (n - 1) * limit \in Nat
      BY <2>2
    <3>4. QED
      BY <3>1, <3>2, <3>3
  <2>3. QED
    BY <2>1, <2>2
<1>8. Skip(page, limit) \in Nat
  BY DEF Skip
<1>9. Skip(page, limit) + limit = page * limit
  BY DEF Skip
<1>10. Skip(page + 1, limit) = page * limit
  BY DEF Skip
<1>11. QED
  BY <1>1, <1>3, <1>5, <1>6, <1>7, <1>8, <1>9, <1>10

-----------------------------------------------------------------------------
(* Places *)

\* The documents before d, under keys f.
Ahead(f, asc, d) == {x \in Docs : f[x] > 0 /\ (IF asc THEN f[x] < f[d] ELSE f[x] > f[d])}
Place(f, asc, d) == Cardinality(Ahead(f, asc, d))

-----------------------------------------------------------------------------
(* The inductive invariant *)

Asking == walk.op \in {"ask", "rows", "total"}
PlaceNow(d) == Place(key, walk.asc, d)
PageEnd == walk.page * walk.limit

\* How the kind of the list decides what a walk may do; before one nothing is recorded.
KindOfWalk ==
  /\ walk.op = "idle" => past.steady = {}
  /\ walk.op # "idle" /\ walk.asc => shape.order = "edited"
  /\ walk.op = "total" => shape.reads \in {"total", "parallel"}
  /\ walk.total <= Cardinality(Docs)

\* A steady document that was not shown yet is not on an earlier page, nor on this one
\* if its rows have been read.
StillToCome ==
  Asking /\ ~ past.pulled /\ ~ past.tied =>
    \A d \in past.steady \ walk.seen :
      /\ Skip(walk.page, walk.limit) <= PlaceNow(d)
      /\ walk.op = "rows" /\ d \notin walk.rows => PageEnd <= PlaceNow(d)

\* A steady document that was shown is on an earlier page, or on this one if its rows
\* have been read.
AlreadyShown ==
  ~ past.pushed /\ ~ past.tied =>
    /\ walk.twice = {}
    /\ Asking => \A d \in past.steady :
         /\ d \in walk.seen => PlaceNow(d) < Skip(walk.page, walk.limit)
         /\ walk.op = "rows" /\ d \in walk.rows => PlaceNow(d) < PageEnd /\ d \notin walk.seen

\* What PagesFitTogether says of a walk that is done.
AllShown ==
  walk.op = "done" =>
    \A d \in past.steady \ walk.seen :
      past.pulled \/ past.tied \/ (past.short /\ shape.reads \in {"total", "parallel"})

PagInv == PagTypeOK /\ KindOfWalk /\ StillToCome /\ AlreadyShown /\ AllShown

-----------------------------------------------------------------------------
(* Facts about places *)

\* Places are numbers less than the size of the list, and ordered as the sets of the
\* documents before.
LEMMA PlaceBounds ==
  ASSUME NEW f, NEW asc \in BOOLEAN, NEW d
  PROVE  /\ IsFiniteSet(Ahead(f, asc, d)) /\ Place(f, asc, d) \in Nat
         /\ \A g : Ahead(f, asc, d) \subseteq Ahead(g, asc, d) => Place(f, asc, d) <= Place(g, asc, d)
<1>1. \A g : IsFiniteSet(Ahead(g, asc, d))
  BY PagedConstants, FS_Subset DEF Ahead
<1>2. QED
  BY <1>1, FS_CardinalityType, FS_Subset DEF Place

\* The documents in the list.
LEMMA ListIsFinite ==
  /\ IsFiniteSet(InList) /\ Cardinality(InList) \in Nat
  /\ Cardinality(InList) <= Cardinality(Docs) /\ Cardinality(Docs) \in Nat
BY PagedConstants, FS_Subset, FS_CardinalityType DEF InList

\* Somebody in the list has a place in it.
LEMMA PlaceInList ==
  ASSUME key \in [Docs -> 0 .. MaxKey], NEW asc \in BOOLEAN, NEW d \in InList
  PROVE  Place(key, asc, d) < Cardinality(InList)
<1>1. Ahead(key, asc, d) \subseteq InList /\ d \notin Ahead(key, asc, d)
  <2>1. key[d] \in Nat
    BY PagedConstants DEF InList
  <2>2. QED
    BY <2>1 DEF Ahead, InList
<1>2. Cardinality(Ahead(key, asc, d)) <= Cardinality(InList)
      /\ (Cardinality(InList) = Cardinality(Ahead(key, asc, d)) => InList = Ahead(key, asc, d))
  BY <1>1, ListIsFinite, FS_Subset
<1>3. Cardinality(Ahead(key, asc, d)) \in Nat
  BY PlaceBounds DEF Place
<1>4. QED
  BY <1>1, <1>2, <1>3, ListIsFinite DEF Place

\* Without equal keys, the rows come in the order of their places.
LEMMA OrderIsPlace ==
  ASSUME key \in [Docs -> 0 .. MaxKey], walk.asc \in BOOLEAN, ~ Tied, NEW o \in Orders
  PROVE  /\ DOMAIN o = 1 .. Cardinality(InList)
         /\ \A i \in DOMAIN o : o[i] \in InList /\ Place(key, walk.asc, o[i]) = i - 1
         /\ \A d \in InList : \E i \in DOMAIN o : o[i] = d
<1>1. PICK n \in Nat : n = Cardinality(InList)
  BY ListIsFinite
<1>2. /\ o \in [1 .. n -> InList] /\ DOMAIN o = 1 .. n
      /\ \A i, j \in 1 .. n : i < j => o[i] # o[j] /\ ~ Before(o[j], o[i])
  BY <1>1 DEF Orders
<1>3. \A i, j \in 1 .. n : i # j => o[i] # o[j]
  BY <1>2
<1>4. IsFiniteSet(1 .. n) /\ Cardinality(1 .. n) = n
  BY FS_Interval
<1>5. o \in Injection(1 .. n, InList)
  BY <1>2, <1>3 DEF Injection, IsInjective
<1>6. o \in Surjection(1 .. n, InList)
  BY <1>1, <1>4, <1>5, ListIsFinite, FS_Injection
<1>7. \A d \in InList : \E i \in 1 .. n : o[i] = d
  BY <1>6 DEF Surjection
<1>8. ASSUME NEW i \in 1 .. n PROVE Place(key, walk.asc, o[i]) = i - 1
  <2>1. \A j \in 1 .. n : o[j] \in InList /\ o[j] \in Docs /\ key[o[j]] \in Nat
    BY <1>2, PagedConstants DEF InList
  <2>2. ASSUME NEW j \in 1 .. n, j < i PROVE o[j] \in Ahead(key, walk.asc, o[i])
    <3>1. o[j] # o[i] /\ ~ Before(o[i], o[j])
      BY <1>2, <2>2
    <3>2. key[o[j]] # key[o[i]]
      BY <2>1, <3>1 DEF Tied
    <3>3. QED
      BY <2>1, <3>1, <3>2 DEF Ahead, Before, InList
  <2>3. ASSUME NEW j \in 1 .. n, ~ (j < i) PROVE o[j] \notin Ahead(key, walk.asc, o[i])
    <3>1. CASE j = i
      BY <2>1, <3>1 DEF Ahead
    <3>2. CASE i < j
      BY <1>2, <2>1, <3>2 DEF Ahead, Before
    <3>3. QED
      BY <2>3, <3>1, <3>2
  <2>4. \A x \in Ahead(key, walk.asc, o[i]) : \E j \in 1 .. (i - 1) : o[j] = x
    <3>1. ASSUME NEW x \in Ahead(key, walk.asc, o[i]) PROVE \E j \in 1 .. (i - 1) : o[j] = x
      <4>1. x \in InList
        BY DEF Ahead, InList
      <4>2. PICK j \in 1 .. n : o[j] = x
        BY <1>7, <4>1
      <4>3. QED
        BY <2>3, <4>2
    <3>2. QED
      BY <3>1
  <2>5. PICK q : q = [j \in 1 .. (i - 1) |-> o[j]]
    OBVIOUS
  <2>6. q \in [1 .. (i - 1) -> Ahead(key, walk.asc, o[i])]
    BY <2>2, <2>5
  <2>7. q \in Bijection(1 .. (i - 1), Ahead(key, walk.asc, o[i]))
    <3>1. \A j, k \in 1 .. (i - 1) : q[j] = q[k] => j = k
      BY <1>3, <2>5
    <3>2. \A x \in Ahead(key, walk.asc, o[i]) : \E j \in 1 .. (i - 1) : q[j] = x
      BY <2>4, <2>5
    <3>3. QED
      BY <2>6, <3>1, <3>2 DEF Bijection, Injection, IsInjective, Surjection
  <2>8. IsFiniteSet(1 .. (i - 1)) /\ Cardinality(1 .. (i - 1)) = i - 1
    BY FS_Interval
  <2>9. Cardinality(Ahead(key, walk.asc, o[i])) = Cardinality(1 .. (i - 1))
    BY <2>7, <2>8, FS_Bijection DEF ExistsBijection
  <2>10. QED
    BY <2>8, <2>9 DEF Place
<1>9. QED
  BY <1>1, <1>2, <1>7, <1>8

\* The rows of a page are the documents whose places it covers.
LEMMA RowsArePlaces ==
  ASSUME key \in [Docs -> 0 .. MaxKey], walk.asc \in BOOLEAN,
         walk.page \in Nat \ {0}, walk.limit \in Nat \ {0}, NEW o \in Orders
  PROVE  /\ RowsOf(o) \subseteq InList
         /\ ~ Tied => \A d \in InList :
              d \in RowsOf(o) <=> Skip(walk.page, walk.limit) <= PlaceNow(d) /\ PlaceNow(d) < PageEnd
<1>1. PICK a \in Nat, b \in Nat : a = Skip(walk.page, walk.limit) /\ b = PageEnd /\ a + walk.limit = b
  <2>1. /\ Skip(walk.page, walk.limit) \in Nat /\ walk.page * walk.limit \in Nat
        /\ Skip(walk.page, walk.limit) + walk.limit = walk.page * walk.limit
    BY PageMath, 0 \in Nat
  <2>2. QED
    BY <2>1 DEF PageEnd
<1>2. RowsOf(o) = {o[i] : i \in {j \in DOMAIN o : a < j /\ j <= b}}
  BY <1>1 DEF RowsOf
<1>3. RowsOf(o) \subseteq InList
  BY <1>2 DEF Orders
<1>4. ASSUME ~ Tied, NEW d \in InList
      PROVE  d \in RowsOf(o) <=> a <= PlaceNow(d) /\ PlaceNow(d) < b
  <2>1. /\ DOMAIN o = 1 .. Cardinality(InList)
        /\ \A i \in DOMAIN o : Place(key, walk.asc, o[i]) = i - 1
        /\ \E i \in DOMAIN o : o[i] = d
    BY <1>4, OrderIsPlace
  <2>2. PICK i \in DOMAIN o : o[i] = d
    BY <2>1
  <2>3. PlaceNow(d) = i - 1 /\ i \in Nat
    BY <2>1, <2>2, ListIsFinite DEF PlaceNow
  <2>4. \A j \in DOMAIN o : o[j] = d => j = i
    BY <2>1, <2>2, <2>3, ListIsFinite DEF PlaceNow
  <2>5. d \in RowsOf(o) <=> a < i /\ i <= b
    BY <1>2, <2>2, <2>4
  <2>6. QED
    BY <2>3, <2>5
<1>5. QED
  BY <1>1, <1>3, <1>4

\* Newest is the greatest key.
LEMMA NewestIsGreatest ==
  ASSUME key \in [Docs -> 0 .. MaxKey], NEW x \in InList
  PROVE  key[x] <= Newest /\ Newest \in Nat
<1> DEFINE K == {key[d] : d \in InList}
           T == {n \in Nat : \A k \in K : k <= n}
<1>1. K \subseteq 0 .. MaxKey /\ MaxKey \in Nat /\ key[x] \in K
  BY PagedConstants DEF InList
<1>2. MaxKey \in T /\ T \subseteq Nat
  BY <1>1
<1>3. PICK n \in T : \A m \in T : ~ (<<m, n>> \in OpToRel(<, Nat))
  BY <1>2, WFMin, NatLessThanWellFounded, Zenon
<1>4. \A m \in T : ~ (m < n)
  BY <1>2, <1>3 DEF OpToRel
<1>5. n \in K
  <2>1. SUFFICES ASSUME n \notin K PROVE FALSE
    OBVIOUS
  <2>2. n \in Nat /\ \A k \in K : k \in Nat /\ k <= n /\ k # n
    BY <1>1, <2>1
  <2>3. n # 0
    BY <1>1, <2>2
  <2>4. n - 1 \in T
    BY <2>2, <2>3
  <2>5. QED
    BY <1>4, <2>2, <2>4
<1>6. \A d \in InList : key[d] <= n
  OBVIOUS
<1>7. InList # {} /\ \E k \in K : \A d \in InList : key[d] <= k
  BY <1>5, <1>6
<1>8. Newest \in K /\ \A d \in InList : key[d] <= Newest
  BY <1>7 DEF Newest
<1>9. QED
  BY <1>1, <1>8

\* Another document gets key k: a place falls only if one before it left, and rises only
\* if one came before it.
LEMMA PlaceMoves ==
  ASSUME key \in [Docs -> 0 .. MaxKey], NEW asc \in BOOLEAN,
         NEW d \in Docs, NEW k \in 0 .. MaxKey, NEW x \in InList, x # d,
         key' = [key EXCEPT ![d] = k]
  PROVE  LET before(v) == IF asc THEN v < key[x] ELSE v > key[x]
         IN  /\ (d \in InList /\ before(key[d]) => k > 0 /\ before(k)) =>
                  Place(key, asc, x) <= Place(key', asc, x)
             /\ ~ (k > 0 /\ before(k)) => Place(key', asc, x) <= Place(key, asc, x)
<1> DEFINE before(v) == IF asc THEN v < key[x] ELSE v > key[x]
<1>1. key'[d] = k /\ (\A y \in Docs \ {d} : key'[y] = key[y]) /\ x \in Docs
  BY DEF InList
<1>2. key'[x] = key[x]
  BY <1>1
<1>3. \A y \in Docs \ {d} : y \in Ahead(key, asc, x) <=> y \in Ahead(key', asc, x)
  BY <1>1, <1>2 DEF Ahead
<1>4. d \in Ahead(key, asc, x) <=> d \in InList /\ before(key[d])
  BY DEF Ahead, InList
<1>5. d \in Ahead(key', asc, x) <=> k > 0 /\ before(k)
  BY <1>1, <1>2 DEF Ahead
<1>6. /\ \A y \in Ahead(key, asc, x) : y \in Docs
      /\ \A y \in Ahead(key', asc, x) : y \in Docs
  BY DEF Ahead
<1>7. ASSUME d \in InList /\ before(key[d]) => k > 0 /\ before(k)
      PROVE  Place(key, asc, x) <= Place(key', asc, x)
  <2>1. Ahead(key, asc, x) \subseteq Ahead(key', asc, x)
    BY <1>3, <1>4, <1>5, <1>6, <1>7
  <2>2. QED
    BY <2>1, PlaceBounds
<1>8. ASSUME ~ (k > 0 /\ before(k)) PROVE Place(key', asc, x) <= Place(key, asc, x)
  <2>1. Ahead(key', asc, x) \subseteq Ahead(key, asc, x)
    BY <1>3, <1>4, <1>5, <1>6, <1>8
  <2>2. QED
    BY <2>1, PlaceBounds
<1>9. QED
  BY <1>7, <1>8

-----------------------------------------------------------------------------
(* The documents *)

\* What SetKey records of another document.
LEMMA MovesAreSeen ==
  ASSUME PagInv, walk.op # "idle", NEW d \in Docs, NEW k \in 0 .. MaxKey, SetKey(d, k),
         shape.order = "touched" /\ k > 0 => k = Newest + 1, NEW x \in InList, x # d
  PROVE  /\ past.pulled => past'.pulled
         /\ past.pushed => past'.pushed
         /\ ~ past'.pulled => Place(key, walk.asc, x) <= Place(key', walk.asc, x)
         /\ ~ past'.pushed => Place(key', walk.asc, x) <= Place(key, walk.asc, x)
<1>1. /\ key \in [Docs -> 0 .. MaxKey] /\ walk \in Walk /\ past \in Past /\ MaxKey \in Nat
      /\ key' = [key EXCEPT ![d] = k] /\ walk.asc \in BOOLEAN
      /\ walk.asc => shape.order = "edited"
  BY PagedConstants DEF PagInv, PagTypeOK, KindOfWalk, SetKey, Walk
<1> DEFINE before(v) == \E e \in InList \ {d} : IF walk.asc THEN v < key[e] ELSE v > key[e]
           beforeX(v) == IF walk.asc THEN v < key[x] ELSE v > key[x]
<1>2. PICK p \in BOOLEAN : p <=> d \in InList /\ before(key[d]) /\ ~ (shape.order = "touched" /\ k > 0)
  OBVIOUS
<1>3. PICK q \in BOOLEAN : q <=> k > 0 /\ before(k)
  OBVIOUS
<1>4. past' = [past EXCEPT !.steady = past.steady \ {d}, !.pulled = past.pulled \/ p,
                           !.pushed = past.pushed \/ q]
  <2>1. past' = [past EXCEPT !.steady = @ \ {d},
                             !.pulled = @ \/ (d \in InList /\ before(key[d])
                                              /\ ~ (shape.order = "touched" /\ k > 0)),
                             !.pushed = @ \/ (k > 0 /\ before(k))]
    BY DEF SetKey
  <2>2. (past.pulled \/ (d \in InList /\ before(key[d]) /\ ~ (shape.order = "touched" /\ k > 0)))
          = (past.pulled \/ p)
    BY <1>2
  <2>3. (past.pushed \/ (k > 0 /\ before(k))) = (past.pushed \/ q)
    BY <1>3
  <2>4. QED
    BY <2>1, <2>2, <2>3
<1>5. past'.pulled = (past.pulled \/ p) /\ past'.pushed = (past.pushed \/ q)
  BY <1>1, <1>4 DEF Past
<1>6. \A v : beforeX(v) => before(v)
  OBVIOUS
<1>7. ASSUME ~ p, d \in InList, beforeX(key[d]) PROVE k > 0 /\ beforeX(k)
  <2>1. shape.order = "touched" /\ k > 0
    BY <1>2, <1>6, <1>7
  <2>2. k = Newest + 1 /\ ~ walk.asc
    BY <1>1, <2>1
  <2>3. key[x] <= Newest /\ key[x] \in Nat /\ k \in Nat
    BY <1>1, NewestIsGreatest DEF InList
  <2>4. QED
    BY <1>1, <2>1, <2>2, <2>3, NewestIsGreatest
<1>8. /\ (d \in InList /\ beforeX(key[d]) => k > 0 /\ beforeX(k)) =>
           Place(key, walk.asc, x) <= Place(key', walk.asc, x)
      /\ ~ (k > 0 /\ beforeX(k)) => Place(key', walk.asc, x) <= Place(key, walk.asc, x)
  BY <1>1, PlaceMoves
<1>9. QED
  BY <1>3, <1>5, <1>6, <1>7, <1>8

\* A client asks for pages from 1, of at least one row.
LEMMA PageIsReal ==
  ASSUME PagTypeOK, Asking
  PROVE  /\ walk.page \in Nat \ {0} /\ walk.limit \in Nat \ {0} /\ walk.limit \in Limits
         /\ walk.page = 1 \/ walk.page <= Cardinality(Docs)
<1>1. walk.op # "idle"
  BY DEF Asking
<1>2. walk.page \in {1} \cup 1 .. Cardinality(Docs) /\ walk.limit \in Limits
  BY <1>1 DEF PagTypeOK
<1>3. Cardinality(Docs) \in Nat
  BY ListIsFinite
<1>4. walk.page \in Nat \ {0} /\ (walk.page = 1 \/ walk.page <= Cardinality(Docs))
  BY <1>2, <1>3
<1>5. QED
  BY <1>2, <1>4, PagedConstants

\* The type invariant when a document changes its key.
LEMMA SetKeyTyped ==
  ASSUME PagInv, NEW d \in Docs, NEW k \in 0 .. MaxKey, SetKey(d, k)
  PROVE  /\ PagTypeOK' /\ KindOfWalk'
         /\ walk'.op = walk.op /\ walk'.page = walk.page /\ walk'.limit = walk.limit
         /\ walk'.asc = walk.asc /\ walk'.rows = walk.rows
         /\ walk'.seen = walk.seen \ {d} /\ walk'.twice = walk.twice \ {d}
         /\ past'.tied = past.tied /\ past'.short = past.short
         /\ past'.steady = past.steady \ {d}
         /\ walk.op = "idle" => past' = past
         /\ \A x \in InList \ {d} : x \in InList'
<1>1. /\ key \in [Docs -> 0 .. MaxKey] /\ walk \in Walk /\ past \in Past
      /\ key' = [key EXCEPT ![d] = k] /\ shape' = shape
      /\ walk' = [walk EXCEPT !.seen = @ \ {d}, !.twice = @ \ {d}]
      /\ shape \in Lists /\ past.steady \subseteq InList
      /\ walk.twice \subseteq walk.seen /\ walk.seen \subseteq past.steady
      /\ walk.op # "idle" => walk.page \in {1} \cup 1 .. Cardinality(Docs) /\ walk.limit \in Limits
      /\ KindOfWalk
  BY DEF PagInv, PagTypeOK, SetKey
<1>2. /\ walk' \in Walk
      /\ walk'.op = walk.op /\ walk'.page = walk.page /\ walk'.limit = walk.limit
      /\ walk'.asc = walk.asc /\ walk'.rows = walk.rows /\ walk'.total = walk.total
      /\ walk'.seen = walk.seen \ {d} /\ walk'.twice = walk.twice \ {d}
  BY <1>1 DEF Walk
<1>3. /\ past' \in Past
      /\ past'.tied = past.tied /\ past'.short = past.short
      /\ past'.steady = past.steady \ {d}
      /\ walk.op = "idle" => past' = past
  <2>1. CASE walk.op = "idle"
    <3>1. past' = past
      BY <2>1 DEF SetKey
    <3>2. past.steady = past.steady \ {d}
      BY <1>1, <2>1 DEF KindOfWalk
    <3>3. QED
      BY <1>1, <3>1, <3>2
  <2>2. CASE walk.op # "idle"
    <3>1. \E p, q \in BOOLEAN :
            past' = [past EXCEPT !.steady = past.steady \ {d}, !.pulled = past.pulled \/ p,
                                 !.pushed = past.pushed \/ q]
      <4> DEFINE before(v) == \E e \in InList \ {d} : IF walk.asc THEN v < key[e] ELSE v > key[e]
      <4>1. PICK p \in BOOLEAN : p <=> d \in InList /\ before(key[d])
                                       /\ ~ (shape.order = "touched" /\ k > 0)
        OBVIOUS
      <4>2. PICK q \in BOOLEAN : q <=> k > 0 /\ before(k)
        OBVIOUS
      <4>3. past' = [past EXCEPT !.steady = @ \ {d},
                                 !.pulled = @ \/ (d \in InList /\ before(key[d])
                                                  /\ ~ (shape.order = "touched" /\ k > 0)),
                                 !.pushed = @ \/ (k > 0 /\ before(k))]
        BY <2>2 DEF SetKey
      <4>4. (past.pulled \/ (d \in InList /\ before(key[d]) /\ ~ (shape.order = "touched" /\ k > 0)))
              = (past.pulled \/ p)
        BY <4>1
      <4>5. (past.pushed \/ (k > 0 /\ before(k))) = (past.pushed \/ q)
        BY <4>2
      <4>6. past' = [past EXCEPT !.steady = past.steady \ {d}, !.pulled = past.pulled \/ p,
                                 !.pushed = past.pushed \/ q]
        BY <4>3, <4>4, <4>5
      <4>7. QED
        BY <4>6
    <3>2. QED
      BY <1>1, <2>2, <3>1 DEF Past
  <2>3. QED
    BY <2>1, <2>2
<1>4. key' \in [Docs -> 0 .. MaxKey] /\ \A x \in InList \ {d} : x \in InList'
  BY <1>1 DEF InList
<1>5. past'.steady \subseteq InList'
  BY <1>1, <1>3, <1>4
<1>6. PagTypeOK'
  BY <1>1, <1>2, <1>3, <1>4, <1>5 DEF PagTypeOK
<1>7. KindOfWalk'
  BY <1>1, <1>2, <1>3 DEF KindOfWalk
<1>8. QED
  BY <1>2, <1>3, <1>4, <1>6, <1>7

\* A document that changes its key hides no other, and shows none again, without a trace.
LEMMA SetKeyKeeps ==
  ASSUME PagInv, NEW d \in Docs, NEW k \in 0 .. MaxKey, SetKey(d, k),
         shape.order = "touched" /\ k > 0 => k = Newest + 1
  PROVE  PagInv'
<1>1. /\ PagTypeOK' /\ KindOfWalk'
      /\ walk'.op = walk.op /\ walk'.page = walk.page /\ walk'.limit = walk.limit
      /\ walk'.asc = walk.asc /\ walk'.rows = walk.rows
      /\ walk'.seen = walk.seen \ {d} /\ walk'.twice = walk.twice \ {d}
      /\ past'.tied = past.tied /\ past'.short = past.short
      /\ past'.steady = past.steady \ {d}
      /\ walk.op = "idle" => past' = past
      /\ shape' = shape
  BY SetKeyTyped DEF SetKey
<1>2. ASSUME NEW x \in InList \ {d}, walk.op # "idle"
      PROVE  /\ past.pulled => past'.pulled
             /\ past.pushed => past'.pushed
             /\ ~ past'.pulled => Place(key, walk.asc, x) <= Place(key', walk.asc, x)
             /\ ~ past'.pushed => Place(key', walk.asc, x) <= Place(key, walk.asc, x)
             /\ Place(key, walk.asc, x) \in Nat /\ Place(key', walk.asc, x) \in Nat
  <2>1. walk.asc \in BOOLEAN
    BY DEF PagInv, PagTypeOK, Walk
  <2>2. QED
    BY <1>2, <2>1, MovesAreSeen, PlaceBounds
<1>3. past.steady \subseteq InList /\ walk.seen \subseteq past.steady
      /\ walk.twice \subseteq walk.seen
  BY DEF PagInv, PagTypeOK
<1>4. \A x \in past'.steady : x \in past.steady /\ x \in InList \ {d} /\ x # d
  BY <1>1, <1>3
<1>5. Asking => /\ Skip(walk.page, walk.limit) \in Nat /\ walk.page * walk.limit \in Nat
  BY PageIsReal, PageMath, 0 \in Nat DEF PagInv
<1>6. StillToCome'
  <2>1. SUFFICES ASSUME Asking, ~ past'.pulled, ~ past'.tied, NEW x \in past'.steady, x \notin walk'.seen
                 PROVE  /\ Skip(walk.page, walk.limit) <= Place(key', walk.asc, x)
                        /\ walk.op = "rows" /\ x \notin walk.rows =>
                             walk.page * walk.limit <= Place(key', walk.asc, x)
    BY <1>1 DEF StillToCome, Asking, PlaceNow, PageEnd
  <2>2. x \in past.steady /\ x \in InList \ {d} /\ x \notin walk.seen /\ walk.op # "idle"
    BY <1>1, <1>4, <2>1 DEF Asking
  <2>3. /\ Place(key, walk.asc, x) <= Place(key', walk.asc, x) /\ ~ past.pulled
        /\ Place(key, walk.asc, x) \in Nat /\ Place(key', walk.asc, x) \in Nat
    BY <1>2, <2>1, <2>2
  <2>4. /\ Skip(walk.page, walk.limit) <= Place(key, walk.asc, x)
        /\ walk.op = "rows" /\ x \notin walk.rows => walk.page * walk.limit <= Place(key, walk.asc, x)
    BY <1>1, <2>1, <2>2, <2>3 DEF PagInv, StillToCome, PlaceNow, PageEnd
  <2>5. QED
    BY <1>5, <2>1, <2>3, <2>4
<1>7. AlreadyShown'
  <2>1. ASSUME ~ past'.pushed, ~ past'.tied PROVE walk'.twice = {}
    <3>1. CASE walk.op = "idle"
      BY <1>1, <2>1, <3>1 DEF PagInv, AlreadyShown
    <3>2. CASE walk.op # "idle"
      <4>1. SUFFICES ASSUME NEW x \in walk'.twice PROVE FALSE
        OBVIOUS
      <4>2. x \in InList \ {d} /\ x \in walk.twice
        BY <1>1, <1>3, <4>1
      <4>3. ~ past.pushed
        BY <1>2, <2>1, <3>2, <4>2
      <4>4. QED
        BY <1>1, <2>1, <4>2, <4>3 DEF PagInv, AlreadyShown
    <3>3. QED
      BY <3>1, <3>2
  <2>2. ASSUME ~ past'.pushed, ~ past'.tied, Asking, NEW x \in past'.steady
        PROVE  /\ x \in walk'.seen => Place(key', walk.asc, x) < Skip(walk.page, walk.limit)
               /\ walk.op = "rows" /\ x \in walk.rows =>
                    Place(key', walk.asc, x) < walk.page * walk.limit /\ x \notin walk'.seen
    <3>1. x \in past.steady /\ x \in InList \ {d} /\ walk.op # "idle"
          /\ (x \in walk'.seen <=> x \in walk.seen)
      BY <1>1, <1>4, <2>2 DEF Asking
    <3>2. /\ Place(key', walk.asc, x) <= Place(key, walk.asc, x) /\ ~ past.pushed
          /\ Place(key, walk.asc, x) \in Nat /\ Place(key', walk.asc, x) \in Nat
      BY <1>2, <2>2, <3>1
    <3>3. /\ x \in walk.seen => Place(key, walk.asc, x) < Skip(walk.page, walk.limit)
          /\ walk.op = "rows" /\ x \in walk.rows =>
               Place(key, walk.asc, x) < walk.page * walk.limit /\ x \notin walk.seen
      BY <1>1, <2>2, <3>1, <3>2 DEF PagInv, AlreadyShown, PlaceNow, PageEnd
    <3>4. QED
      BY <1>5, <2>2, <3>1, <3>2, <3>3
  <2>3. QED
    BY <1>1, <2>1, <2>2 DEF AlreadyShown, Asking, PlaceNow, PageEnd
<1>8. AllShown'
  <2>1. SUFFICES ASSUME walk.op = "done", NEW x \in past'.steady, x \notin walk'.seen
                 PROVE  \/ past'.pulled \/ past'.tied
                        \/ past'.short /\ shape.reads \in {"total", "parallel"}
    BY <1>1 DEF AllShown
  <2>2. x \in past.steady /\ x \in InList \ {d} /\ x \notin walk.seen
    BY <1>1, <1>4, <2>1
  <2>3. past.pulled => past'.pulled
    BY <1>2, <2>1, <2>2
  <2>4. QED
    BY <1>1, <2>1, <2>2, <2>3 DEF PagInv, AllShown
<1>9. QED
  BY <1>1, <1>6, <1>7, <1>8 DEF PagInv

-----------------------------------------------------------------------------
(* The walk *)

\* Before the first page nothing was shown, and everything is still to come.
LEMMA AskKeeps ==
  ASSUME PagInv, NEW limit \in Limits, NEW asc \in BOOLEAN, Ask(limit, asc)
  PROVE  PagInv'
<1>1. PICK w : w = [NoWalk EXCEPT !.op = "ask", !.page = 1, !.limit = limit, !.asc = asc]
  OBVIOUS
<1>2. /\ w \in Walk /\ w.op = "ask" /\ w.page = 1 /\ w.limit = limit /\ w.asc = asc
      /\ w.seen = {} /\ w.twice = {} /\ w.total = 0
  BY <1>1 DEF NoWalk, Walk, WalkOps
<1>3. PICK p : p = [NoPast EXCEPT !.steady = InList]
  OBVIOUS
<1>4. p \in Past /\ p.steady = InList /\ ~ p.pulled /\ ~ p.tied /\ ~ p.pushed
  BY <1>3 DEF NoPast, Past, InList
<1>5. walk' = w /\ past' = p /\ shape' = shape /\ key' = key /\ (asc => shape.order = "edited")
  BY <1>1, <1>3 DEF Ask
<1>6. PagTypeOK' /\ KindOfWalk'
  BY <1>2, <1>4, <1>5, ListIsFinite DEF PagInv, PagTypeOK, KindOfWalk, InList
<1>7. Skip(1, limit) = 0 /\ limit \in Nat
  BY PagedConstants DEF Skip
<1>8. \A d : Place(key, asc, d) \in Nat
  BY PlaceBounds
<1>9. StillToCome'
  BY <1>2, <1>4, <1>5, <1>7, <1>8 DEF StillToCome, PlaceNow
<1>10. AlreadyShown' /\ AllShown'
  BY <1>2, <1>4, <1>5 DEF AlreadyShown, AllShown
<1>11. QED
  BY <1>6, <1>9, <1>10 DEF PagInv

\* What the rows of a page are, while a page is asked for: no document that was shown, and
\* every document that was not shown and whose place is on it.
LEMMA RowsInPlace ==
  ASSUME PagInv, Asking, walk.op # "rows", NEW o \in Orders
  PROVE  /\ RowsOf(o) \subseteq Docs
         /\ ~ past.pulled /\ ~ past.tied /\ ~ Tied =>
              \A d \in past.steady \ walk.seen : d \notin RowsOf(o) => PageEnd <= PlaceNow(d)
         /\ ~ past.pushed /\ ~ past.tied /\ ~ Tied =>
              \A d \in past.steady : d \in RowsOf(o) => PlaceNow(d) < PageEnd /\ d \notin walk.seen
<1>1. /\ key \in [Docs -> 0 .. MaxKey] /\ walk.asc \in BOOLEAN /\ past.steady \subseteq InList
      /\ walk.page \in Nat \ {0} /\ walk.limit \in Nat \ {0}
  BY PageIsReal DEF PagInv, PagTypeOK, Walk
<1>2. /\ RowsOf(o) \subseteq InList
      /\ ~ Tied => \A d \in InList :
           d \in RowsOf(o) <=> Skip(walk.page, walk.limit) <= PlaceNow(d) /\ PlaceNow(d) < PageEnd
  BY <1>1, RowsArePlaces
<1>3. Skip(walk.page, walk.limit) \in Nat /\ PageEnd \in Nat /\ \A d : PlaceNow(d) \in Nat
  BY <1>1, PageMath, PlaceBounds, 0 \in Nat DEF PlaceNow, PageEnd
<1>4. ASSUME ~ past.pulled, ~ past.tied, ~ Tied, NEW d \in past.steady \ walk.seen, d \notin RowsOf(o)
      PROVE  PageEnd <= PlaceNow(d)
  BY <1>1, <1>2, <1>3, <1>4 DEF PagInv, StillToCome
<1>5. ASSUME ~ past.pushed, ~ past.tied, ~ Tied, NEW d \in past.steady, d \in RowsOf(o)
      PROVE  PlaceNow(d) < PageEnd /\ d \notin walk.seen
  BY <1>1, <1>2, <1>3, <1>5 DEF PagInv, AlreadyShown
<1>6. InList \subseteq Docs
  BY DEF InList
<1>7. QED
  BY <1>2, <1>4, <1>5, <1>6

\* The rows are read first.
LEMMA RowsKeep == ASSUME PagInv, ReadRows PROVE PagInv'
<1>1. PICK o \in Orders : walk' = [walk EXCEPT !.op = "rows", !.rows = RowsOf(o),
                                              !.size = Cardinality(InList)]
  BY DEF ReadRows
<1>2. Asking /\ walk.op # "rows" /\ walk \in Walk /\ past \in Past /\ walk.op = "ask"
      /\ shape' = shape /\ key' = key
  BY DEF ReadRows, Asking, PagInv, PagTypeOK
<1>3. PICK rows : rows = RowsOf(o)
  OBVIOUS
<1>4. /\ rows \subseteq Docs
      /\ ~ past.pulled /\ ~ past.tied /\ ~ Tied =>
           \A d \in past.steady \ walk.seen : d \notin rows => PageEnd <= PlaceNow(d)
      /\ ~ past.pushed /\ ~ past.tied /\ ~ Tied =>
           \A d \in past.steady : d \in rows => PlaceNow(d) < PageEnd /\ d \notin walk.seen
  BY <1>2, <1>3, RowsInPlace
<1>5. /\ walk' \in Walk /\ walk'.op = "rows" /\ walk'.rows = rows
      /\ walk'.page = walk.page /\ walk'.limit = walk.limit /\ walk'.asc = walk.asc
      /\ walk'.seen = walk.seen /\ walk'.twice = walk.twice /\ walk'.total = walk.total
  BY <1>1, <1>2, <1>3, <1>4, ListIsFinite DEF Walk, WalkOps
<1>6. PICK b \in BOOLEAN : b <=> Tied
  OBVIOUS
<1>7. past' = [past EXCEPT !.tied = past.tied \/ b]
  <2>1. (past.tied \/ Tied) = (past.tied \/ b)
    BY <1>6
  <2>2. past' = [past EXCEPT !.tied = past.tied \/ Tied]
    BY DEF ReadRows
  <2>3. QED
    BY <2>1, <2>2
<1>8. /\ past' \in Past /\ past'.steady = past.steady /\ past'.pulled = past.pulled
      /\ past'.pushed = past.pushed /\ past'.short = past.short
      /\ past'.tied = (past.tied \/ b)
  BY <1>2, <1>7 DEF Past
<1>9. PagTypeOK' /\ KindOfWalk'
  BY <1>2, <1>5, <1>8 DEF PagInv, PagTypeOK, KindOfWalk, InList
<1>10. StillToCome'
  BY <1>2, <1>4, <1>5, <1>6, <1>8 DEF PagInv, StillToCome, Asking, PlaceNow, PageEnd
<1>11. AlreadyShown'
  BY <1>2, <1>4, <1>5, <1>6, <1>8 DEF PagInv, AlreadyShown, Asking, PlaceNow, PageEnd
<1>12. AllShown'
  BY <1>5 DEF AllShown
<1>13. QED
  BY <1>9, <1>10, <1>11, <1>12 DEF PagInv

\* The total is counted first.
LEMMA CountKeeps == ASSUME PagInv, Count PROVE PagInv'
<1>1. /\ walk \in Walk /\ walk.op = "ask" /\ shape' = shape /\ key' = key /\ past' = past
      /\ walk' = [walk EXCEPT !.op = "total", !.total = Cardinality(InList)]
      /\ shape.reads \in {"total", "parallel"}
  BY DEF Count, PagInv, PagTypeOK
<1>2. /\ walk' \in Walk /\ walk'.op = "total"
      /\ walk'.page = walk.page /\ walk'.limit = walk.limit /\ walk'.asc = walk.asc
      /\ walk'.seen = walk.seen /\ walk'.twice = walk.twice
      /\ walk'.total <= Cardinality(Docs)
  BY <1>1, ListIsFinite DEF Walk, WalkOps
<1>3. PagTypeOK' /\ KindOfWalk'
  BY <1>1, <1>2 DEF PagInv, PagTypeOK, KindOfWalk, InList
<1>4. StillToCome'
  BY <1>1, <1>2 DEF PagInv, StillToCome, Asking, PlaceNow, PageEnd
<1>5. AlreadyShown'
  BY <1>1, <1>2 DEF PagInv, AlreadyShown, Asking, PlaceNow, PageEnd
<1>6. AllShown'
  BY <1>2 DEF AllShown
<1>7. QED
  BY <1>3, <1>4, <1>5, <1>6 DEF PagInv

\* A page that is answered: what is still to come is behind it, what was shown is not, and
\* if it is the last one, everything was shown or the total was counted too early.
LEMMA AnswerKeeps ==
  ASSUME PagInv, Asking, NEW rows \in SUBSET Docs, NEW total \in Nat, NEW size \in Nat,
         total <= Cardinality(Docs), Answered(rows, total, size), UNCHANGED <<shape, key>>,
         ~ past.pulled /\ ~ past.tied /\ ~ Tied =>
           \A d \in past.steady \ walk.seen : d \notin rows =>
             /\ PageEnd <= PlaceNow(d)
             /\ total <= PageEnd => total < size /\ shape.reads \in {"total", "parallel"},
         ~ past.pushed /\ ~ past.tied /\ ~ Tied =>
           \A d \in past.steady : d \in rows => PlaceNow(d) < PageEnd /\ d \notin walk.seen
  PROVE  PagInv'
<1>1. /\ walk \in Walk /\ past \in Past /\ shape' = shape /\ key' = key
      /\ past.steady \subseteq InList /\ walk.twice \subseteq walk.seen
      /\ walk.seen \subseteq past.steady /\ (walk.asc => shape.order = "edited")
      /\ walk.op # "idle"
  BY DEF PagInv, PagTypeOK, KindOfWalk, Asking
<1>2. /\ walk.page \in Nat \ {0} /\ walk.limit \in Nat \ {0} /\ walk.limit \in Limits
      /\ walk.page = 1 \/ walk.page <= Cardinality(Docs)
  BY PageIsReal DEF PagInv
<1>3. PICK last \in BOOLEAN : last <=> walk.page >= TotalPages(total, walk.limit)
  OBVIOUS
<1>4. /\ last <=> total <= PageEnd
      /\ ~ last => walk.page < TotalPages(total, walk.limit)
      /\ TotalPages(total, walk.limit) \in Nat /\ TotalPages(total, walk.limit) <= total
      /\ PageEnd \in Nat /\ Skip(walk.page, walk.limit) \in Nat
      /\ Skip(walk.page, walk.limit) <= PageEnd
      /\ Skip(walk.page + 1, walk.limit) = PageEnd
  <2>1. /\ walk.page >= TotalPages(total, walk.limit) <=> total <= walk.page * walk.limit
        /\ TotalPages(total, walk.limit) \in Nat /\ TotalPages(total, walk.limit) <= total
        /\ walk.page * walk.limit \in Nat
        /\ Skip(walk.page, walk.limit) \in Nat
        /\ Skip(walk.page, walk.limit) + walk.limit = walk.page * walk.limit
        /\ Skip(walk.page + 1, walk.limit) = walk.page * walk.limit
    BY <1>2, PageMath
  <2>2. ~ last => walk.page < TotalPages(total, walk.limit)
    BY <1>2, <1>3, <2>1
  <2>3. Skip(walk.page, walk.limit) <= walk.page * walk.limit
    BY <1>2, <2>1
  <2>4. QED
    BY <1>3, <2>1, <2>2, <2>3 DEF PageEnd
<1>5. walk' = [walk EXCEPT !.op = IF last THEN "done" ELSE "ask",
                           !.page = IF last THEN walk.page ELSE walk.page + 1,
                           !.total = 0, !.size = 0, !.rows = {},
                           !.seen = walk.seen \cup (rows \cap past.steady),
                           !.twice = walk.twice \cup (walk.seen \cap rows)]
  <2>1. walk.page >= TotalPages(total, walk.limit) <=> last
    BY <1>3
  <2>2. CASE last
    BY <2>1, <2>2 DEF Answered
  <2>3. CASE ~ last
    BY <2>1, <2>3 DEF Answered
  <2>4. QED
    BY <2>2, <2>3
<1>6. PICK b \in BOOLEAN : b <=> Tied
  OBVIOUS
<1>7. PICK c \in BOOLEAN : c <=> last /\ total < size
  OBVIOUS
<1>8. past' = [past EXCEPT !.tied = past.tied \/ b, !.short = c]
  <2>1. (past.tied \/ Tied) = (past.tied \/ b)
    BY <1>6
  <2>2. (walk.page >= TotalPages(total, walk.limit) /\ total < size) = c
    BY <1>3, <1>7
  <2>3. past' = [past EXCEPT !.tied = past.tied \/ Tied,
                             !.short = walk.page >= TotalPages(total, walk.limit) /\ total < size]
    BY DEF Answered
  <2>4. QED
    BY <2>1, <2>2, <2>3
<1>9. /\ past' \in Past /\ past'.steady = past.steady /\ past'.pulled = past.pulled
      /\ past'.pushed = past.pushed /\ past'.short = c /\ past'.tied = (past.tied \/ b)
  BY <1>1, <1>8 DEF Past
<1>10. PICK page \in Nat : page = IF last THEN walk.page ELSE walk.page + 1
  BY <1>2
<1>11. PICK seen : seen = walk.seen \cup (rows \cap past.steady)
  OBVIOUS
<1>12. PICK twice : twice = walk.twice \cup (walk.seen \cap rows)
  OBVIOUS
<1>13. seen \subseteq Docs /\ twice \subseteq Docs /\ twice \subseteq seen /\ seen \subseteq past.steady
  BY <1>1, <1>11, <1>12 DEF Walk
<1>14. /\ walk' \in Walk /\ walk'.op = (IF last THEN "done" ELSE "ask") /\ walk'.page = page
       /\ walk'.limit = walk.limit /\ walk'.asc = walk.asc /\ walk'.seen = seen
       /\ walk'.twice = twice /\ walk'.total = 0
  <2>1. (IF last THEN "done" ELSE "ask") \in WalkOps
    BY DEF WalkOps
  <2>2. walk' = [walk EXCEPT !.op = IF last THEN "done" ELSE "ask", !.page = page,
                             !.total = 0, !.size = 0, !.rows = {}, !.seen = seen, !.twice = twice]
    BY <1>5, <1>10, <1>11, <1>12
  <2>3. QED
    BY <1>1, <1>13, <2>1, <2>2 DEF Walk
<1>15. page \in {1} \cup 1 .. Cardinality(Docs)
  <2>1. Cardinality(Docs) \in Nat
    BY ListIsFinite
  <2>2. CASE last
    BY <1>2, <1>10, <2>1, <2>2
  <2>3. CASE ~ last
    BY <1>2, <1>4, <1>10, <2>1, <2>3
  <2>4. QED
    BY <2>2, <2>3
<1>16. PagTypeOK'
  BY <1>1, <1>2, <1>9, <1>13, <1>14, <1>15 DEF PagInv, PagTypeOK, InList
<1>17. KindOfWalk'
  <2>1. walk'.op \in {"done", "ask"}
    BY <1>14
  <2>2. QED
    BY <1>1, <1>14, <2>1, ListIsFinite DEF KindOfWalk
<1>18. StillToCome'
  <2>1. SUFFICES ASSUME ~ last, ~ past.pulled, ~ past.tied, ~ Tied,
                        NEW d \in past.steady \ seen
                 PROVE  PageEnd <= PlaceNow(d)
    BY <1>1, <1>4, <1>6, <1>9, <1>10, <1>14 DEF StillToCome, Asking, PlaceNow
  <2>2. d \notin walk.seen /\ d \notin rows
    BY <1>11, <2>1
  <2>3. QED
    BY <2>1, <2>2
<1>19. AlreadyShown'
  <2>1. ASSUME ~ past.pushed, ~ past.tied, ~ Tied PROVE twice = {}
    BY <1>1, <1>12, <2>1 DEF PagInv, AlreadyShown
  <2>2. ASSUME ~ last, ~ past.pushed, ~ past.tied, ~ Tied, NEW d \in past.steady, d \in seen
        PROVE  PlaceNow(d) < PageEnd
    <3>1. CASE d \in rows
      BY <2>2, <3>1
    <3>2. CASE d \notin rows
      <4>1. d \in walk.seen
        BY <1>11, <2>2, <3>2
      <4>2. PlaceNow(d) < Skip(walk.page, walk.limit)
        BY <2>2, <4>1 DEF PagInv, AlreadyShown
      <4>3. PlaceNow(d) \in Nat
        BY <1>1, PlaceBounds DEF PlaceNow, Walk
      <4>4. QED
        BY <1>4, <4>2, <4>3
    <3>3. QED
      BY <3>1, <3>2
  <2>3. QED
    BY <1>1, <1>4, <1>6, <1>9, <1>10, <1>14, <2>1, <2>2 DEF AlreadyShown, Asking, PlaceNow
<1>20. AllShown'
  <2>1. SUFFICES ASSUME last, NEW d \in past.steady \ seen, ~ past.pulled, ~ past.tied, ~ Tied
                 PROVE  c /\ shape.reads \in {"total", "parallel"}
    BY <1>1, <1>6, <1>9, <1>14 DEF AllShown
  <2>2. d \notin walk.seen /\ d \notin rows
    BY <1>11, <2>1
  <2>3. QED
    BY <1>4, <1>7, <2>1, <2>2
<1>21. QED
  BY <1>16, <1>17, <1>18, <1>19, <1>20 DEF PagInv

\* A steady document has a place in the list.
LEMMA SteadyInList ==
  ASSUME PagInv, NEW d \in past.steady
  PROVE  PlaceNow(d) \in Nat /\ PlaceNow(d) < Cardinality(InList)
<1>1. key \in [Docs -> 0 .. MaxKey] /\ walk.asc \in BOOLEAN /\ d \in InList
  BY DEF PagInv, PagTypeOK, Walk
<1>2. QED
  BY <1>1, PlaceInList, PlaceBounds DEF PlaceNow

\* The end of a page is a number.
LEMMA PageEndIsNat ==
  ASSUME PagInv, Asking PROVE PageEnd \in Nat
BY PageIsReal, PageMath, 0 \in Nat DEF PagInv, PageEnd

\* $facet answers with rows and total of one moment.
LEMMA BothKeep == ASSUME PagInv, ReadBoth PROVE PagInv'
<1>1. PICK o \in Orders : Answered(RowsOf(o), Cardinality(InList), Cardinality(InList))
  BY DEF ReadBoth
<1>2. Asking /\ walk.op # "rows" /\ UNCHANGED <<shape, key>>
  BY DEF ReadBoth, Asking
<1>3. PICK rows, total : rows = RowsOf(o) /\ total = Cardinality(InList)
  OBVIOUS
<1>4. /\ rows \in SUBSET Docs
      /\ ~ past.pulled /\ ~ past.tied /\ ~ Tied =>
           \A d \in past.steady \ walk.seen : d \notin rows => PageEnd <= PlaceNow(d)
      /\ ~ past.pushed /\ ~ past.tied /\ ~ Tied =>
           \A d \in past.steady : d \in rows => PlaceNow(d) < PageEnd /\ d \notin walk.seen
  BY <1>2, <1>3, RowsInPlace
<1>5. total \in Nat /\ total <= Cardinality(Docs)
  BY <1>3, ListIsFinite
<1>6. ASSUME NEW d \in past.steady, PageEnd <= PlaceNow(d) PROVE ~ (total <= PageEnd)
  BY <1>2, <1>3, <1>5, <1>6, SteadyInList, PageEndIsNat
<1>7. Answered(rows, total, total)
  BY <1>1, <1>3
<1>8. QED
  BY <1>2, <1>4, <1>5, <1>6, <1>7, AnswerKeeps

\* The total is counted after the rows.
LEMMA CountAfterKeeps == ASSUME PagInv, CountAfter PROVE PagInv'
<1>1. /\ walk.op = "rows" /\ Asking /\ UNCHANGED <<shape, key>>
      /\ Answered(walk.rows, Cardinality(InList), walk.size)
  BY DEF CountAfter, Asking
<1>2. PICK total : total = Cardinality(InList)
  OBVIOUS
<1>3. walk.rows \in SUBSET Docs /\ walk.size \in Nat /\ total \in Nat /\ total <= Cardinality(Docs)
  BY <1>2, ListIsFinite DEF PagInv, PagTypeOK, Walk
<1>4. ASSUME NEW d \in past.steady, PageEnd <= PlaceNow(d) PROVE ~ (total <= PageEnd)
  BY <1>1, <1>2, <1>3, <1>4, SteadyInList, PageEndIsNat
<1>5. ~ past.pulled /\ ~ past.tied =>
        \A d \in past.steady \ walk.seen : d \notin walk.rows => PageEnd <= PlaceNow(d)
  BY <1>1 DEF PagInv, StillToCome
<1>6. ~ past.pushed /\ ~ past.tied =>
        \A d \in past.steady : d \in walk.rows => PlaceNow(d) < PageEnd /\ d \notin walk.seen
  BY <1>1 DEF PagInv, AlreadyShown
<1>7. QED
  BY <1>1, <1>2, <1>3, <1>4, <1>5, <1>6, AnswerKeeps

\* The rows are read after the total.
LEMMA RowsAfterKeeps == ASSUME PagInv, RowsAfter PROVE PagInv'
<1>1. PICK o \in Orders : Answered(RowsOf(o), walk.total, Cardinality(InList))
  BY DEF RowsAfter
<1>2. /\ Asking /\ walk.op = "total" /\ UNCHANGED <<shape, key>>
      /\ shape.reads \in {"total", "parallel"} /\ walk.total <= Cardinality(Docs)
      /\ walk.total \in Nat
  BY DEF RowsAfter, Asking, PagInv, KindOfWalk, PagTypeOK, Walk
<1>3. PICK rows, size : rows = RowsOf(o) /\ size = Cardinality(InList)
  OBVIOUS
<1>4. /\ rows \in SUBSET Docs
      /\ ~ past.pulled /\ ~ past.tied /\ ~ Tied =>
           \A d \in past.steady \ walk.seen : d \notin rows => PageEnd <= PlaceNow(d)
      /\ ~ past.pushed /\ ~ past.tied /\ ~ Tied =>
           \A d \in past.steady : d \in rows => PlaceNow(d) < PageEnd /\ d \notin walk.seen
  BY <1>2, <1>3, RowsInPlace
<1>5. size \in Nat
  BY <1>3, ListIsFinite
<1>6. ASSUME NEW d \in past.steady, PageEnd <= PlaceNow(d), walk.total <= PageEnd
      PROVE  walk.total < size
  BY <1>2, <1>3, <1>5, <1>6, SteadyInList, PageEndIsNat
<1>7. Answered(rows, walk.total, size)
  BY <1>1, <1>3
<1>8. QED
  BY <1>2, <1>4, <1>5, <1>6, <1>7, AnswerKeeps

-----------------------------------------------------------------------------
(* The theorems *)

\* At first the list is empty and nobody reads it.
LEMMA PagFirst == PagInit => PagInv
<1> SUFFICES ASSUME PagInit PROVE PagInv
  OBVIOUS
<1>1. /\ NoWalk \in Walk /\ NoWalk.op = "idle" /\ NoWalk.total = 0 /\ NoWalk.seen = {}
      /\ NoWalk.twice = {}
  BY DEF NoWalk, Walk, WalkOps
<1>2. NoPast \in Past /\ NoPast.steady = {}
  BY DEF NoPast, Past
<1>3. key \in [Docs -> 0 .. MaxKey]
  BY PagedConstants DEF PagInit
<1>4. PagTypeOK
  BY <1>1, <1>2, <1>3 DEF PagInit, PagTypeOK
<1>5. KindOfWalk
  BY <1>1, <1>2, ListIsFinite DEF PagInit, KindOfWalk
<1>6. StillToCome /\ AlreadyShown /\ AllShown
  BY <1>1 DEF PagInit, StillToCome, AlreadyShown, AllShown, Asking
<1>7. QED
  BY <1>4, <1>5, <1>6 DEF PagInv

\* Every step keeps the invariant.
LEMMA PagStep == PagInv /\ [PagNext]_pagVars => PagInv'
<1> SUFFICES ASSUME PagInv, [PagNext]_pagVars PROVE PagInv'
  OBVIOUS
<1>1. CASE UNCHANGED pagVars
  BY <1>1 DEF pagVars, PagInv, PagTypeOK, KindOfWalk, StillToCome, AlreadyShown, AllShown,
              Asking, PlaceNow, PageEnd, InList
<1>2. ASSUME NEW limit \in Limits, NEW asc \in BOOLEAN, Ask(limit, asc) PROVE PagInv'
  BY <1>2, AskKeeps
<1>3. CASE ReadBoth \/ ReadRows \/ CountAfter \/ Count \/ RowsAfter
  BY <1>3, BothKeep, RowsKeep, CountAfterKeeps, CountKeeps, RowsAfterKeeps
<1>4. ASSUME NEW d \in Docs, NEW k \in 1 .. MaxKey, Insert(d, k) \/ Touch(d, k) \/ Move(d, k)
      PROVE  PagInv'
  <2>1. SetKey(d, k) /\ MayBe(k) /\ k \in 0 .. MaxKey
    BY <1>4, PagedConstants DEF Insert, Touch, Move
  <2>2. shape.order = "touched" => k = Newest + 1
    BY <2>1 DEF MayBe
  <2>3. QED
    BY <2>1, <2>2, SetKeyKeeps
<1>5. ASSUME NEW d \in Docs, Leave(d) PROVE PagInv'
  <2>1. SetKey(d, 0) /\ 0 \in 0 .. MaxKey
    BY <1>5, PagedConstants DEF Leave
  <2>2. QED
    BY <2>1, SetKeyKeeps
<1>6. QED
  BY <1>1, <1>2, <1>3, <1>4, <1>5 DEF PagNext

\* The invariant holds throughout.
LEMMA PagInvariant == PagSpec => []PagInv
<1>1. PagInit => PagInv
  BY PagFirst
<1>2. PagInv /\ [PagNext]_pagVars => PagInv'
  BY PagStep
<1>3. QED
  BY <1>1, <1>2, PTL DEF PagSpec

\* The page that a client asks for, and what it is shown, stay within the documents.
THEOREM PagesTypeCorrect == PagSpec => []PagTypeOK
<1>1. PagInv => PagTypeOK
  BY DEF PagInv
<1>2. QED
  BY <1>1, PagInvariant, PTL

\* Whatever changes during a walk, the pages of $skip and $limit show every document that
\* stays in its place exactly once, except for the causes that PagesFitTogether names.
THEOREM WalksFindEverything == PagSpec => []PagesFitTogether
<1>1. PagInv => PagesFitTogether
  <2>1. SUFFICES ASSUME PagInv PROVE PagesFitTogether
    OBVIOUS
  <2>2. walk.twice # {} => past.pushed \/ past.tied
    BY <2>1 DEF PagInv, AlreadyShown
  <2>3. QED
    BY <2>1, <2>2 DEF PagInv, AllShown, PagesFitTogether
<1>2. QED
  BY <1>1, PagInvariant, PTL
=============================================================================
