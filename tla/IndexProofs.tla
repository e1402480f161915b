---------------------------- MODULE IndexProofs ----------------------------
(* Theorems about BaseController.index, for any table, any clients and any  *)
(* requests: what a page holds, how far totalRecords can be off, what       *)
(* following nextPage covers, and which requests are refused.               *)
EXTENDS BaseControllerProofs, ListingLemmas

Table == [Id -> Row \cup {None}]

-----------------------------------------------------------------------------
(* The order of rows                                                        *)

\* Sort keys that name columns.
Orders == {o \in Seq(SortKey) : \A n \in DOMAIN o : o[n].key \in Column}

\* Nothing in order o tells rows i and j apart.
Same(t, o, i, j) ==
  \A n \in DOMAIN o : Value(t, i, o[n].key) = Value(t, j, o[n].key)

LEMMA ValuesAreNumbers ==
  ASSUME NEW t \in Table, NEW i \in Id, t[i] # None, NEW col \in Column
  PROVE  Value(t, i, col) \in Int
<1>1. t[i] \in Row
  BY DEF Table
<1>2. t[i].name \in Int /\ t[i].at \in Int /\ i \in Int
  <2>1. t[i].name \in Name /\ t[i].at \in At
    BY <1>1 DEF Row
  <2>2. Name \subseteq Int /\ At \subseteq Int /\ Id \subseteq Int
    BY ColumnsAreNumbers
  <2> QED
    BY <2>1, <2>2
<1>3. CASE col = "id"
  BY <1>2, <1>3 DEF Value
<1>4. CASE col = "name"
  BY <1>2, <1>4 DEF Value
<1>5. CASE col = "at"
  BY <1>2, <1>5 DEF Value
<1> QED
  BY <1>3, <1>4, <1>5 DEF Column

\* What getOrderBy returns names columns, or the request has been refused.
LEMMA OrderBySorts ==
  ASSUME NEW q \in ListRequest, ~BadOrder(q)
  PROVE  GetOrderBy(q) \in Orders
<1> DEFINE keys == q.sort.keys
           All(dir) == [i \in DOMAIN keys |-> [keys[i] EXCEPT !.dir = dir]]
<1>1. keys \in Seq(SortKey) /\ DOMAIN keys = 1 .. Len(keys) /\ Len(keys) \in Nat
  BY DEF ListRequest
<1>2. ASSUME NEW dir \in {"ASC", "DESC"}
      PROVE  All(dir) \in Seq(SortKey)
  <2>1. \A k \in SortKey : [k EXCEPT !.dir = dir] \in SortKey
    BY DEF SortKey
  <2>2. \A i \in 1 .. Len(keys) : [keys[i] EXCEPT !.dir = dir] \in SortKey
    <3>1. \A i \in 1 .. Len(keys) : keys[i] \in SortKey
      BY <1>1
    <3> QED
      BY <2>1, <3>1
  <2> QED
    BY <1>1, <2>2
<1>3. GetOrderBy(q) \in {keys, All("ASC"), All("DESC"), << >>}
  BY DEF GetOrderBy
<1>4. << >> \in Seq(SortKey)
  OBVIOUS
<1>5. GetOrderBy(q) \in Seq(SortKey)
  <2> HIDE DEF keys, All
  <2> QED
    BY <1>1, <1>2, <1>3, <1>4
<1> QED
  BY <1>5 DEF BadOrder, Orders

\* An order never puts a row before itself nor two before each other, and
\* what it puts neither way it does not tell apart.
LEMMA PrecedesDecides ==
  ASSUME NEW t \in Table, NEW o \in Orders,
         NEW i \in Id, t[i] # None, NEW j \in Id, t[j] # None
  PROVE  /\ ~Precedes(t, o, i, i)
         /\ Precedes(t, o, i, j) => ~Precedes(t, o, j, i)
         /\ ~Precedes(t, o, i, j) /\ ~Precedes(t, o, j, i) => Same(t, o, i, j)
         /\ Same(t, o, i, j) => ~Precedes(t, o, i, j)
<1> DEFINE V(k, m) == Value(t, k, o[m].key)
<1>1. DOMAIN o = 1 .. Len(o) /\ Len(o) \in Nat
  BY DEF Orders
<1>2. \A m \in DOMAIN o : V(i, m) \in Int /\ V(j, m) \in Int
  BY ValuesAreNumbers DEF Orders
<1>3. \A k, l : Precedes(t, o, k, l) <=>
        \E n \in DOMAIN o :
          /\ \A m \in 1 .. (n - 1) : V(k, m) = V(l, m)
          /\ IF o[n].dir = "DESC" THEN V(l, n) < V(k, n) ELSE V(k, n) < V(l, n)
  BY DEF Precedes
<1> HIDE DEF V
<1>4. ~Precedes(t, o, i, i)
  BY <1>2, <1>3
<1>5. Precedes(t, o, i, j) => ~Precedes(t, o, j, i)
  <2> SUFFICES ASSUME Precedes(t, o, i, j), Precedes(t, o, j, i) PROVE FALSE
    OBVIOUS
  <2>1. PICK n \in DOMAIN o :
          /\ \A m \in 1 .. (n - 1) : V(i, m) = V(j, m)
          /\ IF o[n].dir = "DESC" THEN V(j, n) < V(i, n) ELSE V(i, n) < V(j, n)
    BY <1>3
  <2>2. PICK k \in DOMAIN o :
          /\ \A m \in 1 .. (k - 1) : V(j, m) = V(i, m)
          /\ IF o[k].dir = "DESC" THEN V(i, k) < V(j, k) ELSE V(j, k) < V(i, k)
    BY <1>3
  <2>3. n \in 1 .. (k - 1) \/ k \in 1 .. (n - 1) \/ n = k
    BY <1>1
  <2> QED
    BY <1>2, <2>1, <2>2, <2>3
<1>6. ASSUME ~Precedes(t, o, i, j), ~Precedes(t, o, j, i)
      PROVE  \A n \in DOMAIN o : V(i, n) = V(j, n)
  <2> DEFINE S == {n \in Nat : \A m \in 1 .. n : m \in DOMAIN o => V(i, m) = V(j, m)}
  <2>1. 0 \in S
    OBVIOUS
  <2>2. ASSUME NEW n \in Nat, n \in S
        PROVE  n + 1 \in S
    <3> SUFFICES ASSUME n + 1 \in DOMAIN o PROVE V(i, n + 1) = V(j, n + 1)
      BY <2>2
    <3>1. \A m \in 1 .. ((n + 1) - 1) : V(i, m) = V(j, m) /\ V(j, m) = V(i, m)
      BY <1>1, <2>2
    <3>2. /\ ~(V(i, n + 1) < V(j, n + 1))
          /\ ~(V(j, n + 1) < V(i, n + 1))
      BY <1>3, <1>6, <3>1
    <3> QED
      BY <1>2, <3>2
  <2> HIDE DEF S
  <2>3. \A n \in Nat : n \in S
    BY <2>1, <2>2, NatSetInduction
  <2> QED
    BY <1>1, <2>3 DEF S
<1>7. ASSUME \A n \in DOMAIN o : V(i, n) = V(j, n)
      PROVE  ~Precedes(t, o, i, j)
  BY <1>2, <1>3, <1>7
<1> QED
  BY <1>4, <1>5, <1>6, <1>7 DEF Same, V

\* Further keys decide only where the first ones do not.
LEMMA PrecedesAppended ==
  ASSUME NEW t, NEW o \in Seq(SortKey), NEW e \in Seq(SortKey), NEW i, NEW j
  PROVE  Precedes(t, o \o e, i, j) <=>
           \/ Precedes(t, o, i, j)
           \/ Same(t, o, i, j) /\ Precedes(t, e, i, j)
<1> DEFINE a == Len(o)
           b == Len(e)
           Vo(k, m) == Value(t, k, o[m].key)
           Ve(k, m) == Value(t, k, e[m].key)
           oe == o \o e
           V(k, m) == Value(t, k, oe[m].key)
           Less(s, v, w) == IF s.dir = "DESC" THEN w < v ELSE v < w
<1>1. /\ a \in Nat /\ b \in Nat
      /\ DOMAIN o = 1 .. a /\ DOMAIN e = 1 .. b /\ DOMAIN oe = 1 .. (a + b)
      /\ \A m \in 1 .. a : oe[m] = o[m]
      /\ \A m \in 1 .. b : oe[a + m] = e[m]
  OBVIOUS
<1>2. /\ Precedes(t, oe, i, j) <=> \E n \in DOMAIN oe :
           (\A m \in 1 .. (n - 1) : V(i, m) = V(j, m)) /\ Less(oe[n], V(i, n), V(j, n))
      /\ Precedes(t, o, i, j) <=> \E n \in DOMAIN o :
           (\A m \in 1 .. (n - 1) : Vo(i, m) = Vo(j, m)) /\ Less(o[n], Vo(i, n), Vo(j, n))
      /\ Precedes(t, e, i, j) <=> \E n \in DOMAIN e :
           (\A m \in 1 .. (n - 1) : Ve(i, m) = Ve(j, m)) /\ Less(e[n], Ve(i, n), Ve(j, n))
      /\ Same(t, o, i, j) <=> \A n \in DOMAIN o : Vo(i, n) = Vo(j, n)
  BY DEF Precedes, Same
<1>3. /\ \A k : \A m \in 1 .. a : V(k, m) = Vo(k, m)
      /\ \A k : \A m \in 1 .. b : V(k, a + m) = Ve(k, m)
  BY <1>1
<1> HIDE DEF a, b, oe, V, Vo, Ve, Less
<1>4. ASSUME NEW n \in 1 .. (a + b), \A m \in 1 .. (n - 1) : V(i, m) = V(j, m),
             Less(oe[n], V(i, n), V(j, n))
      PROVE  \/ Precedes(t, o, i, j)
             \/ Same(t, o, i, j) /\ Precedes(t, e, i, j)
  <2>1. CASE n \in 1 .. a
    <3>1. \A m \in 1 .. (n - 1) : Vo(i, m) = Vo(j, m)
      <4>1. \A m \in 1 .. (n - 1) : m \in 1 .. a
        BY <1>1, <2>1
      <4> QED
        BY <1>3, <1>4, <4>1
    <3> QED
      BY <1>1, <1>2, <1>3, <1>4, <2>1, <3>1
  <2>2. CASE n \notin 1 .. a
    <3>1. n - a \in 1 .. b /\ a + (n - a) = n
      BY <1>1, <2>2
    <3>2. \A m \in 1 .. a : Vo(i, m) = Vo(j, m)
      <4>1. \A m \in 1 .. a : m \in 1 .. (n - 1)
        BY <1>1, <2>2
      <4> QED
        BY <1>3, <1>4, <4>1
    <3>3. \A m \in 1 .. ((n - a) - 1) : Ve(i, m) = Ve(j, m)
      <4>1. \A m \in 1 .. ((n - a) - 1) : m \in 1 .. b /\ a + m \in 1 .. (n - 1)
        BY <1>1, <2>2
      <4> QED
        BY <1>3, <1>4, <4>1
    <3>4. Less(e[n - a], Ve(i, n - a), Ve(j, n - a))
      BY <1>1, <1>3, <1>4, <3>1
    <3> QED
      BY <1>1, <1>2, <3>1, <3>2, <3>3, <3>4
  <2> QED
    BY <2>1, <2>2
<1>5. ASSUME NEW n \in 1 .. a, \A m \in 1 .. (n - 1) : Vo(i, m) = Vo(j, m),
             Less(o[n], Vo(i, n), Vo(j, n))
      PROVE  Precedes(t, oe, i, j)
  <2>1. n \in 1 .. (a + b) /\ \A m \in 1 .. (n - 1) : m \in 1 .. a
    BY <1>1
  <2> QED
    BY <1>1, <1>2, <1>3, <1>5, <2>1, SMTT(30)
<1>6. ASSUME NEW n \in 1 .. b, \A m \in 1 .. (n - 1) : Ve(i, m) = Ve(j, m),
             Less(e[n], Ve(i, n), Ve(j, n)), \A m \in 1 .. a : Vo(i, m) = Vo(j, m)
      PROVE  Precedes(t, oe, i, j)
  <2>1. a + n \in 1 .. (a + b)
    BY <1>1
  <2>2. ASSUME NEW m \in 1 .. ((a + n) - 1)
        PROVE  V(i, m) = V(j, m)
    <3>1. CASE m \in 1 .. a
      BY <1>3, <1>6, <3>1
    <3>2. CASE m \notin 1 .. a
      <4>1. m - a \in 1 .. (n - 1) /\ m - a \in 1 .. b /\ a + (m - a) = m
        BY <1>1, <3>2
      <4> QED
        BY <1>3, <1>6, <4>1
    <3> QED
      BY <3>1, <3>2
  <2> QED
    BY <1>1, <1>2, <1>3, <1>6, <2>1, <2>2
<1>7. Precedes(t, oe, i, j) =>
        \/ Precedes(t, o, i, j)
        \/ Same(t, o, i, j) /\ Precedes(t, e, i, j)
  BY <1>1, <1>2, <1>4
<1>8. Precedes(t, o, i, j) => Precedes(t, oe, i, j)
  BY <1>1, <1>2, <1>5
<1>9. Same(t, o, i, j) /\ Precedes(t, e, i, j) => Precedes(t, oe, i, j)
  BY <1>1, <1>2, <1>6
<1> QED
  BY <1>7, <1>8, <1>9 DEF oe

\* The default adds its one key where the user has not named it.
LEMMA DefaultOrderAdds ==
  ASSUME NEW c \in {TenantController, OrderController}, NEW user \in Orders
  PROVE  \E d \in SortKey, e \in Orders :
           /\ c.defaultOrder = <<d>> /\ <<d>> \in Orders
           /\ e = IF \E i \in DOMAIN user : user[i].key = d.key THEN << >> ELSE <<d>>
           /\ ApplyDefaultOrder(user, c.defaultOrder) = user \o e
<1>1. PICK d \in SortKey : c.defaultOrder = <<d>> /\ d.key \in Column
  <2>1. CASE c = TenantController
    <3> DEFINE d == [key |-> "name", dir |-> "ASC"]
    <3>1. c.defaultOrder = <<d>>
      BY <2>1 DEF TenantController
    <3>2. d \in SortKey
      BY DEF SortKey, Key, Column
    <3>3. d.key \in Column
      BY DEF Column
    <3> QED
      BY <3>1, <3>2, <3>3
  <2>2. CASE c = OrderController
    <3> DEFINE d == [key |-> "at", dir |-> "DESC"]
    <3>1. c.defaultOrder = <<d>>
      BY <2>2 DEF OrderController
    <3>2. d \in SortKey
      BY DEF SortKey, Key, Column
    <3>3. d.key \in Column
      BY DEF Column
    <3> QED
      BY <3>1, <3>2, <3>3
  <2> QED
    BY <2>1, <2>2
<1> DEFINE e == IF \E i \in DOMAIN user : user[i].key = d.key THEN << >> ELSE <<d>>
           kept == [n \in DOMAIN <<d>> |->
                      IF \E i \in DOMAIN user : user[i].key = <<d>>[n].key
                        THEN << >> ELSE <<<<d>>[n]>>]
<1>2. << >> \in Orders /\ <<d>> \in Orders
  BY <1>1 DEF Orders
<1>3. e \in Orders /\ e \in Seq(SortKey)
  BY <1>2 DEF Orders
<1>4. kept = <<e>>
  <2>1. DOMAIN <<d>> = 1 .. 1 /\ <<d>>[1] = d
    OBVIOUS
  <2>2. DOMAIN kept = 1 .. 1 /\ kept[1] = e
    BY <2>1
  <2> HIDE DEF e
  <2>3. kept = [n \in 1 .. 1 |-> e]
    BY <2>1, <2>2
  <2> HIDE DEF kept
  <2> QED
    BY <2>3
<1>5. FlattenSeq(<<e>>) = e
  <2> HIDE DEF e
  <2>1. <<e>> \in Seq(Seq(SortKey)) /\ Len(<<e>>) = 1 /\ <<e>>[1] = e
    BY <1>3
  <2>2. PICK flat : /\ Flattens(<<e>>, Len(<<e>>), flat)
                    /\ FlattenSeq(<<e>>) = flat[Len(<<e>>)]
    <3>1. Len(<<e>>) # 0
      BY <2>1
    <3> QED
      BY <2>1, <3>1, FlattenUnfolds
  <2> QED
    BY <2>1, <2>2 DEF Flattens
<1>6. ApplyDefaultOrder(user, <<d>>) = user \o FlattenSeq(kept)
  BY DEF ApplyDefaultOrder
<1> HIDE DEF e, kept
<1>7. ApplyDefaultOrder(user, c.defaultOrder) = user \o e
  BY <1>1, <1>4, <1>5, <1>6
<1> QED
  BY <1>1, <1>2, <1>3, <1>7 DEF e

\* The keys sent to the database order the rows as the client asked for and
\* the default, where the client does not say, decides.
LEMMA OrderIsComesBefore ==
  ASSUME NEW p \in Client, before[p] \in Table, req[p] \in ListRequest,
         ~BadOrder(req[p]), controller \in {TenantController, OrderController},
         NEW i \in Id, before[p][i] # None, NEW j \in Id, before[p][j] # None
  PROVE  Precedes(before[p], OrderOf(req[p], controller), i, j) <=> ComesBefore(p, i, j)
<1> DEFINE t == before[p]
           user == GetOrderBy(req[p])
<1>1. user \in Orders /\ user \in Seq(SortKey)
  BY OrderBySorts DEF Orders
<1>2. PICK d \in SortKey, e \in Orders :
        /\ controller.defaultOrder = <<d>> /\ <<d>> \in Orders
        /\ e = IF \E n \in DOMAIN user : user[n].key = d.key THEN << >> ELSE <<d>>
        /\ ApplyDefaultOrder(user, controller.defaultOrder) = user \o e
  <2> HIDE DEF user
  <2> QED
    BY <1>1, DefaultOrderAdds
<1>3. OrderOf(req[p], controller) = user \o e
  BY <1>2 DEF OrderOf
<1>4. ComesBefore(p, i, j) <=>
        \/ Precedes(t, user, i, j)
        \/ ~Precedes(t, user, j, i) /\ Precedes(t, <<d>>, i, j)
  BY <1>2 DEF ComesBefore
<1> HIDE DEF t, user
<1>5. Precedes(t, user \o e, i, j) <=>
        \/ Precedes(t, user, i, j)
        \/ Same(t, user, i, j) /\ Precedes(t, e, i, j)
  <2>1. e \in Seq(SortKey)
    BY DEF Orders
  <2> QED
    BY <1>1, <2>1, PrecedesAppended
<1>6. /\ Precedes(t, user, i, j) => ~Precedes(t, user, j, i)
      /\ ~Precedes(t, user, i, j) /\ ~Precedes(t, user, j, i) => Same(t, user, i, j)
      /\ Same(t, user, i, j) => ~Precedes(t, user, i, j) /\ ~Precedes(t, user, j, i)
  <2>1. Same(t, user, i, j) => Same(t, user, j, i)
    BY DEF Same
  <2> QED
    BY <1>1, <2>1, PrecedesDecides DEF t
<1>7. ASSUME Same(t, user, i, j)
      PROVE  Precedes(t, e, i, j) <=> Precedes(t, <<d>>, i, j)
  <2>1. CASE \E n \in DOMAIN user : user[n].key = d.key
    <3>1. Value(t, i, d.key) = Value(t, j, d.key)
      BY <1>7, <2>1 DEF Same
    <3>2. Same(t, <<d>>, i, j)
      BY <3>1 DEF Same
    <3>3. ~Precedes(t, <<d>>, i, j)
      BY <1>2, <3>2, PrecedesDecides DEF t
    <3>4. ~Precedes(t, << >>, i, j)
      BY DEF Precedes
    <3> QED
      BY <1>2, <2>1, <3>3, <3>4
  <2>2. CASE ~\E n \in DOMAIN user : user[n].key = d.key
    BY <1>2, <2>2
  <2> QED
    BY <2>1, <2>2
<1> QED
  BY <1>3, <1>4, <1>5, <1>6, <1>7 DEF t

LEMMA ComesBeforeDecides ==
  ASSUME NEW p \in Client, before[p] \in Table, req[p] \in ListRequest,
         ~BadOrder(req[p]), controller \in {TenantController, OrderController},
         NEW i \in Id, before[p][i] # None
  PROVE  ~ComesBefore(p, i, i)
<1>1. PICK d \in SortKey : controller.defaultOrder = <<d>> /\ <<d>> \in Orders
  <2>1. << >> \in Orders
    BY DEF Orders
  <2> QED
    BY <2>1, DefaultOrderAdds
<1>2. GetOrderBy(req[p]) \in Orders
  BY OrderBySorts
<1> QED
  BY <1>1, <1>2, PrecedesDecides DEF ComesBefore

-----------------------------------------------------------------------------
(* The inductive invariant.                                                 *)

\* What p's client asked for orders the rows that it wants.
Ordering(p) == {x \in Wanted(p) \X Wanted(p) : ComesBefore(p, x[1], x[2])}

\* Row i has place k of U sorted by R.
HasPlace(U, R, i, k) ==
  /\ i \in U
  /\ Cardinality(EarlierIn(U, R, i)) < k
  /\ k <= Cardinality(NotLaterIn(U, R, i))

\* s are the rows of U sorted by R, from the first on.
Fills(s, U, R) == \A k \in 1 .. Len(s) : HasPlace(U, R, s[k], k)

\* ids are the rows from skip + 1 on of U sorted by R, limit of them or all.
IsPage(ids, U, R, skip, limit) ==
  /\ \A m, n \in 1 .. Len(ids) : ids[m] = ids[n] => m = n
  /\ \A n \in 1 .. Len(ids) : HasPlace(U, R, ids[n], skip + n)
  /\ Len(ids) < limit => Cardinality(U) <= skip + Len(ids)

\* Values for all columns but perhaps the id.
IsEntity(data) == IsData(data) /\ {"name", "at"} \subseteq DOMAIN data

TypesOf(p) ==
  /\ before[p] \in Table
  /\ req[p].kind = "index" => req[p] \in ListRequest
  /\ req[p].kind \in {"create", "update"} => IsData(req[p].data)
  /\ req[p].kind = "create" => IsEntity(req[p].data)
  /\ pc[p] = "idle" => rows[p] = << >> /\ received[p] = << >>
  /\ rows[p] \in Seq(Id)
  /\ rows[p] # << >> => Len(rows[p]) <= Limit(req[p])
  /\ answer[p].status \in {0, 200, 201, 204, 400, 404, 422}
  /\ record[p] = None \/ DOMAIN record[p] \subseteq Column
  /\ pc[p] \in {"reload", "write"} /\ req[p].kind \in {"create", "update"} =>
       /\ IsEntity(record[p])
       /\ pc[p] = "reload" \/ loaded[p] # None => "id" \in DOMAIN record[p]

Types ==
  /\ controller \in {TenantController, OrderController}
  /\ table \in Table
  /\ total \in [Client -> Nat]
  /\ DOMAIN rows = Client /\ DOMAIN received = Client /\ DOMAIN fault = Client
  /\ \A p \in Client : TypesOf(p)

Lists(p) == req[p].kind = "index"

\* Where the table is not what it was when p's client began.
Changed(p) == {i \in Id : table[i] # before[p][i]}

\* n is the number of rows p's client wants, but for the writes of others.
CloseTo(p, n) == n - Cardinality(Wanted(p)) \in (-others[p]) .. others[p]

\* p has read a page, of what its client wants if nobody has written.
PageRead(p, ids) ==
  /\ Executable(req[p], controller)
  /\ ids \in Seq(Id)
  /\ Len(ids) <= Limit(req[p])
  /\ Quiet(p) =>
       IsPage(ids, Wanted(p), Ordering(p), Skip(req[p]), Limit(req[p]))

\* The rows and the count of a listing, from the first statement on.
ListOf(p) ==
  Lists(p) =>
    /\ Cardinality(Changed(p)) <= others[p]
    /\ pc[p] \in Statement => ~BadOrder(req[p])
    /\ pc[p] = "rows" /\ HasSearch(req[p], controller) => CloseTo(p, total[p])
    /\ pc[p] = "count" => PageRead(p, rows[p])
    /\ Listed(p) =>
         /\ PageRead(p, answer[p].ids)
         /\ answer[p].totalRecords \in Nat
         /\ \/ CloseTo(p, answer[p].totalRecords)
            \/ answer[p].ids = << >> /\ answer[p].totalRecords = Skip(req[p])
         /\ answer[p].nextPage = IsNextPage(req[p], answer[p].totalRecords)

\* The rows of all pages that p's client got, one after the other.
Session(p) == FlattenSeq([n \in DOMAIN received[p] |-> received[p][n].ids])

FirstPage(p) ==
  IF received[p] = << >> THEN Page(req[p]) ELSE received[p][1].page

\* While nobody writes, each row that the client got has the place in the
\* session that it has among all, and the pages before the last are full.
SessionOf(p) ==
  Lists(p) =>
    /\ received[p] \in Seq([page : Int, ids : Seq(Id)])
    /\ Listed(p) => received[p] # << >>
    /\ Quiet(p) /\ FirstPage(p) = 1 =>
         LET pages == Len(received[p])
             limit == Limit(req[p])
             all   == Cardinality(Wanted(p))
         IN  /\ Fills(Session(p), Wanted(p), Ordering(p))
             /\ pc[p] \in {"repository"} \cup Statement =>
                  /\ Page(req[p]) = pages + 1
                  /\ Len(Session(p)) = pages * limit
                  /\ pages > 0 => Len(Session(p)) <= all
             /\ Listed(p) =>
                  /\ Page(req[p]) = pages
                  /\ Len(Session(p)) =
                       IF all <= pages * limit THEN all ELSE pages * limit

\* A listing that the schema let through is refused for its order, or for a
\* condition that the database does not know, or by a fault.
RefusalOf(p) ==
  controller.validated /\ Lists(p) /\ pc[p] = "answered" /\ answer[p].status = 422 =>
    \/ fault[p] \/ ~ListSchema(req[p])
    \/ BadOrder(req[p]) \/ ~Executable(req[p], controller)

IInv ==
  /\ WorkInv
  /\ Types
  /\ \A p \in Client : ListOf(p) /\ SessionOf(p) /\ RefusalOf(p)

-----------------------------------------------------------------------------
(* A page of the rows                                                       *)

\* What the database takes for OFFSET and LIMIT.
LEMMA SkipAndLimit ==
  ASSUME NEW q \in ListRequest, NEW c, Executable(q, c)
  PROVE  /\ Page(q) \in Nat /\ Skip(q) \in Nat /\ Limit(q) \in Nat \ {0}
         /\ Page(q) > 0 => /\ Skip(q) = (Page(q) - 1) * Limit(q)
                           /\ Page(q) * Limit(q) = Skip(q) + Limit(q)
<1>1. Page(q) \in Int /\ q.limit \in Int
  BY DEF ListRequest, Page
<1>2. Skip(q) >= 0 /\ Limit(q) >= 0
  BY DEF Executable
<1>3. Limit(q) \in Int /\ Limit(q) # 0
  BY <1>1 DEF Limit
<1>4. CASE Page(q) = 0
  BY <1>1, <1>2, <1>3, <1>4 DEF Skip
<1>5. CASE Page(q) # 0
  <2> DEFINE a == Page(q)
             l == Limit(q)
  <2>1. Skip(q) = (a - 1) * l
    BY <1>5 DEF Skip
  <2> HIDE DEF a, l
  <2>2. a \in Int /\ a # 0 /\ l \in Nat \ {0} /\ (a - 1) * l >= 0
    BY <1>1, <1>2, <1>3, <1>5, <2>1 DEF a, l
  <2>3. a > 0
    <3> SUFFICES ASSUME a <= -1 PROVE FALSE
      BY <2>2
    <3>1. (a - 1) * l <= (-2) * l
      BY <2>2
    <3> QED
      BY <2>2, <3>1
  <2>4. (a - 1) * l \in Nat /\ a * l = (a - 1) * l + l
    <3>1. a \in Nat \ {0}
      BY <2>2, <2>3
    <3>2. a - 1 \in Nat /\ (a - 1) * l \in Int
      BY <2>2, <3>1
    <3>3. a * l = ((a - 1) + 1) * l
      BY <2>2, <3>1
    <3>4. ((a - 1) + 1) * l = (a - 1) * l + l
      BY <2>2, <3>2
    <3> QED
      BY <2>2, <3>2, <3>3, <3>4
  <2> QED
    BY <2>1, <2>2, <2>3, <2>4 DEF a, l
<1> QED
  BY <1>4, <1>5

\* The next page is announced when rows are left for it.
LEMMA NextPageWhenLeft ==
  ASSUME NEW q \in ListRequest, NEW c, Executable(q, c), Page(q) > 0,
         NEW count \in Nat
  PROVE  IsNextPage(q, count) <=> Page(q) * Limit(q) < count
<1>1. Page(q) \in Nat /\ Limit(q) \in Nat \ {0}
  BY SkipAndLimit
<1>2. (count + Limit(q) - 1) \div Limit(q) \in Int
  BY <1>1
<1>3. Page(q) < (count + Limit(q) - 1) \div Limit(q) <=> Page(q) * Limit(q) < count
  BY <1>1, PageAfterThis
<1> QED
  BY <1>1, <1>2, <1>3 DEF IsNextPage, TotalPages

\* Cut takes limit rows from skip + 1 on, or those there are.
LEMMA CutTakes ==
  ASSUME NEW q, Skip(q) \in Nat, Limit(q) \in Nat, NEW A, NEW s \in Seq(A)
  PROVE  /\ Cut(q, s) \in Seq(A) /\ Len(Cut(q, s)) \in Nat
         /\ Len(Cut(q, s)) <= Limit(q)
         /\ \A k \in 1 .. Len(Cut(q, s)) :
              Skip(q) + k \in 1 .. Len(s) /\ Cut(q, s)[k] = s[Skip(q) + k]
         /\ Len(Cut(q, s)) < Limit(q) => Len(s) <= Skip(q) + Len(Cut(q, s))
         /\ Len(Cut(q, s)) > 0 => Skip(q) + Len(Cut(q, s)) <= Len(s)
<1> DEFINE n     == Len(s)
           first == Skip(q)
           limit == Limit(q)
           last  == IF first + limit < n THEN first + limit ELSE n
           cut   == Cut(q, s)
<1>1. n \in Nat /\ \A i \in 1 .. n : s[i] \in A
  BY LenProperties, ElementOfSeq
<1>2. cut = SubSeq(s, first + 1, last)
  BY DEF Cut
<1>3. first \in Nat /\ limit \in Nat
  OBVIOUS
<1>4. last = IF first + limit < n THEN first + limit ELSE n
  OBVIOUS
<1> HIDE DEF n, first, limit, last, cut
<1>5. last \in Nat /\ last <= n /\ last <= first + limit
  BY <1>1, <1>3, <1>4
<1>6. /\ cut \in Seq(A)
      /\ Len(cut) = IF first + 1 <= last THEN last - first ELSE 0
      /\ \A k \in 1 .. (last - first) : cut[k] = s[first + k]
  <2>1. \A i \in (first + 1) .. last : s[i] \in A
    BY <1>1, <1>3, <1>5
  <2>2. first + 1 \in Int /\ last \in Int
    BY <1>3, <1>5
  <2>3. /\ cut \in Seq(A)
        /\ Len(cut) = IF first + 1 <= last THEN last - (first + 1) + 1 ELSE 0
        /\ \A k \in 1 .. (last - (first + 1) + 1) : cut[k] = s[first + 1 + k - 1]
    BY <1>2, <2>1, <2>2, SubSeqProperties
  <2>4. last - (first + 1) + 1 = last - first
        /\ \A k \in 1 .. (last - first) : first + 1 + k - 1 = first + k
    BY <1>3, <1>5
  <2> QED
    BY <2>3, <2>4
<1>7. Len(cut) \in Nat /\ Len(cut) <= limit
  BY <1>3, <1>5, <1>6
<1>8. \A k \in 1 .. Len(cut) : first + k \in 1 .. n /\ cut[k] = s[first + k]
  BY <1>1, <1>3, <1>5, <1>6
<1>9. /\ Len(cut) < limit => n <= first + Len(cut)
      /\ Len(cut) > 0 => first + Len(cut) <= n
  BY <1>1, <1>3, <1>4, <1>5, <1>6
<1> QED
  BY <1>6, <1>7, <1>8, <1>9 DEF n, first, limit, cut

\* Cut from all rows in order, ids are a page of them.
LEMMA CutIsPage ==
  ASSUME NEW q, Skip(q) \in Nat, Limit(q) \in Nat,
         NEW S, IsFiniteSet(S), NEW s \in SetToSeqs(S),
         NEW R, \A u \in S : <<u, u>> \notin R, InOrder(Len(s), s, R)
  PROVE  IsPage(Cut(q, s), S, R, Skip(q), Limit(q))
<1> DEFINE n   == Len(s)
           cut == Cut(q, s)
           first == Skip(q)
<1>1. /\ s \in Seq(S) /\ n = Cardinality(S) /\ n \in Nat
      /\ s \in Injection(1 .. n, S) /\ \A u \in S : \E a \in 1 .. n : s[a] = u
  BY SetToSeqsOrders DEF Bijection, Surjection
<1>2. /\ Len(cut) \in Nat /\ first \in Nat
      /\ \A k \in 1 .. Len(cut) : first + k \in 1 .. n /\ cut[k] = s[first + k]
      /\ Len(cut) < Limit(q) => n <= first + Len(cut)
  BY <1>1, CutTakes
<1> HIDE DEF n, cut, first
<1>3. ASSUME NEW i \in 1 .. Len(cut), NEW j \in 1 .. Len(cut), cut[i] = cut[j]
      PROVE  i = j
  <2>1. PICK a, b : a = first + i /\ b = first + j
    OBVIOUS
  <2>2. a \in 1 .. n /\ b \in 1 .. n /\ s[a] = s[b]
    BY <1>2, <1>3, <2>1
  <2>3. a = b
    BY <1>1, <2>2 DEF Injection, IsInjective
  <2> QED
    BY <1>2, <2>1, <2>3
<1>4. ASSUME NEW k \in 1 .. Len(cut)
      PROVE  HasPlace(S, R, cut[k], first + k)
  <2>1. Covers(n, s, R, S, n)
    BY <1>1 DEF Covers
  <2>2. first + k \in 1 .. n /\ first + k <= n /\ cut[k] = s[first + k]
    BY <1>1, <1>2
  <2>3. s[first + k] \in S
    BY <1>1, <2>2 DEF Injection
  <2>4. /\ Cardinality(EarlierIn(S, R, s[first + k])) < first + k
        /\ first + k <= Cardinality(NotLaterIn(S, R, s[first + k]))
    <3>1. n \in Int /\ InOrder(n, s, R)
      BY <1>1 DEF n
    <3> QED
      BY <1>1, <2>1, <2>2, <3>1, PlaceIsGlobal
  <2> QED
    BY <2>2, <2>3, <2>4 DEF HasPlace
<1> QED
  BY <1>1, <1>2, <1>3, <1>4 DEF IsPage, cut, first

-----------------------------------------------------------------------------
(* What is wanted and what is there                                         *)

LEMMA MatchingFinite ==
  ASSUME NEW t \in Table, NEW q, NEW c
  PROVE  /\ Matching(t, q, c) \in SUBSET Id
         /\ \A i \in Matching(t, q, c) : t[i] # None
         /\ IsFiniteSet(Matching(t, q, c)) /\ Cardinality(Matching(t, q, c)) \in Nat
<1>1. Matching(t, q, c) \in SUBSET Id /\ \A i \in Matching(t, q, c) : t[i] # None
  BY DEF Matching, Table
<1> QED
  BY <1>1, ColumnsAreNumbers, FS_Subset, FS_CardinalityType

\* Pages are about what the client asked for at first.
LEMMA WantedFrame ==
  ASSUME NEW p \in Client, controller' = controller, before'[p] = before[p],
         req'[p].search = req[p].search, req'[p].where = req[p].where,
         req'[p].sort = req[p].sort, req'[p].order = req[p].order
  PROVE  /\ Wanted(p)' = Wanted(p)
         /\ Ordering(p)' = Ordering(p)
         /\ BadOrder(req[p])' = BadOrder(req[p])
         /\ HasSearch(req[p], controller)' = HasSearch(req[p], controller)
<1>1. HasSearch(req[p], controller)' = HasSearch(req[p], controller)
  BY DEF HasSearch
<1>2. GetOrderBy(req'[p]) = GetOrderBy(req[p])
  BY DEF GetOrderBy
<1>3. Wanted(p)' = Wanted(p)
  BY <1>1 DEF Wanted, Matching
<1>4. \A i, j : ComesBefore(p, i, j)' <=> ComesBefore(p, i, j)
  BY <1>2 DEF ComesBefore
<1>5. Ordering(p)' = Ordering(p)
  BY <1>3, <1>4 DEF Ordering
<1>6. BadOrder(req[p])' = BadOrder(req[p])
  BY <1>2 DEF BadOrder
<1> QED
  BY <1>1, <1>3, <1>5, <1>6

LEMMA ChangedFinite ==
  ASSUME NEW p \in Client
  PROVE  IsFiniteSet(Changed(p)) /\ Cardinality(Changed(p)) \in Nat
<1>1. Changed(p) \in SUBSET Id
  BY DEF Changed
<1> QED
  BY <1>1, ColumnsAreNumbers, FS_Subset, FS_CardinalityType

\* As many rows match now as when the client began, but for what others wrote.
LEMMA MatchesClose ==
  ASSUME NEW p \in Client, table \in Table, before[p] \in Table,
         others[p] \in Nat, Cardinality(Changed(p)) <= others[p]
  PROVE  /\ CloseTo(p, Cardinality(Matches(p)))
         /\ Quiet(p) => table = before[p] /\ Matches(p) = Wanted(p)
<1>1. Matches(p) \ Wanted(p) \subseteq Changed(p) /\ Wanted(p) \ Matches(p) \subseteq Changed(p)
  <2>1. \A i \in Id : table[i] = before[p][i] =>
          (i \in Matches(p) <=> i \in Wanted(p))
    BY DEF Matches, Wanted, Matching, Value, Table
  <2>2. Matches(p) \subseteq Id /\ Wanted(p) \subseteq Id
    BY MatchingFinite DEF Matches, Wanted
  <2> QED
    BY <2>1, <2>2 DEF Changed
<1>2. IsFiniteSet(Matches(p)) /\ IsFiniteSet(Wanted(p))
      /\ Cardinality(Matches(p)) \in Nat /\ Cardinality(Wanted(p)) \in Nat
  BY MatchingFinite DEF Matches, Wanted
<1>3. IsFiniteSet(Changed(p)) /\ Cardinality(Changed(p)) \in Nat
  BY ChangedFinite
<1>4. Cardinality(Matches(p)) - Cardinality(Wanted(p))
        \in (-Cardinality(Changed(p))) .. Cardinality(Changed(p))
  BY <1>1, <1>2, <1>3, SizesDiffer
<1>5. CloseTo(p, Cardinality(Matches(p)))
  BY <1>2, <1>3, <1>4 DEF CloseTo
<1>6. ASSUME Quiet(p)
      PROVE  table = before[p] /\ Matches(p) = Wanted(p)
  <2>1. Cardinality(Changed(p)) = 0
    BY <1>3, <1>6 DEF Quiet
  <2>2. Changed(p) = {}
    BY <1>3, <2>1, FS_EmptySet
  <2>3. table = before[p]
    BY <2>2 DEF Changed, Table
  <2> QED
    BY <2>3 DEF Matches, Wanted
<1> QED
  BY <1>5, <1>6

\* The rows that the database returns for a page.
LEMMA RowsRead ==
  ASSUME NEW p \in Client, Types, Lists(p), Cardinality(Changed(p)) <= others[p],
         others[p] \in Nat, ~BadOrder(req[p]), Executable(req[p], controller),
         NEW s \in Sorted(table, OrderOf(req[p], controller), Matches(p)),
         NEW ids, ids = Cut(req[p], s)
  PROVE  /\ PageRead(p, ids)
         /\ Len(ids) \in Nat
         /\ Len(ids) < Limit(req[p]) => Cardinality(Matches(p)) <= Skip(req[p]) + Len(ids)
         /\ Len(ids) > 0 => Skip(req[p]) + Len(ids) <= Cardinality(Matches(p))
<1> DEFINE q == req[p]
           order == OrderOf(q, controller)
<1>1. /\ table \in Table /\ before[p] \in Table /\ q \in ListRequest
      /\ controller \in {TenantController, OrderController}
  BY DEF Types, TypesOf, Lists
<1>2. Skip(q) \in Nat /\ Limit(q) \in Nat
  BY <1>1, SkipAndLimit
<1>3. IsFiniteSet(Matches(p)) /\ Matches(p) \in SUBSET Id
  BY <1>1, MatchingFinite DEF Matches
<1>4. /\ s \in SetToSeqs(Matches(p))
      /\ \A m, n \in DOMAIN s : m < n => ~Precedes(table, order, s[n], s[m])
  BY DEF Sorted
<1>5. /\ s \in Seq(Matches(p)) /\ s \in Seq(Id)
      /\ Len(s) = Cardinality(Matches(p))
  BY <1>3, <1>4, SetToSeqsOrders, SeqMonotonic
<1>6. /\ ids \in Seq(Id) /\ Len(ids) \in Nat /\ Len(ids) <= Limit(q)
      /\ Len(ids) < Limit(q) => Len(s) <= Skip(q) + Len(ids)
      /\ Len(ids) > 0 => Skip(q) + Len(ids) <= Len(s)
  BY <1>2, <1>5, CutTakes
<1>7. ASSUME Quiet(p)
      PROVE  IsPage(ids, Wanted(p), Ordering(p), Skip(q), Limit(q))
  <2>1. table = before[p] /\ Matches(p) = Wanted(p)
    BY <1>1, <1>7, MatchesClose
  <2>2. \A i \in Wanted(p) : i \in Id /\ before[p][i] # None
    BY <1>1, MatchingFinite DEF Wanted
  <2>3. \A u \in Wanted(p) : <<u, u>> \notin Ordering(p)
    BY <1>1, <2>2, ComesBeforeDecides DEF Ordering
  <2>4. InOrder(Len(s), s, Ordering(p))
    <3> SUFFICES ASSUME NEW a \in 1 .. Len(s), NEW b \in 1 .. Len(s), a < b
                 PROVE  <<s[b], s[a]>> \notin Ordering(p)
      BY DEF InOrder
    <3>1. /\ a \in DOMAIN s /\ b \in DOMAIN s
          /\ s[a] \in Wanted(p) /\ s[b] \in Wanted(p)
      BY <1>5, <2>1
    <3>2. ~Precedes(before[p], order, s[b], s[a])
      BY <1>4, <2>1, <3>1
    <3>3. Precedes(before[p], order, s[b], s[a]) <=> ComesBefore(p, s[b], s[a])
      BY <1>1, <2>2, <3>1, OrderIsComesBefore
    <3> QED
      BY <3>2, <3>3 DEF Ordering
  <2> QED
    BY <1>2, <1>3, <1>4, <2>1, <2>3, <2>4, CutIsPage
<1> QED
  BY <1>5, <1>6, <1>7 DEF PageRead

-----------------------------------------------------------------------------
(* What the steps of one client leave of another's                          *)

\* q's request stays where it is, and q notices what becomes of the table.
Noticed(q) ==
  \/ others'[q] = others[q] /\ table' = table
  \/ /\ others'[q] = others[q] + 1
     /\ \E i : \A j \in Id : j # i => table'[j] = table[j]

Unmoved(q) ==
  /\ controller' = controller
  /\ pc'[q] = pc[q] /\ req'[q] = req[q] /\ answer'[q] = answer[q]
  /\ before'[q] = before[q] /\ record'[q] = record[q] /\ loaded'[q] = loaded[q]
  /\ rows'[q] = rows[q] /\ total'[q] = total[q] /\ received'[q] = received[q]
  /\ fault'[q] = fault[q]
  /\ Noticed(q)

\* A write of p changes one row at most.
LEMMA WriteNoticed ==
  ASSUME WorkInv, NEW p \in Client, Write(p), NEW q \in Client \ {p}
  PROVE  Noticed(q)
<1>1. DOMAIN table = Id /\ others \in [Client -> Nat]
  BY DEF WorkInv, Shapes
<1>2. ASSUME NEW i, NEW row, NEW a, WriteTable(p, [table EXCEPT ![i] = row], a)
      PROVE  Noticed(q)
  <2> DEFINE new == [table EXCEPT ![i] = row]
  <2>1. \A j \in Id : j # i => new[j] = table[j]
    BY <1>1
  <2>2. \/ UNCHANGED <<table, others>>
        \/ /\ table' = new
           /\ others'[q] = IF new # table THEN others[q] + 1 ELSE others[q]
    BY <1>2 DEF WriteTable
  <2> HIDE DEF new
  <2> QED
    BY <2>1, <2>2 DEF Noticed
<1>3. CASE InsertRow(p)
  <2> DEFINE i == IF "id" \in DOMAIN record[p] THEN record[p].id ELSE nextId
             row == [name |-> record[p].name, at |-> record[p].at]
  <2>1. \/ UNCHANGED <<table, others>>
        \/ WriteTable(p, [table EXCEPT ![i] = row], Saved(p, i))
    BY <1>3 DEF InsertRow
  <2> HIDE DEF i, row
  <2> QED
    BY <1>2, <2>1 DEF Noticed
<1>4. CASE UpdateRow(p)
  <2>1. \E row : WriteTable(p, [table EXCEPT ![record[p].id] = row],
                            Saved(p, record[p].id))
    BY <1>4 DEF UpdateRow
  <2> QED
    BY <1>2, <2>1
<1>5. CASE RemoveRow(p)
  <2>1. WriteTable(p, [table EXCEPT ![req[p].id] = None], [status |-> 204])
    BY <1>5 DEF RemoveRow
  <2> QED
    BY <1>2, <2>1
<1> QED
  BY <1>3, <1>4, <1>5 DEF Write

LEMMA OthersUnmoved ==
  ASSUME WorkInv, Types, NEW p \in Client, Acts(p), NEW q \in Client \ {p}
  PROVE  Unmoved(q)
<1> USE DEF dataVars, workVars, noteVars
<1>1. Untouched(q)
  BY OthersUntouched
<1>2. /\ DOMAIN rows = Client /\ total \in [Client -> Nat]
      /\ DOMAIN received = Client /\ DOMAIN fault = Client
      /\ others \in [Client -> Nat]
  BY DEF Types, WorkInv, Shapes
<1>3. /\ controller' = controller /\ rows'[q] = rows[q] /\ total'[q] = total[q]
      /\ received'[q] = received[q] /\ fault'[q] = fault[q]
  <2>1. CASE \E r \in Requests : Begin(p, r)
    BY <1>2, <2>1 DEF Begin
  <2>2. CASE FollowNextPage(p)
    BY <1>2, <2>2 DEF FollowNextPage
  <2>3. CASE GetRepository(p) \/ Fail(p)
    BY <1>2, <2>3 DEF GetRepository, Fail
  <2>4. CASE GetCount(p)
    BY <1>2, <2>4 DEF GetCount
  <2>5. CASE GetMany(p)
    BY <1>2, <2>5 DEF GetMany, List
  <2>6. CASE CountRows(p)
    BY <1>2, <2>6 DEF CountRows, List
  <2>7. CASE FindWithRelations(p) \/ FindOne(p) \/ Reload(p)
    BY <1>2, <2>7 DEF FindWithRelations, FindOne, Reload
  <2>8. CASE Write(p)
    BY <1>1, <1>2, <2>8 DEF Write, Untouched
  <2> QED
    BY <2>1, <2>2, <2>3, <2>4, <2>5, <2>6, <2>7, <2>8 DEF Acts, Step
<1>4. Noticed(q)
  <2>1. CASE Write(p)
    BY <2>1, WriteNoticed
  <2>2. CASE \E r \in Requests : Begin(p, r)
    BY <1>2, <2>2 DEF Begin, Noticed
  <2>3. CASE FollowNextPage(p)
    BY <2>3 DEF FollowNextPage, Noticed
  <2>4. CASE GetRepository(p) \/ Fail(p)
    BY <2>4 DEF GetRepository, Fail, Noticed
  <2>5. CASE GetCount(p) \/ GetMany(p) \/ CountRows(p)
    BY <2>5 DEF GetCount, GetMany, CountRows, Noticed
  <2>6. CASE FindWithRelations(p) \/ FindOne(p) \/ Reload(p)
    BY <2>6 DEF FindWithRelations, FindOne, Reload, Noticed
  <2> QED
    BY <2>1, <2>2, <2>3, <2>4, <2>5, <2>6 DEF Acts, Step
<1> QED
  BY <1>1, <1>3, <1>4 DEF Unmoved, Untouched

\* A listing bears what others write.
LEMMA ListFrame ==
  ASSUME NEW q \in Client, Unmoved(q), TypesOf(q), others[q] \in Nat,
         total[q] \in Nat, ListOf(q), SessionOf(q), RefusalOf(q)
  PROVE  ListOf(q)' /\ SessionOf(q)' /\ RefusalOf(q)'
<1>1. /\ controller' = controller
      /\ pc'[q] = pc[q] /\ req'[q] = req[q] /\ answer'[q] = answer[q]
      /\ before'[q] = before[q] /\ rows'[q] = rows[q] /\ total'[q] = total[q]
      /\ received'[q] = received[q] /\ fault'[q] = fault[q]
      /\ Noticed(q)
  BY DEF Unmoved
<1>2. /\ Wanted(q)' = Wanted(q) /\ Ordering(q)' = Ordering(q)
      /\ BadOrder(req[q])' = BadOrder(req[q])
      /\ HasSearch(req[q], controller)' = HasSearch(req[q], controller)
  BY <1>1, WantedFrame
<1>3. /\ others'[q] \in Nat /\ others[q] <= others'[q]
      /\ Quiet(q)' => Quiet(q)
  BY <1>1 DEF Noticed, Quiet
<1>4. ASSUME NEW n \in Int, CloseTo(q, n)
      PROVE  CloseTo(q, n)'
  <2> DEFINE w == Cardinality(Wanted(q))
  <2>1. w \in Nat
    BY MatchingFinite DEF Wanted, TypesOf
  <2>2. n - w \in (-others[q]) .. others[q]
    BY <1>4 DEF CloseTo
  <2> HIDE DEF w
  <2>3. n - w \in (-others'[q]) .. others'[q]
    BY <1>3, <2>1, <2>2
  <2> QED
    BY <1>2, <2>3 DEF CloseTo, w
<1>5. ASSUME NEW ids, PageRead(q, ids)
      PROVE  PageRead(q, ids)'
  BY <1>1, <1>2, <1>3, <1>5 DEF PageRead
<1>6. Cardinality(Changed(q)) <= others[q] => Cardinality(Changed(q)') <= others'[q]
  <2> SUFFICES ASSUME Cardinality(Changed(q)) <= others[q]
               PROVE  Cardinality(Changed(q)') <= others'[q]
    OBVIOUS
  <2>1. CASE others'[q] = others[q] /\ table' = table
    <3>1. Changed(q)' = Changed(q)
      BY <1>1, <2>1 DEF Changed
    <3> QED
      BY <2>1, <3>1
  <2>2. CASE ~(others'[q] = others[q] /\ table' = table)
    <3>1. PICK i : \A j \in Id : j # i => table'[j] = table[j]
      BY <1>1, <2>2 DEF Noticed
    <3>2. others'[q] = others[q] + 1
      BY <1>1, <2>2 DEF Noticed
    <3>3. Changed(q)' \in SUBSET (Changed(q) \cup {i})
      BY <1>1, <3>1 DEF Changed
    <3>4. IsFiniteSet(Changed(q)) /\ Cardinality(Changed(q)) \in Nat
      BY ChangedFinite
    <3>5. /\ IsFiniteSet(Changed(q) \cup {i})
          /\ Cardinality(Changed(q) \cup {i}) =
               IF i \in Changed(q) THEN Cardinality(Changed(q)) ELSE Cardinality(Changed(q)) + 1
      BY <3>4, FS_AddElement
    <3>6. Cardinality(Changed(q)') <= Cardinality(Changed(q) \cup {i})
          /\ Cardinality(Changed(q)') \in Nat
      BY <3>3, <3>5, FS_Subset, FS_CardinalityType
    <3> QED
      BY <3>2, <3>4, <3>5, <3>6
  <2> QED
    BY <2>1, <2>2
<1>7. Lists(q)' = Lists(q) /\ Listed(q)' = Listed(q)
  BY <1>1 DEF Lists, Listed
<1>8. ListOf(q)'
  <2> SUFFICES ASSUME Lists(q) PROVE ListOf(q)'
    BY <1>7 DEF ListOf
  <2>1. /\ Cardinality(Changed(q)') <= others'[q]
        /\ pc'[q] \in Statement => ~BadOrder(req[q])'
    BY <1>1, <1>2, <1>6 DEF ListOf
  <2>2. pc[q] = "rows" /\ HasSearch(req[q], controller) => CloseTo(q, total[q])'
    <3>1. CloseTo(q, total[q]) => CloseTo(q, total[q])'
      BY <1>1, <1>4
    <3> QED
      BY <3>1 DEF ListOf
  <2>3. pc[q] = "count" => PageRead(q, rows[q])'
    BY <1>1, <1>5 DEF ListOf
  <2>4. ASSUME Listed(q)
        PROVE  /\ PageRead(q, answer[q].ids)'
               /\ answer[q].totalRecords \in Nat
               /\ \/ CloseTo(q, answer[q].totalRecords)'
                  \/ answer[q].ids = << >> /\ answer[q].totalRecords = Skip(req[q])
               /\ answer[q].nextPage = IsNextPage(req[q], answer[q].totalRecords)
    <3>1. /\ PageRead(q, answer[q].ids)
          /\ answer[q].totalRecords \in Nat
          /\ \/ CloseTo(q, answer[q].totalRecords)
             \/ answer[q].ids = << >> /\ answer[q].totalRecords = Skip(req[q])
          /\ answer[q].nextPage = IsNextPage(req[q], answer[q].totalRecords)
      BY <2>4 DEF ListOf
    <3>2. CloseTo(q, answer[q].totalRecords) => CloseTo(q, answer[q].totalRecords)'
      BY <1>1, <1>4, <3>1
    <3>3. PageRead(q, answer[q].ids)'
      BY <1>1, <1>5, <3>1
    <3> QED
      BY <3>1, <3>2, <3>3
  <2> QED
    BY <1>1, <1>2, <1>7, <2>1, <2>2, <2>3, <2>4 DEF ListOf
<1>9. SessionOf(q)'
  <2>1. Session(q)' = Session(q) /\ FirstPage(q)' = FirstPage(q)
    BY <1>1 DEF Session, FirstPage
  <2> QED
    BY <1>1, <1>2, <1>3, <1>7, <2>1 DEF SessionOf
<1>10. RefusalOf(q)'
  BY <1>1, <1>2, <1>7 DEF RefusalOf
<1> QED
  BY <1>8, <1>9, <1>10

LEMMA TypesFrame ==
  ASSUME NEW q \in Client, Unmoved(q), TypesOf(q)
  PROVE  TypesOf(q)'
BY DEF Unmoved, TypesOf

-----------------------------------------------------------------------------
(* A listing's own steps                                                    *)

\* What p's client keeps through the steps of a listing.
Keeps(p) ==
  /\ UNCHANGED <<controller, table>>
  /\ req'[p] = req[p] /\ before'[p] = before[p] /\ others'[p] = others[p]

LEMMA KeepsFrame ==
  ASSUME NEW p \in Client, Keeps(p)
  PROVE  /\ Lists(p)' = Lists(p) /\ Changed(p)' = Changed(p)
         /\ Wanted(p)' = Wanted(p) /\ Ordering(p)' = Ordering(p)
         /\ BadOrder(req[p])' = BadOrder(req[p])
         /\ HasSearch(req[p], controller)' = HasSearch(req[p], controller)
         /\ \A n : CloseTo(p, n)' = CloseTo(p, n)
         /\ \A ids : PageRead(p, ids)' = PageRead(p, ids)
         /\ Quiet(p)' = Quiet(p)
<1>1. /\ Wanted(p)' = Wanted(p) /\ Ordering(p)' = Ordering(p)
      /\ BadOrder(req[p])' = BadOrder(req[p])
      /\ HasSearch(req[p], controller)' = HasSearch(req[p], controller)
  BY WantedFrame DEF Keeps
<1>2. Lists(p)' = Lists(p) /\ Changed(p)' = Changed(p) /\ Quiet(p)' = Quiet(p)
  BY DEF Keeps, Lists, Changed, Quiet
<1>3. \A n : CloseTo(p, n)' = CloseTo(p, n)
  BY <1>1 DEF Keeps, CloseTo
<1>4. \A ids : PageRead(p, ids)' = PageRead(p, ids)
  BY <1>1, <1>2 DEF Keeps, PageRead
<1> QED
  BY <1>1, <1>2, <1>3, <1>4

\* One page more in the session.
LEMMA SessionGrows ==
  ASSUME NEW p \in Client, received[p] \in Seq([page : Int, ids : Seq(Id)]),
         NEW n \in Int, NEW ids \in Seq(Id),
         received'[p] = Append(received[p], [page |-> n, ids |-> ids])
  PROVE  /\ received'[p] \in Seq([page : Int, ids : Seq(Id)])
         /\ received'[p] # << >> /\ Len(received'[p]) = Len(received[p]) + 1
         /\ Session(p) \in Seq(Id)
         /\ Session(p)' = Session(p) \o ids
         /\ FirstPage(p)' = IF received[p] = << >> THEN n ELSE received[p][1].page
<1> DEFINE A    == [page : Int, ids : Seq(Id)]
           old  == received[p]
           elt  == [page |-> n, ids |-> ids]
           lists == [k \in DOMAIN old |-> old[k].ids]
           more  == [k \in DOMAIN received'[p] |-> received'[p][k].ids]
<1>1. elt \in A
  OBVIOUS
<1>2. /\ old \in Seq(A) /\ Len(old) \in Nat /\ DOMAIN old = 1 .. Len(old)
      /\ \A k \in 1 .. Len(old) : old[k].ids \in Seq(Id)
  <2>1. old \in Seq(A)
    OBVIOUS
  <2>2. \A x \in A : x.ids \in Seq(Id)
    OBVIOUS
  <2> HIDE DEF A, old
  <2>3. /\ Len(old) \in Nat /\ DOMAIN old = 1 .. Len(old)
        /\ \A k \in 1 .. Len(old) : old[k] \in A
    BY <2>1, LenProperties, ElementOfSeq
  <2> QED
    BY <2>1, <2>2, <2>3
<1>3. /\ received'[p] \in Seq(A) /\ received'[p] # << >>
      /\ Len(received'[p]) = Len(old) + 1
      /\ DOMAIN received'[p] = 1 .. (Len(old) + 1)
      /\ \A k \in 1 .. Len(old) : received'[p][k] = old[k]
      /\ received'[p][Len(old) + 1] = elt
  BY <1>1, <1>2, AppendProperties, LenProperties, SMTT(30)
<1>4. lists \in Seq(Seq(Id)) /\ Len(lists) = Len(old)
  BY <1>2
<1>5. more = Append(lists, ids)
  <2>1. \A k \in 1 .. (Len(old) + 1) :
          more[k] = IF k \in 1 .. Len(old) THEN old[k].ids ELSE ids
    BY <1>2, <1>3
  <2>2. /\ Append(lists, ids) \in Seq(Seq(Id))
        /\ Len(Append(lists, ids)) = Len(old) + 1
        /\ \A k \in 1 .. Len(old) : Append(lists, ids)[k] = old[k].ids
        /\ Append(lists, ids)[Len(old) + 1] = ids
    BY <1>2, <1>4, AppendProperties
  <2>3. DOMAIN more = 1 .. (Len(old) + 1)
    BY <1>3
  <2>4. more \in Seq(Seq(Id)) /\ Len(more) = Len(old) + 1
    BY <1>2, <2>1, <2>3, SMTT(30)
  <2> HIDE DEF more, lists, old
  <2>5. \A k \in 1 .. (Len(old) + 1) : more[k] = Append(lists, ids)[k]
    BY <1>2, <2>1, <2>2
  <2> QED
    BY <1>2, <2>2, <2>4, <2>5, SeqEqual
<1>6. Session(p) = FlattenSeq(lists) /\ Session(p)' = FlattenSeq(more)
  BY DEF Session
<1>7. FirstPage(p)' = IF old = << >> THEN n ELSE old[1].page
  <2>1. CASE old = << >>
    <3>1. Len(old) = 0
      BY <2>1
    <3> QED
      BY <1>3, <2>1, <3>1 DEF FirstPage
  <2>2. CASE old # << >>
    <3>1. 1 \in 1 .. Len(old)
      BY <1>2, <2>2, EmptySeq
    <3> QED
      BY <1>3, <2>2, <3>1 DEF FirstPage
  <2> QED
    BY <2>1, <2>2
<1> HIDE DEF lists, more
<1>8. /\ Session(p) \in Seq(Id) /\ Session(p)' = Session(p) \o ids
  BY <1>4, <1>5, <1>6, FlattenSources, FlattenAppend
<1> QED
  BY <1>3, <1>7, <1>8

\* The page that follows the places that the session has filled fills the next.
LEMMA PageContinues ==
  ASSUME NEW U, IsFiniteSet(U), NEW R, NEW s \in Seq(Id), NEW ids \in Seq(Id),
         NEW skip \in Nat, NEW limit \in Nat, Len(ids) <= limit,
         Fills(s, U, R), Len(s) = skip, skip <= Cardinality(U), IsPage(ids, U, R, skip, limit)
  PROVE  /\ Fills(s \o ids, U, R)
         /\ Len(s \o ids) = IF Cardinality(U) <= skip + limit
                              THEN Cardinality(U) ELSE skip + limit
<1> DEFINE m == Len(ids)
           N == Cardinality(U)
<1>1. /\ m \in Nat /\ Len(s \o ids) = skip + m
      /\ \A k \in 1 .. (skip + m) :
           (s \o ids)[k] = IF k <= skip THEN s[k] ELSE ids[k - skip]
  BY LenProperties, ConcatProperties
<1>2. N \in Nat
  BY FS_CardinalityType
<1>3. /\ \A k \in 1 .. m : HasPlace(U, R, ids[k], skip + k)
      /\ m < limit => N <= skip + m
  BY DEF IsPage
<1>4. m > 0 => skip + m <= N
  <2> SUFFICES ASSUME m > 0 PROVE skip + m <= N
    OBVIOUS
  <2> DEFINE L == NotLaterIn(U, R, ids[m])
  <2>1. m \in 1 .. m
    BY <1>1
  <2>2. skip + m <= Cardinality(L)
    BY <1>3, <2>1 DEF HasPlace
  <2>3. L \in SUBSET U
    BY DEF NotLaterIn
  <2> HIDE DEF L, m
  <2>4. Cardinality(L) <= N /\ Cardinality(L) \in Nat
    BY <2>3, FS_Subset, FS_CardinalityType
  <2> QED
    BY <1>1, <1>2, <2>2, <2>4
<1> HIDE DEF m, N
<1>5. ASSUME NEW k \in 1 .. (skip + m)
      PROVE  HasPlace(U, R, (s \o ids)[k], k)
  <2>1. CASE k <= skip
    <3>1. k \in 1 .. Len(s) /\ (s \o ids)[k] = s[k]
      BY <1>1, <2>1
    <3> QED
      BY <3>1 DEF Fills
  <2>2. CASE ~(k <= skip)
    <3>1. k - skip \in 1 .. m /\ skip + (k - skip) = k
      BY <1>1, <2>2
    <3> QED
      BY <1>1, <1>3, <2>2, <3>1
  <2> QED
    BY <2>1, <2>2
<1>6. skip + m = IF N <= skip + limit THEN N ELSE skip + limit
  <2>1. m <= limit /\ skip <= N
    BY DEF m, N
  <2> QED
    BY <1>1, <1>2, <1>3, <1>4, <2>1
<1> QED
  BY <1>1, <1>5, <1>6 DEF N, Fills

\* p has read its page and answers.
LEMMA ListAnswers ==
  ASSUME IInv, NEW p \in Client, Lists(p), pc[p] \in {"rows", "count"}, Keeps(p),
         NEW ids, NEW count \in Nat, List(p, ids, count), PageRead(p, ids),
         CloseTo(p, count) \/ (ids = << >> /\ count = Skip(req[p]))
  PROVE  ListOf(p)' /\ SessionOf(p)' /\ RefusalOf(p)'
<1> DEFINE q == req[p]
           a == [status |-> 200, ids |-> ids, totalRecords |-> count,
                 nextPage |-> IsNextPage(q, count), prevPage |-> Page(q) - 1 > 0]
<1>1. /\ Shapes /\ Types /\ TypesOf(p) /\ ListOf(p) /\ SessionOf(p)
      /\ q \in ListRequest /\ before[p] \in Table
  BY DEF IInv, WorkInv, Types, TypesOf, Lists
<1>2. /\ pc'[p] = "answered" /\ answer'[p] = a
      /\ received'[p] = Append(received[p], [page |-> Page(q), ids |-> ids])
  BY <1>1 DEF List, Answer, Goto, Shapes, Types
<1>3. /\ answer'[p].status = 200 /\ answer'[p].ids = ids
      /\ answer'[p].totalRecords = count
      /\ answer'[p].nextPage = IsNextPage(q, count)
  BY <1>2
<1> HIDE DEF a
<1>4. /\ ids \in Seq(Id) /\ Executable(q, controller)
      /\ Page(q) \in Nat /\ Skip(q) \in Nat /\ Limit(q) \in Nat \ {0}
      /\ Len(ids) <= Limit(q)
  BY <1>1, SkipAndLimit DEF PageRead
<1>5. req'[p] = q
  BY DEF Keeps
<1> HIDE DEF q
<1>6. ListOf(p)'
  <2>1. Cardinality(Changed(p)') <= others'[p]
    <3>1. Changed(p)' = Changed(p) /\ others'[p] = others[p]
      BY KeepsFrame DEF Keeps
    <3> QED
      BY <1>1, <3>1 DEF ListOf
  <2>2. PageRead(p, ids)' /\ (CloseTo(p, count)' = CloseTo(p, count))
    BY KeepsFrame
  <2>3. PageRead(p, answer[p].ids)'
    BY <1>3, <2>2
  <2>4. answer'[p].totalRecords \in Nat
    BY <1>3
  <2>5. \/ CloseTo(p, answer[p].totalRecords)'
        \/ answer'[p].ids = << >> /\ answer'[p].totalRecords = Skip(req'[p])
    BY <1>3, <1>5, <2>2 DEF q
  <2>6. answer'[p].nextPage = IsNextPage(req'[p], answer'[p].totalRecords)
    BY <1>3, <1>5
  <2> QED
    BY <1>2, <2>1, <2>3, <2>4, <2>5, <2>6 DEF ListOf, Statement
<1>7. SessionOf(p)'
  <2>1. received[p] \in Seq([page : Int, ids : Seq(Id)])
    BY <1>1 DEF SessionOf
  <2>2. /\ received'[p] \in Seq([page : Int, ids : Seq(Id)])
        /\ received'[p] # << >> /\ Len(received'[p]) = Len(received[p]) + 1
        /\ Session(p) \in Seq(Id)
        /\ Session(p)' = Session(p) \o ids
        /\ FirstPage(p)' = FirstPage(p)
    <3>1. Page(q) \in Int
      BY <1>4
    <3>2. /\ received'[p] \in Seq([page : Int, ids : Seq(Id)])
          /\ received'[p] # << >> /\ Len(received'[p]) = Len(received[p]) + 1
          /\ Session(p) \in Seq(Id)
          /\ Session(p)' = Session(p) \o ids
          /\ FirstPage(p)' = IF received[p] = << >> THEN Page(q) ELSE received[p][1].page
      BY <1>2, <1>4, <2>1, <3>1, SessionGrows
    <3>3. FirstPage(p) = IF received[p] = << >> THEN Page(q) ELSE received[p][1].page
      BY DEF FirstPage, q
    <3> QED
      BY <3>2, <3>3
  <2> SUFFICES ASSUME Quiet(p)', FirstPage(p)' = 1
               PROVE  LET pages == Len(received'[p])
                          limit == Limit(req'[p])
                          all   == Cardinality(Wanted(p)')
                      IN  /\ Fills(Session(p)', Wanted(p)', Ordering(p)')
                          /\ Page(req'[p]) = pages
                          /\ Len(Session(p)') =
                               IF all <= pages * limit THEN all ELSE pages * limit
    BY <1>2, <2>2 DEF SessionOf, Statement
  <2> DEFINE pages == Len(received[p])
             all   == Cardinality(Wanted(p))
  <2>3. /\ Fills(Session(p), Wanted(p), Ordering(p))
        /\ Page(q) = pages + 1 /\ Len(Session(p)) = pages * Limit(q)
        /\ pages > 0 => Len(Session(p)) <= all
        /\ IsPage(ids, Wanted(p), Ordering(p), Skip(q), Limit(q))
    <3>1. Quiet(p) /\ FirstPage(p) = 1
      BY <2>2, KeepsFrame
    <3>2. pc[p] \in Statement
      BY DEF Statement
    <3>3. IsPage(ids, Wanted(p), Ordering(p), Skip(q), Limit(q))
      BY <3>1 DEF PageRead, q
    <3> QED
      BY <1>1, <3>1, <3>2, <3>3 DEF SessionOf, q
  <2>4. pages \in Nat
    BY <2>1, LenProperties
  <2>5. IsFiniteSet(Wanted(p)) /\ all \in Nat
    BY <1>1, MatchingFinite DEF Wanted
  <2>6. Page(q) > 0 /\ Page(q) - 1 = pages
    BY <2>3, <2>4
  <2>7. Len(Session(p)) = Skip(q) /\ (pages + 1) * Limit(q) = Skip(q) + Limit(q)
    <3>1. /\ Skip(q) = (Page(q) - 1) * Limit(q)
          /\ Page(q) * Limit(q) = Skip(q) + Limit(q)
      BY <1>1, <1>4, <2>6, SkipAndLimit
    <3> QED
      BY <2>3, <2>6, <3>1
  <2>8. Skip(q) <= all
    <3>1. CASE pages = 0
      BY <1>4, <2>3, <2>5, <2>7, <3>1
    <3>2. CASE pages # 0
      BY <2>3, <2>4, <2>7, <3>2
    <3> QED
      BY <3>1, <3>2
  <2> HIDE DEF pages
  <2>9. /\ Fills(Session(p) \o ids, Wanted(p), Ordering(p))
        /\ Len(Session(p) \o ids) = IF all <= Skip(q) + Limit(q)
                                      THEN all ELSE Skip(q) + Limit(q)
    <3> DEFINE U == Wanted(p)
               R == Ordering(p)
               s == Session(p)
               skip == Skip(q)
               limit == Limit(q)
    <3>1. /\ skip \in Nat /\ limit \in Nat /\ s \in Seq(Id) /\ ids \in Seq(Id)
          /\ Len(ids) <= limit /\ Len(s) = skip
      BY <1>4, <2>2, <2>7
    <3>2. /\ Fills(s, U, R)
          /\ IsPage(ids, U, R, skip, limit)
      BY <2>3
    <3>3. IsFiniteSet(U) /\ skip <= Cardinality(U)
      BY <2>5, <2>8
    <3> HIDE DEF U, R, s, skip, limit, all
    <3>4. /\ Fills(s \o ids, U, R)
          /\ Len(s \o ids) = IF Cardinality(U) <= skip + limit
                               THEN Cardinality(U) ELSE skip + limit
      BY ONLY <3>1, <3>2, <3>3, PageContinues
    <3> QED
      BY <3>4 DEF all, U, R, s, skip, limit
  <2>10. Wanted(p)' = Wanted(p) /\ Ordering(p)' = Ordering(p)
    BY KeepsFrame
  <2> QED
    BY <1>5, <2>2, <2>3, <2>7, <2>9, <2>10 DEF pages, all
<1>8. RefusalOf(p)'
  BY <1>3 DEF RefusalOf
<1> QED
  BY <1>6, <1>7, <1>8

\* Without writes of others a next page is announced exactly when rows are left.
LEMMA NextExact ==
  ASSUME NEW p \in Client, TypesOf(p), others[p] \in Nat, ListOf(p),
         Listed(p), Quiet(p), Page(req[p]) > 0
  PROVE  answer[p].nextPage <=> Page(req[p]) * Limit(req[p]) < Cardinality(Wanted(p))
<1> DEFINE q == req[p]
           n == answer[p].totalRecords
           w == Cardinality(Wanted(p))
<1>1. /\ q \in ListRequest /\ before[p] \in Table
      /\ PageRead(p, answer[p].ids) /\ n \in Nat
      /\ CloseTo(p, n) \/ (answer[p].ids = << >> /\ n = Skip(q))
      /\ answer[p].nextPage = IsNextPage(q, n)
  BY DEF TypesOf, ListOf, Lists, Listed
<1>2. w \in Nat
  BY <1>1, MatchingFinite DEF Wanted
<1>3. /\ Executable(q, controller)
      /\ IsPage(answer[p].ids, Wanted(p), Ordering(p), Skip(q), Limit(q))
  BY <1>1 DEF PageRead
<1>4. /\ Skip(q) \in Nat /\ Limit(q) \in Nat \ {0}
      /\ Page(q) * Limit(q) = Skip(q) + Limit(q)
  BY <1>1, <1>3, SkipAndLimit
<1>5. IsNextPage(q, n) <=> Page(q) * Limit(q) < n
  <2> HIDE DEF q, n
  <2> QED
    BY <1>1, <1>3, NextPageWhenLeft DEF q
<1>6. CASE CloseTo(p, n)
  <2>1. n - w \in (-others[p]) .. others[p] /\ others[p] = 0
    BY <1>6 DEF CloseTo, Quiet
  <2> HIDE DEF n, w, q
  <2>2. n = w
    BY <1>1, <1>2, <2>1
  <2> QED
    BY <1>1, <1>5, <2>2 DEF w, q
<1>7. CASE answer[p].ids = << >> /\ n = Skip(q)
  <2>1. w <= Skip(q) + 0
    <3>1. Len(answer[p].ids) = 0
      BY <1>7
    <3> QED
      BY <1>3, <1>4, <3>1 DEF IsPage
  <2> HIDE DEF n, w, q
  <2>2. ~(Page(q) * Limit(q) < n) /\ ~(Page(q) * Limit(q) < w)
    BY <1>2, <1>4, <1>7, <2>1
  <2> QED
    BY <1>1, <1>5, <2>2 DEF w, q
<1> QED
  BY <1>1, <1>6, <1>7

\* Nothing is left to show of a client that does not list.
LEMMA ListsNoMore ==
  ASSUME NEW p \in Client, ~Lists(p)'
  PROVE  ListOf(p)' /\ SessionOf(p)' /\ RefusalOf(p)'
BY DEF ListOf, SessionOf, RefusalOf

\* The session stays what it is while a listing moves on to its page or fails.
LEMMA SessionStays ==
  ASSUME NEW p \in Client, Keeps(p), SessionOf(p), received'[p] = received[p],
         pc[p] \in {"repository"} \cup Statement, ~Listed(p)'
  PROVE  SessionOf(p)'
<1>1. /\ Lists(p)' = Lists(p) /\ Quiet(p)' = Quiet(p)
      /\ Wanted(p)' = Wanted(p) /\ Ordering(p)' = Ordering(p)
  BY KeepsFrame
<1>2. req'[p] = req[p]
  BY DEF Keeps
<1>3. Session(p)' = Session(p) /\ FirstPage(p)' = FirstPage(p)
  BY <1>2 DEF Session, FirstPage
<1> QED
  BY <1>1, <1>2, <1>3 DEF SessionOf

\* A listing gets nowhere near its page.
LEMMA ListStays ==
  ASSUME NEW p \in Client, Keeps(p), ListOf(p),
         pc'[p] \in Statement => ~BadOrder(req[p]),
         pc'[p] \notin {"rows", "count"}, ~Listed(p)'
  PROVE  ListOf(p)'
<1>1. /\ Lists(p)' = Lists(p) /\ Changed(p)' = Changed(p)
      /\ BadOrder(req[p])' = BadOrder(req[p])
  BY KeepsFrame
<1>2. others'[p] = others[p]
  BY DEF Keeps
<1> QED
  BY <1>1, <1>2 DEF ListOf

LEMMA BeginLists ==
  ASSUME IInv, NEW p \in Client, NEW r \in Requests, Begin(p, r)
  PROVE  ListOf(p)' /\ SessionOf(p)' /\ RefusalOf(p)'
<1>1. /\ Shapes /\ Types /\ TypesOf(p)
  BY DEF IInv, WorkInv, Types
<1>2. /\ controller' = controller /\ table' = table
      /\ req'[p] = r /\ before'[p] = table /\ others'[p] = 0
      /\ received'[p] = << >>
      /\ PassMiddlewares(p, r)
  BY <1>1 DEF Begin, Shapes, dataVars, TypesOf
<1>3. /\ pc'[p] \in {"answered", "repository"}
      /\ pc'[p] = "answered" => answer'[p].status \in {400, 422}
      /\ pc'[p] = "answered" /\ answer'[p].status = 422 => ~Validated(r)
  BY <1>1, <1>2 DEF PassMiddlewares, Answer, Goto, Shapes
<1>4. ~Listed(p)' /\ pc'[p] \notin Statement
  BY <1>3 DEF Listed, Statement
<1>5. ListOf(p)'
  <2>1. Changed(p)' = {}
    BY <1>2 DEF Changed
  <2>2. Cardinality(Changed(p)') = 0
    BY <2>1, FS_EmptySet
  <2> QED
    BY <1>2, <1>3, <1>4, <2>2 DEF ListOf
<1>6. SessionOf(p)'
  <2>1. received'[p] \in Seq([page : Int, ids : Seq(Id)]) /\ Len(received'[p]) = 0
    BY <1>2
  <2>2. Session(p)' = << >> /\ Len(Session(p)') = 0
    <3>1. [n \in DOMAIN received'[p] |-> received'[p][n].ids] = << >>
      BY <1>2
    <3>2. Session(p)' = FlattenSeq(<< >>)
      BY <3>1 DEF Session
    <3>3. Session(p)' = << >>
      BY <3>2, FlattenNone
    <3> QED
      BY <3>3
  <2>3. Fills(Session(p)', Wanted(p)', Ordering(p)')
    BY <2>2 DEF Fills
  <2>4. FirstPage(p)' = Page(r)
    BY <1>2 DEF FirstPage
  <2>5. Lists(p)' => 0 * Limit(r) = 0
    <3>1. Lists(p)' => r \in ListRequest
      BY <1>2, RequestsAreRequests DEF Lists
    <3>2. r \in ListRequest => Limit(r) \in Int
      BY DEF ListRequest, Limit
    <3> QED
      BY <3>1, <3>2
  <2> QED
    BY <1>2, <1>4, <2>1, <2>2, <2>3, <2>4, <2>5 DEF SessionOf
<1>7. RefusalOf(p)'
  BY <1>2, <1>3 DEF RefusalOf, Validated, Lists
<1> QED
  BY <1>5, <1>6, <1>7

\* The page after the first ones, which are full if it is announced.
LEMMA FollowLists ==
  ASSUME IInv, NEW p \in Client, FollowNextPage(p)
  PROVE  ListOf(p)' /\ SessionOf(p)' /\ RefusalOf(p)'
<1> DEFINE q == req[p]
<1>1. /\ Shapes /\ Types /\ TypesOf(p) /\ ListOf(p) /\ SessionOf(p)
      /\ others[p] \in Nat
  BY DEF IInv, WorkInv, Types, Shapes
<1>2. /\ pc[p] = "answered" /\ q.kind = "index" /\ answer[p].status = 200
      /\ answer[p].nextPage /\ Listed(p) /\ Lists(p)
      /\ q \in ListRequest /\ before[p] \in Table
  BY <1>1 DEF FollowNextPage, Listed, Lists, TypesOf
<1>3. /\ controller' = controller /\ table' = table
      /\ req'[p] = [q EXCEPT !.page = Page(q) + 1, !.getAll = FALSE]
      /\ pc'[p] = "repository" /\ answer' = answer
      /\ received' = received /\ before' = before /\ others' = others
  BY <1>1 DEF FollowNextPage, Goto, Shapes, dataVars, noteVars
<1>4. /\ req'[p].kind = q.kind /\ req'[p].search = q.search
      /\ req'[p].where = q.where /\ req'[p].sort = q.sort
      /\ req'[p].order = q.order /\ req'[p].limit = q.limit
      /\ req'[p].page = Page(q) + 1 /\ req'[p].getAll = FALSE
  BY <1>2, <1>3 DEF ListRequest
<1>5. PageRead(p, answer[p].ids) /\ Executable(q, controller)
  BY <1>1, <1>2 DEF ListOf, PageRead
<1> HIDE DEF q
<1>6. Page(q) \in Nat /\ Limit(q) \in Nat \ {0} /\ Skip(q) \in Nat
  BY <1>2, <1>5, SkipAndLimit
<1>7. Page(req'[p]) = Page(q) + 1
  BY <1>4 DEF Page
<1>8. Page(q) > 0 => Limit(req'[p]) = Limit(q)
  BY <1>4, <1>6, <1>7 DEF Limit
<1>9. Wanted(p)' = Wanted(p) /\ Ordering(p)' = Ordering(p)
  BY <1>3, <1>4, WantedFrame DEF q
<1>10. ~Listed(p)' /\ pc'[p] \notin Statement
  BY <1>3 DEF Listed, Statement
<1>11. ListOf(p)'
  <2>1. Changed(p)' = Changed(p)
    BY <1>3 DEF Changed
  <2> QED
    BY <1>1, <1>2, <1>3, <1>10, <2>1 DEF ListOf, Statement
<1>12. SessionOf(p)'
  <2> DEFINE pages == Len(received[p])
             all   == Cardinality(Wanted(p))
  <2>1. received[p] \in Seq([page : Int, ids : Seq(Id)]) /\ received[p] # << >>
    BY <1>1, <1>2 DEF SessionOf
  <2>2. pages \in Nat /\ pages > 0
    BY <2>1, LenProperties, EmptySeq
  <2>3. Session(p)' = Session(p) /\ FirstPage(p)' = FirstPage(p) /\ Quiet(p)' = Quiet(p)
    BY <1>3, <2>1 DEF Session, FirstPage, Quiet
  <2>4. ASSUME Quiet(p), FirstPage(p) = 1
        PROVE  /\ Fills(Session(p), Wanted(p), Ordering(p))
               /\ Page(req'[p]) = pages + 1
               /\ Len(Session(p)) = pages * Limit(req'[p])
               /\ Len(Session(p)) <= all
    <3>1. /\ Fills(Session(p), Wanted(p), Ordering(p))
          /\ Page(q) = pages
          /\ Len(Session(p)) = IF all <= pages * Limit(q) THEN all ELSE pages * Limit(q)
      BY <1>1, <1>2, <2>4 DEF SessionOf, q
    <3>2. Page(q) * Limit(q) < all
      BY <1>1, <1>2, <2>2, <2>4, <3>1, NextExact DEF q
    <3>3. all \in Nat /\ pages * Limit(q) \in Int
      BY <1>2, <1>6, <2>2, MatchingFinite DEF Wanted
    <3> HIDE DEF pages, all
    <3> QED
      BY <1>7, <1>8, <2>2, <3>1, <3>2, <3>3
  <2> QED
    BY <1>3, <1>9, <1>10, <2>1, <2>3, <2>4 DEF SessionOf
<1>13. RefusalOf(p)'
  BY <1>3 DEF RefusalOf
<1> QED
  BY <1>11, <1>12, <1>13


\* What all steps of a listing that is under way start from.
LEMMA UnderWay ==
  ASSUME IInv, NEW p \in Client, Lists(p)
  PROVE  /\ Shapes /\ Types /\ TypesOf(p) /\ ListOf(p) /\ SessionOf(p)
         /\ req[p] \in ListRequest /\ before[p] \in Table /\ table \in Table
         /\ others[p] \in Nat /\ total[p] \in Nat
         /\ Cardinality(Changed(p)) <= others[p]
         /\ CloseTo(p, Cardinality(Matches(p))) /\ Cardinality(Matches(p)) \in Nat
<1>1. /\ Shapes /\ Types /\ TypesOf(p) /\ ListOf(p) /\ SessionOf(p)
      /\ req[p] \in ListRequest /\ before[p] \in Table /\ table \in Table
      /\ others[p] \in Nat /\ total[p] \in Nat
  BY DEF IInv, WorkInv, Types, TypesOf, Lists, Shapes
<1>2. Cardinality(Changed(p)) <= others[p]
  BY <1>1 DEF ListOf
<1>3. CloseTo(p, Cardinality(Matches(p))) /\ Cardinality(Matches(p)) \in Nat
  BY <1>1, <1>2, MatchesClose, MatchingFinite DEF Matches
<1> QED
  BY <1>1, <1>2, <1>3

LEMMA RepositoryLists ==
  ASSUME IInv, NEW p \in Client, Lists(p), GetRepository(p)
  PROVE  ListOf(p)' /\ SessionOf(p)' /\ RefusalOf(p)'
<1>1. Shapes /\ ListOf(p) /\ SessionOf(p) /\ req[p].kind = "index"
  BY UnderWay DEF Lists
<1>2. Keeps(p) /\ received'[p] = received[p] /\ pc[p] = "repository"
  BY DEF GetRepository, Keeps, dataVars, noteVars
<1>3. \/ BadOrder(req[p]) /\ Answer(p, [status |-> 422])
      \/ /\ ~BadOrder(req[p])
         /\ Goto(p, IF HasSearch(req[p], controller) THEN "countFirst" ELSE "rows")
  BY <1>1 DEF GetRepository
<1>4. /\ BadOrder(req[p])' = BadOrder(req[p])
      /\ HasSearch(req[p], controller)' = HasSearch(req[p], controller)
      /\ Changed(p)' = Changed(p) /\ Lists(p)' = Lists(p)
  BY <1>2, KeepsFrame
<1>5. CASE BadOrder(req[p]) /\ Answer(p, [status |-> 422])
  <2>1. pc'[p] = "answered" /\ answer'[p].status = 422
    BY <1>1, <1>5 DEF Answer, Goto, Shapes
  <2>2. ~Listed(p)' /\ pc'[p] \notin Statement
    BY <2>1 DEF Listed, Statement
  <2>3. ListOf(p)'
    BY <1>1, <1>2, <2>1, <2>2, ListStays
  <2>4. SessionOf(p)'
    BY <1>1, <1>2, <2>2, SessionStays
  <2>5. RefusalOf(p)'
    BY <1>4, <1>5 DEF RefusalOf
  <2> QED
    BY <2>3, <2>4, <2>5
<1>6. CASE /\ ~BadOrder(req[p])
           /\ Goto(p, IF HasSearch(req[p], controller) THEN "countFirst" ELSE "rows")
  <2>1. pc'[p] = IF HasSearch(req[p], controller) THEN "countFirst" ELSE "rows"
    BY <1>1, <1>6 DEF Goto, Shapes
  <2>2. ~Listed(p)' /\ pc'[p] # "answered"
    BY <2>1 DEF Listed
  <2>3. ListOf(p)'
    <3>1. others'[p] = others[p]
      BY <1>2 DEF Keeps
    <3>2. ~(pc'[p] = "rows" /\ HasSearch(req[p], controller)') /\ pc'[p] # "count"
      BY <1>4, <2>1
    <3> QED
      BY <1>1, <1>4, <1>6, <2>2, <3>1, <3>2 DEF ListOf
  <2>4. SessionOf(p)'
    BY <1>1, <1>2, <2>2, SessionStays
  <2>5. RefusalOf(p)'
    BY <2>2 DEF RefusalOf
  <2> QED
    BY <2>3, <2>4, <2>5
<1> QED
  BY <1>3, <1>5, <1>6

LEMMA CountFirstLists ==
  ASSUME IInv, NEW p \in Client, Lists(p), GetCount(p)
  PROVE  ListOf(p)' /\ SessionOf(p)' /\ RefusalOf(p)'
<1> DEFINE n == Cardinality(Matches(p))
<1>1. /\ Shapes /\ Types /\ ListOf(p) /\ SessionOf(p) /\ CloseTo(p, n)
  BY UnderWay
<1>2. Keeps(p) /\ received'[p] = received[p] /\ pc[p] = "countFirst"
  BY DEF GetCount, Keeps, dataVars, noteVars
<1>3. pc'[p] = "rows" /\ total'[p] = n
  BY <1>1 DEF GetCount, Goto, Shapes, Types
<1> HIDE DEF n
<1>4. /\ BadOrder(req[p])' = BadOrder(req[p])
      /\ Changed(p)' = Changed(p) /\ Lists(p)' = Lists(p)
  BY <1>2, KeepsFrame
<1>5. ~Listed(p)' /\ pc'[p] # "answered"
  BY <1>3 DEF Listed
<1>6. ListOf(p)'
  <2>1. CloseTo(p, total[p])'
    <3>1. Wanted(p)' = Wanted(p)
      BY <1>2, KeepsFrame
    <3> QED
      BY <1>1, <1>2, <1>3, <3>1 DEF CloseTo, Keeps
  <2>2. others'[p] = others[p] /\ ~BadOrder(req[p])
    BY <1>1, <1>2 DEF ListOf, Keeps, Statement
  <2> QED
    BY <1>1, <1>3, <1>4, <1>5, <2>1, <2>2 DEF ListOf
<1>7. SessionOf(p)'
  BY <1>1, <1>2, <1>5, SessionStays DEF Statement
<1>8. RefusalOf(p)'
  BY <1>5 DEF RefusalOf
<1> QED
  BY <1>6, <1>7, <1>8

LEMMA RowsLists ==
  ASSUME IInv, NEW p \in Client, Lists(p), GetMany(p)
  PROVE  ListOf(p)' /\ SessionOf(p)' /\ RefusalOf(p)'
<1> DEFINE q == req[p]
<1>1. /\ Shapes /\ Types /\ ListOf(p) /\ SessionOf(p) /\ q \in ListRequest
      /\ others[p] \in Nat /\ total[p] \in Nat
      /\ Cardinality(Changed(p)) <= others[p]
      /\ CloseTo(p, Cardinality(Matches(p))) /\ Cardinality(Matches(p)) \in Nat
  BY UnderWay
<1>2. /\ Keeps(p) /\ pc[p] = "rows" /\ Executable(q, controller)
  BY DEF GetMany, Keeps, dataVars
<1>3. ~BadOrder(q)
  BY <1>1, <1>2 DEF ListOf, Statement
<1>4. PICK s \in Sorted(table, OrderOf(q, controller), Matches(p)) :
        LET ids == Cut(q, s)
        IN  /\ rows' = [rows EXCEPT ![p] = ids]
            /\ \/ /\ HasSearch(q, controller)
                  /\ List(p, ids, total[p])
                  /\ UNCHANGED total
               \/ /\ ~HasSearch(q, controller)
                  /\ Len(ids) < Limit(q)
                  /\ total' = [total EXCEPT ![p] = LazyCount(q, ids)]
                  /\ List(p, ids, LazyCount(q, ids))
               \/ /\ ~HasSearch(q, controller)
                  /\ Len(ids) = Limit(q) \/ (ids = << >> /\ Skip(q) > 0)
                  /\ Goto(p, "count")
                  /\ UNCHANGED <<total, answer, received>>
  BY DEF GetMany
<1> DEFINE n == Cardinality(Matches(p))
<1>5. PICK ids : ids = Cut(q, s)
  OBVIOUS
<1>6. /\ PageRead(p, ids) /\ Len(ids) \in Nat
      /\ Len(ids) < Limit(q) => n <= Skip(q) + Len(ids)
      /\ Len(ids) > 0 => Skip(q) + Len(ids) <= n
  BY <1>1, <1>2, <1>3, <1>5, RowsRead
<1>7. Skip(q) \in Nat
  BY <1>1, <1>2, SkipAndLimit
<1> HIDE DEF n
<1>8. CASE HasSearch(q, controller) /\ List(p, ids, total[p])
  <2>1. CloseTo(p, total[p])
    BY <1>1, <1>2, <1>8 DEF ListOf
  <2> QED
    BY <1>1, <1>2, <1>6, <1>8, <2>1, ListAnswers
<1>9. CASE Len(ids) < Limit(q) /\ List(p, ids, LazyCount(q, ids))
  <2>1. LazyCount(q, ids) = Skip(q) + Len(ids) /\ LazyCount(q, ids) \in Nat
    BY <1>6, <1>7 DEF LazyCount
  <2>2. CloseTo(p, LazyCount(q, ids)) \/ (ids = << >> /\ LazyCount(q, ids) = Skip(q))
    <3>1. CASE Len(ids) > 0
      <4>1. LazyCount(q, ids) = n
        BY <1>1, <1>6, <1>7, <1>9, <2>1, <3>1 DEF n
      <4> QED
        BY <1>1, <4>1 DEF n
    <3>2. CASE ~(Len(ids) > 0)
      <4>1. Len(ids) = 0 /\ ids \in Seq(Id)
        BY <1>6, <3>2 DEF PageRead
      <4>2. ids = << >>
        BY <4>1, EmptySeq
      <4> QED
        BY <1>7, <2>1, <4>1, <4>2
    <3> QED
      BY <3>1, <3>2
  <2> QED
    BY <1>2, <1>6, <1>9, <2>1, <2>2, ListAnswers
<1>10. CASE Goto(p, "count") /\ rows' = [rows EXCEPT ![p] = ids] /\ UNCHANGED received
  <2>1. pc'[p] = "count" /\ rows'[p] = ids /\ received'[p] = received[p]
    BY <1>1, <1>10 DEF Goto, Shapes, Types
  <2>2. /\ PageRead(p, ids)' /\ Lists(p)' = Lists(p) /\ Changed(p)' = Changed(p)
        /\ BadOrder(req[p])' = BadOrder(req[p])
    BY <1>2, <1>6, KeepsFrame
  <2>3. ~Listed(p)' /\ pc'[p] # "answered"
    BY <2>1 DEF Listed
  <2>4. ListOf(p)'
    <3>1. others'[p] = others[p]
      BY <1>2 DEF Keeps
    <3>2. PageRead(p, rows[p])'
      BY <2>1, <2>2
    <3> QED
      BY <1>1, <1>3, <2>1, <2>2, <2>3, <3>1, <3>2 DEF ListOf
  <2>5. SessionOf(p)'
    BY <1>1, <1>2, <2>1, <2>3, SessionStays DEF Statement
  <2>6. RefusalOf(p)'
    BY <2>3 DEF RefusalOf
  <2> QED
    BY <2>4, <2>5, <2>6
<1> QED
  BY <1>4, <1>8, <1>9, <1>10, <1>5

LEMMA CountLists ==
  ASSUME IInv, NEW p \in Client, Lists(p), CountRows(p)
  PROVE  ListOf(p)' /\ SessionOf(p)' /\ RefusalOf(p)'
<1> DEFINE n == Cardinality(Matches(p))
<1>1. ListOf(p) /\ CloseTo(p, n) /\ n \in Nat
  BY UnderWay
<1>2. Keeps(p) /\ pc[p] = "count" /\ List(p, rows[p], n)
  BY DEF CountRows, Keeps, dataVars
<1>3. PageRead(p, rows[p])
  BY <1>1, <1>2 DEF ListOf
<1> HIDE DEF n
<1> QED
  BY <1>1, <1>2, <1>3, ListAnswers

\* A listing fails by a fault or for what the database does not know.
LEMMA FailLists ==
  ASSUME IInv, NEW p \in Client, Lists(p), Fail(p)
  PROVE  ListOf(p)' /\ SessionOf(p)' /\ RefusalOf(p)'
<1>1. Shapes /\ Types /\ ListOf(p) /\ SessionOf(p)
  BY UnderWay
<1>2. /\ Keeps(p) /\ received'[p] = received[p]
      /\ pc[p] \in {"repository"} \cup Statement
  BY DEF Fail, Keeps, dataVars
<1>3. /\ pc'[p] = "answered" /\ answer'[p].status = 422
      /\ fault'[p] = (req[p].kind = "index" => Executable(req[p], controller))
  BY <1>1 DEF Fail, Answer, Goto, Shapes, Types
<1>4. ~Listed(p)' /\ pc'[p] \notin Statement
  BY <1>3 DEF Listed, Statement
<1>5. ListOf(p)'
  BY <1>1, <1>2, <1>3, <1>4, ListStays
<1>6. SessionOf(p)'
  BY <1>1, <1>2, <1>4, SessionStays
<1>7. RefusalOf(p)'
  BY <1>2, <1>3 DEF RefusalOf, Keeps, Lists
<1> QED
  BY <1>5, <1>6, <1>7


-----------------------------------------------------------------------------
(* Types                                                                    *)

\* An entity of row i, with some columns set by data.
LEMMA AssignIsEntity ==
  ASSUME table \in Table, NEW i \in Id, table[i] # None, NEW data, IsData(data)
  PROVE  /\ IsEntity(Assign(Entity(i), data))
         /\ "id" \in DOMAIN Assign(Entity(i), data)
         /\ DOMAIN Assign(Entity(i), data) \subseteq Column
<1> DEFINE e == Entity(i)
           a == Assign(e, data)
<1>1. table[i] \in Row
  BY DEF Table
<1>2. /\ DOMAIN e = {"id", "name", "at"}
      /\ e["id"] = i /\ e["name"] \in Name /\ e["at"] \in At
  BY <1>1 DEF Entity, Row
<1>3. /\ DOMAIN data \subseteq Column
      /\ "id" \in DOMAIN data => data["id"] \in Id
      /\ "name" \in DOMAIN data => data["name"] \in Name
      /\ "at" \in DOMAIN data => data["at"] \in At
  BY DEF IsData
<1>4. /\ DOMAIN a = DOMAIN e \cup DOMAIN data
      /\ \A col \in DOMAIN e \cup DOMAIN data :
           a[col] = IF col \in DOMAIN data THEN data[col] ELSE e[col]
  BY DEF Assign
<1> HIDE DEF a, e
<1>5. DOMAIN a = {"id", "name", "at"}
  BY <1>2, <1>3, <1>4 DEF Column
<1>6. a["id"] \in Id /\ a["name"] \in Name /\ a["at"] \in At
  BY <1>2, <1>3, <1>4, <1>5
<1>7. IsEntity(a)
  BY <1>5, <1>6 DEF IsEntity, IsData, Column
<1> QED
  BY <1>5, <1>7 DEF a, e, Column

\* What save sends names rows of the table.
LEMMA WriteKeepsTable ==
  ASSUME table \in Table, NEW p \in Client, TypesOf(p), WorkOf(p), Write(p)
  PROVE  table' \in Table
<1>1. ASSUME NEW i, NEW row \in Row \cup {None}, NEW a,
             WriteTable(p, [table EXCEPT ![i] = row], a)
      PROVE  table' \in Table
  <2>1. [table EXCEPT ![i] = row] \in Table
    BY DEF Table
  <2>2. table' = table \/ table' = [table EXCEPT ![i] = row]
    BY <1>1 DEF WriteTable
  <2> QED
    BY <2>1, <2>2
<1>2. CASE InsertRow(p)
  <2>1. IsEntity(record[p])
    BY <1>2 DEF InsertRow, Write, TypesOf
  <2>2. [name |-> record[p].name, at |-> record[p].at] \in Row
    BY <2>1 DEF IsEntity, IsData, Row
  <2>3. \/ table' = table
        \/ \E i, a : WriteTable(p, [table EXCEPT ![i] =
             [name |-> record[p].name, at |-> record[p].at]], a)
    BY <1>2 DEF InsertRow
  <2> QED
    BY <1>1, <2>2, <2>3
<1>3. CASE UpdateRow(p)
  <2> DEFINE i == record[p].id
             Put(col) == IF record[p][col] # loaded[p][col]
                           THEN record[p][col] ELSE table[i][col]
             row == IF table[i] = None THEN None
                      ELSE [name |-> Put("name"), at |-> Put("at")]
  <2>1. /\ IsEntity(record[p]) /\ "id" \in DOMAIN record[p]
    BY <1>3 DEF UpdateRow, Write, TypesOf
  <2>2. i \in Id /\ record[p]["name"] \in Name /\ record[p]["at"] \in At
    BY <2>1 DEF IsEntity, IsData
  <2>3. table[i] = None \/ (table[i]["name"] \in Name /\ table[i]["at"] \in At)
    <3>1. table[i] \in Row \cup {None}
      BY <2>2 DEF Table
    <3> QED
      BY <3>1 DEF Row
  <2>4. row \in Row \cup {None}
    BY <2>2, <2>3 DEF Row
  <2>5. WriteTable(p, [table EXCEPT ![i] = row], Saved(p, i))
    BY <1>3 DEF UpdateRow
  <2> HIDE DEF i, row
  <2> QED
    BY <1>1, <2>4, <2>5
<1>4. CASE RemoveRow(p)
  <2>1. WriteTable(p, [table EXCEPT ![req[p].id] = None], [status |-> 204])
    BY <1>4 DEF RemoveRow
  <2> QED
    BY <1>1, <2>1
<1> QED
  BY <1>2, <1>3, <1>4 DEF Write

LEMMA BeginTypes ==
  ASSUME WorkInv, Types, NEW p \in Client, NEW r \in Requests, Begin(p, r)
  PROVE  TypesOf(p)'
<1>1. Shapes /\ TypesOf(p) /\ table \in Table
  BY DEF WorkInv, Types
<1>2. /\ req'[p] = r /\ before'[p] = table
      /\ rows'[p] = << >> /\ record'[p] = record[p]
      /\ PassMiddlewares(p, r)
  BY <1>1 DEF Begin, Shapes, workVars, TypesOf
<1>3. /\ pc'[p] \in {"answered", "repository"}
      /\ answer'[p] = answer[p] \/ answer'[p].status \in {400, 422}
  BY <1>1, <1>2 DEF PassMiddlewares, Answer, Goto, Shapes
<1>4. answer'[p].status \in {0, 200, 201, 204, 400, 404, 422}
  BY <1>1, <1>3 DEF TypesOf
<1>5. /\ r.kind = "index" => r \in ListRequest
      /\ r.kind \in {"create", "update"} => IsData(r.data)
      /\ r.kind = "create" => IsEntity(r.data)
  BY RequestsAreRequests DEF IsEntity
<1>6. rows'[p] \in Seq(Id)
  BY <1>2
<1> QED
  BY <1>1, <1>2, <1>3, <1>4, <1>5, <1>6 DEF TypesOf

LEMMA FollowTypes ==
  ASSUME WorkInv, Types, NEW p \in Client, FollowNextPage(p)
  PROVE  TypesOf(p)'
<1> DEFINE q == req[p]
           q2 == [q EXCEPT !.page = Page(q) + 1, !.getAll = FALSE]
<1>1. Shapes /\ TypesOf(p) /\ DOMAIN rows = Client
  BY DEF WorkInv, Types
<1>2. /\ req'[p] = q2 /\ q \in ListRequest
      /\ before'[p] = before[p] /\ rows'[p] = << >> /\ record'[p] = record[p]
      /\ answer'[p] = answer[p] /\ pc'[p] = "repository"
  BY <1>1 DEF FollowNextPage, Shapes, workVars, noteVars, Goto, TypesOf
<1>3. q2 \in ListRequest
  <2>1. Page(q) + 1 \in Int
    BY <1>2 DEF Page, ListRequest
  <2> QED
    BY <1>2, <2>1 DEF ListRequest
<1>4. q2.kind = "index"
  BY <1>2 DEF ListRequest
<1> HIDE DEF q2
<1>5. rows'[p] \in Seq(Id)
  BY <1>2
<1> QED
  BY <1>1, <1>2, <1>3, <1>4, <1>5 DEF TypesOf

\* The statements of index read.
LEMMA ReadTypes ==
  ASSUME WorkInv, Types, NEW p \in Client,
         GetCount(p) \/ GetMany(p) \/ CountRows(p) \/ Fail(p) \/ Reload(p)
  PROVE  TypesOf(p)' /\ (total \in [Client -> Nat])'
<1>1. /\ Shapes /\ TypesOf(p) /\ DOMAIN rows = Client /\ table \in Table
      /\ total \in [Client -> Nat]
  BY DEF WorkInv, Types
<1>2. /\ req'[p] = req[p] /\ before'[p] = before[p] /\ record'[p] = record[p]
  BY DEF GetCount, GetMany, CountRows, Fail, Reload, workVars, noteVars
<1>3. Cardinality(Matches(p)) \in Nat
  BY <1>1, MatchingFinite DEF Matches
<1>4. CASE GetCount(p)
  <2>1. pc'[p] = "rows" /\ answer'[p] = answer[p] /\ rows'[p] = rows[p]
    BY <1>1, <1>4 DEF GetCount, Goto, Shapes
  <2>2. total' \in [Client -> Nat]
    BY <1>1, <1>3, <1>4 DEF GetCount
  <2> QED
    BY <1>1, <1>2, <2>1, <2>2 DEF TypesOf
<1>5. CASE GetMany(p)
  <2> DEFINE q == req[p]
  <2>1. q \in ListRequest /\ Executable(q, controller)
    BY <1>1, <1>5 DEF GetMany, TypesOf, WorkInv, WorkOf
  <2>2. PICK s \in Sorted(table, OrderOf(q, controller), Matches(p)) :
          /\ rows' = [rows EXCEPT ![p] = Cut(q, s)]
          /\ \/ List(p, Cut(q, s), total[p]) /\ UNCHANGED total
             \/ /\ total' = [total EXCEPT ![p] = LazyCount(q, Cut(q, s))]
                /\ List(p, Cut(q, s), LazyCount(q, Cut(q, s)))
             \/ Goto(p, "count") /\ UNCHANGED <<total, answer>>
    BY <1>5 DEF GetMany
  <2>3. PICK ids : ids = Cut(q, s)
    OBVIOUS
  <2>4. Skip(q) \in Nat /\ Limit(q) \in Nat
    BY <2>1, SkipAndLimit
  <2>5. ids \in Seq(Id) /\ Len(ids) \in Nat /\ Len(ids) <= Limit(q)
    <3>1. Matches(p) \in SUBSET Id /\ IsFiniteSet(Matches(p))
      BY <1>1, MatchingFinite DEF Matches
    <3>2. s \in SetToSeqs(Matches(p))
      BY DEF Sorted
    <3>3. s \in Seq(Id)
      BY <3>1, <3>2, SetToSeqsOrders, SeqMonotonic
    <3> QED
      BY <2>3, <2>4, <3>3, CutTakes
  <2>6. rows'[p] = ids
    BY <1>1, <2>2, <2>3
  <2>7. /\ pc'[p] \in {"answered", "count"}
        /\ answer'[p] = answer[p] \/ answer'[p].status = 200
    BY <1>1, <2>2 DEF List, Answer, Goto, Shapes
  <2>8. total' \in [Client -> Nat]
    <3>1. LazyCount(q, ids) \in Nat
      BY <2>4, <2>5 DEF LazyCount
    <3> QED
      BY <1>1, <2>2, <2>3, <3>1
  <2> HIDE DEF q
  <2> QED
    BY <1>1, <1>2, <2>5, <2>6, <2>7, <2>8 DEF TypesOf, q
<1>6. CASE CountRows(p)
  <2>1. pc'[p] = "answered" /\ answer'[p].status = 200 /\ rows'[p] = rows[p]
    BY <1>1, <1>6 DEF CountRows, List, Answer, Goto, Shapes
  <2>2. total' \in [Client -> Nat]
    BY <1>1, <1>3, <1>6 DEF CountRows
  <2> QED
    BY <1>1, <1>2, <2>1, <2>2 DEF TypesOf
<1>7. CASE Fail(p)
  <2>1. pc'[p] = "answered" /\ answer'[p].status = 422 /\ rows'[p] = rows[p]
        /\ total' = total
    BY <1>1, <1>7 DEF Fail, Answer, Goto, Shapes, workVars
  <2> QED
    BY <1>1, <1>2, <2>1 DEF TypesOf
<1>8. CASE Reload(p)
  <2>1. pc[p] = "reload" /\ pc'[p] = "write" /\ answer'[p] = answer[p]
        /\ rows'[p] = rows[p] /\ total' = total
    BY <1>1, <1>8 DEF Reload, Goto, Shapes
  <2> QED
    BY <1>1, <1>2, <2>1 DEF TypesOf
<1> QED
  BY <1>4, <1>5, <1>6, <1>7, <1>8


LEMMA RepositoryTypes ==
  ASSUME WorkInv, Types, NEW p \in Client, GetRepository(p)
  PROVE  TypesOf(p)'
<1> DEFINE r == req[p]
<1>1. Shapes /\ TypesOf(p) /\ WorkOf(p)
  BY DEF WorkInv, Types
<1>2. /\ req'[p] = r /\ before'[p] = before[p] /\ rows'[p] = rows[p]
      /\ loaded'[p] = loaded[p] /\ loaded[p] = None
      /\ record'[p] = IF r.kind = "create" THEN r.data ELSE None
  BY <1>1 DEF GetRepository, Shapes, WorkOf, noteVars
<1>3. /\ r.kind = "create" => IsEntity(r.data)
      /\ r.kind = "create" => DOMAIN r.data \subseteq Column
  BY <1>1 DEF TypesOf, IsData
<1>4. CASE r.kind = "index"
  <2>1. \/ pc'[p] = "answered" /\ answer'[p].status = 422
        \/ pc'[p] \in {"countFirst", "rows"} /\ answer'[p] = answer[p]
    BY <1>1, <1>4 DEF GetRepository, Answer, Goto, Shapes
  <2> QED
    BY <1>1, <1>2, <1>4, <2>1 DEF TypesOf
<1>5. CASE r.kind = "create"
  <2>1. /\ pc'[p] = IF "id" \in DOMAIN r.data THEN "reload" ELSE "write"
        /\ answer'[p] = answer[p]
    BY <1>1, <1>5 DEF GetRepository, Goto, Shapes
  <2> QED
    BY <1>1, <1>2, <1>3, <1>5, <2>1 DEF TypesOf
<1>6. CASE r.kind \notin {"index", "create"}
  <2>1. pc'[p] = "find" /\ answer'[p] = answer[p]
    BY <1>1, <1>6 DEF GetRepository, Goto, Shapes
  <2> QED
    BY <1>1, <1>2, <1>6, <2>1 DEF TypesOf
<1> QED
  BY <1>4, <1>5, <1>6

LEMMA RelationsTypes ==
  ASSUME WorkInv, Types, NEW p \in Client, FindWithRelations(p)
  PROVE  TypesOf(p)'
<1>1. Shapes /\ TypesOf(p)
  BY DEF WorkInv, Types
<1>2. /\ req'[p] = req[p] /\ before'[p] = before[p] /\ rows'[p] = rows[p]
      /\ record'[p] = record[p]
  BY DEF FindWithRelations, workVars, noteVars
<1>3. pc'[p] = "answered" /\ answer'[p].status = 422
  BY <1>1 DEF FindWithRelations, Answer, Goto, Shapes
<1> QED
  BY <1>1, <1>2, <1>3 DEF TypesOf

LEMMA FindTypes ==
  ASSUME WorkInv, Types, NEW p \in Client, FindOne(p)
  PROVE  TypesOf(p)'
<1> DEFINE i == req[p].id
<1>1. Shapes /\ TypesOf(p) /\ WorkOf(p) /\ table \in Table
  BY DEF WorkInv, Types
<1>2. /\ req'[p] = req[p] /\ before'[p] = before[p] /\ rows'[p] = rows[p]
      /\ loaded'[p] = loaded[p] /\ pc[p] = "find"
      /\ req[p].kind \in {"show", "update", "destroy"} /\ i \in Id
  BY <1>1 DEF FindOne, WorkOf, noteVars
<1>3. CASE table[i] = None
  <2>1. pc'[p] = "answered" /\ answer'[p].status = 404 /\ record'[p] = record[p]
    BY <1>1, <1>3 DEF FindOne, Answer, Goto, Shapes
  <2> QED
    BY <1>1, <1>2, <2>1 DEF TypesOf
<1>4. CASE table[i] # None /\ req[p].kind = "show"
  <2>1. pc'[p] = "answered" /\ answer'[p].status = 200 /\ record'[p] = record[p]
    BY <1>1, <1>4 DEF FindOne, Answer, Goto, Shapes
  <2> QED
    BY <1>1, <1>2, <2>1 DEF TypesOf
<1>5. CASE table[i] # None /\ req[p].kind = "update"
  <2>1. /\ pc'[p] = "reload" /\ answer'[p] = answer[p]
        /\ record'[p] = Assign(Entity(i), req[p].data)
    BY <1>1, <1>5 DEF FindOne, Goto, Shapes
  <2>2. IsData(req[p].data)
    BY <1>1, <1>5 DEF TypesOf
  <2>3. /\ IsEntity(record'[p]) /\ "id" \in DOMAIN record'[p]
        /\ DOMAIN record'[p] \subseteq Column
    BY <1>1, <1>2, <1>5, <2>1, <2>2, AssignIsEntity
  <2>4. IsEntity(record[p])'
    BY <2>3 DEF IsEntity, IsData
  <2> QED
    BY <1>1, <1>2, <2>1, <2>3, <2>4 DEF TypesOf
<1>6. CASE table[i] # None /\ req[p].kind = "destroy"
  <2>1. pc'[p] = "write" /\ answer'[p] = answer[p] /\ record'[p] = Entity(i)
    BY <1>1, <1>6 DEF FindOne, Goto, Shapes
  <2>2. DOMAIN record'[p] \subseteq Column
    BY <2>1 DEF Entity, Column
  <2> QED
    BY <1>1, <1>2, <1>6, <2>1, <2>2 DEF TypesOf
<1> QED
  BY <1>2, <1>3, <1>4, <1>5, <1>6

LEMMA WriteTypes ==
  ASSUME WorkInv, Types, NEW p \in Client, Write(p)
  PROVE  TypesOf(p)'
<1>1. Shapes /\ TypesOf(p)
  BY DEF WorkInv, Types
<1>2. /\ req'[p] = req[p] /\ before'[p] = before[p] /\ rows'[p] = rows[p]
      /\ record'[p] = record[p]
  BY DEF Write, workVars
<1>3. pc'[p] = "answered" /\ answer'[p].status \in {200, 201, 204, 422}
  <2>1. ASSUME NEW new, NEW a, a.status \in {200, 201, 204, 422},
               WriteTable(p, new, a)
        PROVE  pc'[p] = "answered" /\ answer'[p].status \in {200, 201, 204, 422}
    BY <1>1, <2>1 DEF WriteTable, Answer, Goto, Shapes
  <2>2. \A i : Saved(p, i).status \in {200, 201, 422}
    BY DEF Saved
  <2>3. CASE InsertRow(p)
    <3>1. \/ Answer(p, [status |-> 422])
          \/ \E new, i : WriteTable(p, new, Saved(p, i))
      BY <2>3 DEF InsertRow
    <3>2. CASE Answer(p, [status |-> 422])
      BY <1>1, <3>2 DEF Answer, Goto, Shapes
    <3> QED
      BY <2>1, <2>2, <3>1, <3>2
  <2>4. CASE UpdateRow(p)
    <3>1. \E new, i : WriteTable(p, new, Saved(p, i))
      BY <2>4 DEF UpdateRow
    <3> QED
      BY <2>1, <2>2, <3>1
  <2>5. CASE RemoveRow(p)
    <3>1. \E new : WriteTable(p, new, [status |-> 204])
      BY <2>5 DEF RemoveRow
    <3> QED
      BY <2>1, <3>1
  <2> QED
    BY <2>3, <2>4, <2>5 DEF Write
<1> QED
  BY <1>1, <1>2, <1>3 DEF TypesOf

LEMMA TypesStep ==
  ASSUME WorkInv, Types, NEW p \in Client, Acts(p)
  PROVE  Types'
<1> USE DEF dataVars, workVars, noteVars
<1>1. /\ controller' = controller
      /\ DOMAIN rows' = DOMAIN rows /\ DOMAIN received' = DOMAIN received
      /\ DOMAIN fault' = DOMAIN fault
  BY DEF Acts, Step, Begin, FollowNextPage, GetRepository, GetCount, GetMany,
         CountRows, FindWithRelations, FindOne, Reload, Write, InsertRow, UpdateRow,
         RemoveRow, WriteTable, Fail, List
<1>2. TypesOf(p)'
  BY BeginTypes, FollowTypes, RepositoryTypes, ReadTypes, RelationsTypes,
     FindTypes, WriteTypes DEF Acts, Step
<1>3. \A q \in Client : TypesOf(q)'
  BY <1>2, OthersUnmoved, TypesFrame DEF Types
<1>4. table' \in Table
  <2>1. CASE Write(p)
    BY <2>1, WriteKeepsTable DEF Types, WorkInv
  <2>2. CASE ~Write(p)
    <3>1. table' = table
      BY <2>2 DEF Acts, Step, Begin, FollowNextPage, GetRepository, GetCount,
                  GetMany, CountRows, FindWithRelations, FindOne, Reload, Fail
    <3> QED
      BY <3>1 DEF Types, Table
  <2> QED
    BY <2>1, <2>2
<1>5. total' \in [Client -> Nat]
  <2>1. CASE GetCount(p) \/ GetMany(p) \/ CountRows(p) \/ Fail(p) \/ Reload(p)
    BY <2>1, ReadTypes
  <2>2. CASE ~(GetCount(p) \/ GetMany(p) \/ CountRows(p) \/ Fail(p) \/ Reload(p))
    <3>1. total' = total
      BY <2>2 DEF Acts, Step, Begin, FollowNextPage, GetRepository,
                  FindWithRelations, FindOne, Write
    <3> QED
      BY <3>1 DEF Types
  <2> QED
    BY <2>1, <2>2
<1> QED
  BY <1>1, <1>3, <1>4, <1>5 DEF Types, Table

-----------------------------------------------------------------------------
(* The invariant holds                                                      *)

LEMMA InitIInv == Init => IInv
<1> SUFFICES ASSUME Init PROVE IInv
  OBVIOUS
<1>1. WorkInv
  BY WorkInit
<1>2. Types
  <2>1. table \in Table /\ controller \in {TenantController, OrderController}
    BY TablesAreTables, ControllersInherit DEF Init, Table
  <2>2. ASSUME NEW p \in Client
        PROVE  TypesOf(p)
    <3>1. /\ before[p] = table /\ req[p].kind = "none" /\ rows[p] = << >>
          /\ received[p] = << >> /\ answer[p].status = 0 /\ record[p] = None
          /\ pc[p] = "idle"
      BY DEF Init, NoRequest, NoAnswer
    <3> QED
      BY <2>1, <3>1 DEF TypesOf
  <2> QED
    BY <2>1, <2>2 DEF Init, Types
<1>3. ASSUME NEW p \in Client
      PROVE  ~Lists(p)
  BY DEF Init, NoRequest, Lists
<1> QED
  BY <1>1, <1>2, <1>3 DEF IInv, ListOf, SessionOf, RefusalOf

\* What the client of a listing that acts itself sees.
LEMMA OwnStep ==
  ASSUME IInv, NEW p \in Client, Acts(p)
  PROVE  ListOf(p)' /\ SessionOf(p)' /\ RefusalOf(p)'
<1>1. Shapes /\ WorkOf(p)
  BY DEF IInv, WorkInv
<1>2. CASE (\E r \in Requests : Begin(p, r)) \/ FollowNextPage(p)
  BY <1>2, BeginLists, FollowLists
<1>3. CASE Step(p)
  <2>1. req'[p] = req[p]
    BY <1>3 DEF Step, GetRepository, GetCount, GetMany, CountRows,
                FindWithRelations, FindOne, Reload, Write, Fail
  <2>2. CASE Lists(p)
    <3>1. ~(FindWithRelations(p) \/ FindOne(p) \/ Reload(p) \/ Write(p))
      BY <1>1, <2>2 DEF FindWithRelations, FindOne, Reload, Write, WorkOf, Lists
    <3> QED
      BY <1>3, <2>2, <3>1, RepositoryLists, CountFirstLists, RowsLists, CountLists,
         FailLists DEF Step
  <2>3. CASE ~Lists(p)
    <3>1. ~Lists(p)'
      BY <2>1, <2>3 DEF Lists
    <3> QED
      BY <3>1, ListsNoMore
  <2> QED
    BY <2>2, <2>3
<1> QED
  BY <1>2, <1>3 DEF Acts

LEMMA StutterIInv == IInv /\ UNCHANGED vars => IInv'
<1> SUFFICES ASSUME IInv, UNCHANGED vars PROVE IInv'
  OBVIOUS
<1>1. WorkInv'
  BY WorkInductive DEF IInv
<1>2. ASSUME NEW q \in Client
      PROVE  Unmoved(q)
  BY DEF vars, dataVars, workVars, noteVars, Unmoved, Noticed
<1>3. ASSUME NEW q \in Client
      PROVE  ListOf(q)' /\ SessionOf(q)' /\ RefusalOf(q)'
  BY <1>2, ListFrame DEF IInv, Types, WorkInv, Shapes
<1>4. Types'
  <2>1. \A q \in Client : TypesOf(q)'
    BY <1>2, TypesFrame DEF IInv, Types
  <2> QED
    BY <2>1 DEF IInv, Types, Table, vars, dataVars, workVars, noteVars
<1> QED
  BY <1>1, <1>3, <1>4 DEF IInv

LEMMA NextIInv == IInv /\ [Next]_vars => IInv'
<1> SUFFICES ASSUME IInv, Next PROVE IInv'
  BY StutterIInv
<1>1. WorkInv'
  BY WorkInductive DEF IInv
<1>2. PICK p \in Client : Acts(p)
  BY DEF Next, Acts
<1>3. Types'
  BY <1>2, TypesStep DEF IInv
<1>4. ASSUME NEW q \in Client
      PROVE  ListOf(q)' /\ SessionOf(q)' /\ RefusalOf(q)'
  <2>1. CASE q = p
    BY <1>2, <2>1, OwnStep
  <2>2. CASE q # p
    <3>1. Unmoved(q)
      BY <1>2, <2>2, OthersUnmoved DEF IInv
    <3> QED
      BY <3>1, ListFrame DEF IInv, Types, WorkInv, Shapes
  <2> QED
    BY <2>1, <2>2
<1> QED
  BY <1>1, <1>3, <1>4 DEF IInv

LEMMA IndexInvariant == Spec => []IInv
BY InitIInv, NextIInv, PTL DEF Spec


-----------------------------------------------------------------------------
(* Theorems                                                                 *)

\* Whatever the clients ask for and however their statements interleave, the
\* table holds rows, statuses are those of the handlers, counts are counts, a
\* page is never longer than its limit, and an entity has no columns but the
\* table's.
THEOREM TypeCorrect == Spec => []TypeOK
<1>1. ASSUME IInv PROVE TypeOK
  <2>1. /\ table \in [Id -> Row \cup {None}]
        /\ pc \in [Client -> {"idle", "repository", "answered"} \cup Statement]
        /\ total \in [Client -> Nat] /\ others \in [Client -> Nat]
    BY <1>1 DEF IInv, WorkInv, Shapes, Places, Types, Table
  <2>2. ASSUME NEW p \in Client
        PROVE  /\ answer[p].status \in {0, 200, 201, 204, 400, 404, 422}
               /\ rows[p] # << >> => Len(rows[p]) <= Limit(req[p])
               /\ record[p] = None \/ DOMAIN record[p] \subseteq Column
    BY <1>1 DEF IInv, Types, TypesOf
  <2> QED
    BY <2>1, <2>2 DEF TypeOK
<1> QED
  BY <1>1, IndexInvariant, PTL

\* A page holds the rows at its places in the order that the client asked for
\* with the default behind it, of all the rows that match, although what is
\* sent to the database is one list of sort keys, an offset and a limit, and
\* the database may return rows that agree in any order.
THEOREM PageAlwaysByRank == Spec => []PageByRank
<1>1. ASSUME IInv PROVE PageByRank
  <2> SUFFICES ASSUME NEW p \in Client, Listed(p), Quiet(p)
               PROVE  LET ids == answer[p].ids
                          Earlier(i)  == {j \in Wanted(p) : ComesBefore(p, j, i)}
                          NotLater(i) == {j \in Wanted(p) : ~ComesBefore(p, i, j)}
                      IN  /\ IsInjective(ids)
                          /\ \A n \in DOMAIN ids :
                               /\ ids[n] \in Wanted(p)
                               /\ Cardinality(Earlier(ids[n])) < Skip(req[p]) + n
                               /\ Skip(req[p]) + n <= Cardinality(NotLater(ids[n]))
                          /\ Len(ids) < Limit(req[p]) =>
                               Cardinality(Wanted(p)) <= Skip(req[p]) + Len(ids)
    BY DEF PageByRank
  <2> DEFINE ids == answer[p].ids
             Earlier(i)  == {j \in Wanted(p) : ComesBefore(p, j, i)}
             NotLater(i) == {j \in Wanted(p) : ~ComesBefore(p, i, j)}
  <2>1. /\ ids \in Seq(Id)
        /\ IsPage(ids, Wanted(p), Ordering(p), Skip(req[p]), Limit(req[p]))
    BY <1>1 DEF IInv, ListOf, Lists, Listed, PageRead
  <2>2. DOMAIN ids = 1 .. Len(ids)
    BY <2>1, LenProperties
  <2>3. ASSUME NEW i \in Wanted(p)
        PROVE  /\ Earlier(i) = EarlierIn(Wanted(p), Ordering(p), i)
               /\ NotLater(i) = NotLaterIn(Wanted(p), Ordering(p), i)
    <3>1. \A j \in Wanted(p) : /\ <<j, i>> \in Ordering(p) <=> ComesBefore(p, j, i)
                               /\ <<i, j>> \in Ordering(p) <=> ComesBefore(p, i, j)
      BY DEF Ordering
    <3> QED
      BY <3>1 DEF EarlierIn, NotLaterIn
  <2> HIDE DEF ids, Earlier, NotLater
  <2>4. IsInjective(ids)
    BY <2>1, <2>2 DEF IsPage, IsInjective
  <2>5. ASSUME NEW n \in DOMAIN ids
        PROVE  /\ ids[n] \in Wanted(p)
               /\ Cardinality(Earlier(ids[n])) < Skip(req[p]) + n
               /\ Skip(req[p]) + n <= Cardinality(NotLater(ids[n]))
    <3>1. HasPlace(Wanted(p), Ordering(p), ids[n], Skip(req[p]) + n)
      BY <2>1, <2>2 DEF IsPage
    <3> QED
      BY <2>3, <3>1 DEF HasPlace
  <2>6. Len(ids) < Limit(req[p]) => Cardinality(Wanted(p)) <= Skip(req[p]) + Len(ids)
    BY <2>1 DEF IsPage
  <2> QED
    BY <2>4, <2>5, <2>6 DEF ids, Earlier, NotLater
<1> QED
  BY <1>1, IndexInvariant, PTL

\* totalRecords counts the rows that match to within the writes of others, on
\* each of the ways that it comes about, or it is what comes before a page past
\* the end; and with nobody writing a next page is announced exactly when rows
\* are left for it.
THEOREM TotalsAlwaysAgree == Spec => []TotalsAgree
<1>1. ASSUME IInv PROVE TotalsAgree
  <2> SUFFICES ASSUME NEW p \in Client, Listed(p)
               PROVE  LET n == Cardinality(Wanted(p))
                          q == req[p]
                      IN  /\ \/ answer[p].totalRecords - n \in (-others[p]) .. others[p]
                             \/ answer[p].ids = << >> /\ answer[p].totalRecords = Skip(q)
                          /\ Quiet(p) /\ Page(q) > 0 =>
                               (answer[p].nextPage <=> Page(q) * Limit(q) < n)
    BY DEF TotalsAgree
  <2>1. /\ ListOf(p) /\ TypesOf(p) /\ others[p] \in Nat
    BY <1>1 DEF IInv, Types, WorkInv, Shapes
  <2>2. \/ CloseTo(p, answer[p].totalRecords)
        \/ answer[p].ids = << >> /\ answer[p].totalRecords = Skip(req[p])
    BY <2>1 DEF ListOf, Lists, Listed
  <2>3. Quiet(p) /\ Page(req[p]) > 0 =>
          (answer[p].nextPage <=> Page(req[p]) * Limit(req[p]) < Cardinality(Wanted(p)))
    BY <2>1, NextExact
  <2> QED
    BY <2>2, <2>3 DEF CloseTo
<1> QED
  BY <1>1, IndexInvariant, PTL

\* A client that follows nextPage from page 1 to the end gets each row that
\* matches exactly once, if the order decides between any two and nobody writes,
\* however many pages that are and at whatever page each count was taken.
THEOREM PagesAlwaysCoverDecided == Spec => []PagesCoverDecided
<1>1. ASSUME IInv PROVE PagesCoverDecided
  <2> SUFFICES ASSUME NEW p \in Client, Listed(p), Quiet(p), ~answer[p].nextPage,
                      received[p][1].page = 1,
                      \A i, j \in Wanted(p) :
                        i # j => ComesBefore(p, i, j) \/ ComesBefore(p, j, i)
               PROVE  /\ Len(Session(p)) = Cardinality(Wanted(p))
                      /\ Range(Session(p)) = Wanted(p)
    BY DEF PagesCoverDecided, Session
  <2> DEFINE U == Wanted(p)
             R == Ordering(p)
             s == Session(p)
             all == Cardinality(U)
             pages == Len(received[p])
             limit == Limit(req[p])
  <2>1. /\ ListOf(p) /\ SessionOf(p) /\ TypesOf(p) /\ others[p] \in Nat /\ Lists(p)
        /\ req[p] \in ListRequest /\ before[p] \in Table
    BY <1>1 DEF IInv, Types, TypesOf, WorkInv, Shapes, Lists, Listed
  <2>2. /\ received[p] \in Seq([page : Int, ids : Seq(Id)]) /\ received[p] # << >>
    BY <2>1 DEF SessionOf
  <2>3. FirstPage(p) = 1
    BY <2>2 DEF FirstPage
  <2>4. /\ Fills(s, U, R) /\ Page(req[p]) = pages
        /\ Len(s) = IF all <= pages * limit THEN all ELSE pages * limit
    BY <2>1, <2>3 DEF SessionOf
  <2>5. pages \in Nat /\ pages > 0
    BY <2>2, LenProperties, EmptySeq
  <2>6. ~(pages * limit < all)
    BY <2>1, <2>4, <2>5, NextExact
  <2>7. IsFiniteSet(U) /\ all \in Nat
    BY <2>1, MatchingFinite DEF Wanted
  <2>8. limit \in Int
    BY <2>1 DEF Limit, ListRequest
  <2>9. s \in Seq(Id)
    <3> DEFINE lists == [k \in DOMAIN received[p] |-> received[p][k].ids]
    <3>1. lists \in Seq(Seq(Id))
      <4> DEFINE A   == [page : Int, ids : Seq(Id)]
                 old == received[p]
      <4>1. \A x \in A : x.ids \in Seq(Id)
        OBVIOUS
      <4>2. old \in Seq(A)
        BY <2>2
      <4> HIDE DEF A, old
      <4>3. /\ Len(old) \in Nat /\ DOMAIN old = 1 .. Len(old)
            /\ \A k \in 1 .. Len(old) : old[k].ids \in Seq(Id)
        BY <4>1, <4>2, LenProperties, ElementOfSeq
      <4> QED
        BY <4>3 DEF old
    <3>2. s = FlattenSeq(lists)
      BY DEF Session
    <3> HIDE DEF lists, s
    <3> QED
      BY <3>1, <3>2, FlattenSources
  <2>10. \A u, v \in U : u # v => <<u, v>> \in R \/ <<v, u>> \in R
    BY DEF Ordering
  <2> HIDE DEF U, R, s, all, pages, limit
  <2>11. Len(s) = all
    <3>1. pages * limit \in Int
      BY <2>5, <2>8
    <3> QED
      BY <2>4, <2>6, <2>7, <3>1
  <2>12. s \in [1 .. all -> U]
    <3>1. \A k \in 1 .. all : s[k] \in U
      BY <2>4, <2>11 DEF Fills, HasPlace
    <3>2. s \in [1 .. all -> Id]
      BY <2>9, <2>11, LenProperties
    <3> QED
      BY <3>1, <3>2
  <2>13. \A k \in 1 .. all : /\ Cardinality(EarlierIn(U, R, s[k])) < k
                             /\ k <= Cardinality(NotLaterIn(U, R, s[k]))
    BY <2>4, <2>11 DEF Fills, HasPlace
  <2>14. s \in Bijection(1 .. all, U)
    BY <2>7, <2>10, <2>12, <2>13, PlacesDecide DEF all
  <2>15. Range(s) = U
    <3>1. \A u \in U : \E k \in 1 .. all : s[k] = u
      BY <2>14 DEF Bijection, Surjection
    <3> QED
      BY <2>12, <3>1 DEF Range
  <2> QED
    BY <2>11, <2>15 DEF U, s, all
<1> QED
  BY <1>1, IndexInvariant, PTL

\* A listing that listSchema lets through is answered with its page, unless the
\* database fails, its order is none, its OFFSET is no bigint, or it searches for
\* text that the database cannot hold or together with a sort.
THEOREM SchemaRequestsAlwaysAnswered == Spec => []SchemaRequestsAnswered
<1>1. ASSUME IInv PROVE SchemaRequestsAnswered
  <2> SUFFICES ASSUME NEW p \in Client, controller.validated, pc[p] = "answered",
                      req[p].kind = "index", answer[p].status = 422, ~fault[p],
                      ListSchema(req[p]), ~BadOrder(req[p]),
                      ~(Skip(req[p]) > MaxBigint)
               PROVE  /\ req[p].search # None
                      /\ req[p].unreadable \/ req[p].inner \/ req[p].sort.kind # "none"
    BY DEF SchemaRequestsAnswered
  <2> DEFINE q == req[p]
  <2>1. q \in ListRequest /\ RefusalOf(p)
    BY <1>1 DEF IInv, Types, TypesOf
  <2>2. ~Executable(q, controller)
    BY <2>1 DEF RefusalOf, Lists
  <2>3. /\ Page(q) \in Nat \ {0} /\ Limit(q) \in 1 .. 100
    BY <2>1 DEF ListSchema, ListRequest, Page, Limit
  <2>4. Skip(q) \in 0 .. MaxBigint /\ Limit(q) \in 0 .. MaxBigint
    <3> DEFINE a == Page(q)
               l == Limit(q)
    <3>1. Skip(q) = (a - 1) * l
      BY <2>3 DEF Skip
    <3>2. MaxBigint \in Nat /\ 999999 <= MaxBigint
      BY BigintHoldsAllRows
    <3> HIDE DEF a, l
    <3>3. a - 1 \in Nat /\ l \in 1 .. 100
      BY <2>3 DEF a, l
    <3>4. (a - 1) * l \in Nat
      BY <3>3
    <3> QED
      BY <3>1, <3>2, <3>3, <3>4 DEF l
  <2>5. ~Countable(q, controller)
    BY <2>2, <2>4 DEF Executable
  <2>6. ~q.include /\ (q.unreadable => q.search # None)
    BY DEF ListSchema
  <2>7. CASE q.unreadable
    BY <2>6, <2>7
  <2>8. CASE ~q.unreadable
    <3>1. UnknownFilter(q, controller)
      BY <2>5, <2>6, <2>8 DEF Countable
    <3>2. /\ \A f \in q.where : f.col \in Column
          /\ q.inQuery \/ q.sort.kind # "sortKeys"
      BY DEF ListSchema, Column
    <3> QED
      BY <3>1, <3>2 DEF UnknownFilter, HasSearch
  <2> QED
    BY <2>7, <2>8
<1> QED
  BY <1>1, IndexInvariant, PTL
=============================================================================
