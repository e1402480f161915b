------------------------- MODULE OrderServiceProofs -------------------------
(* Theorems about the cross-tenant order listing, for any tenants, orders,  *)
(* queries and number of writes: what a page holds, how far the totals can  *)
(* be off, whose orders a client sees, and what following nextPage covers.  *)
EXTENDS OrderService, ListingLemmas

\* What the merge makes of order o.
Listed(o) == [id |-> o, createdAt |-> Millis(o), tenantId |-> Owner[o]]

ListedOf(S) == {Listed(o) : o \in S}

\* The orders that o may come before on a page.
Earliness ==
  {x \in Order \X Order : Before(Row(x[1]), Row(x[2]), params.order)}

\* o comes before p in the tenant's database, which tells ticks apart.
SoonerInTicks(o, p) ==
  IF params.order = "DESC" THEN created[p] < created[o]
                           ELSE created[o] < created[p]

\* The orders of t, or of all tenants asked for, that the filter lets through.
Selected(t) ==
  {o \in Order : Owner[o] = t /\ (params.status = {} \/ StatusOf[o] \in params.status)}

SelectedOrders == UNION {Selected(t) : t \in ActiveTenants}

FulfilledTenants == {t \in Tenant : state[t] = "fulfilled"}

-----------------------------------------------------------------------------
(* The inductive invariant.                                                 *)

Types ==
  /\ active \subseteq Tenant
  /\ stored \subseteq Order
  /\ deleted \subseteq Order \ stored
  /\ created \in [Order -> Times]
  /\ params \in Query
  /\ page \in Nat
  /\ phase \in {"idle", "tenants", "fanout", "answered", "threw"}
  /\ state \in [Tenant -> {"none", "connecting", "querying", "counting",
                           "fulfilled", "rejected"}]
  /\ rows \in [Tenant -> Seq(Order)]
  /\ count \in [Tenant -> Nat]
  /\ seen \in [Tenant -> SUBSET Order]
  /\ since \in Nat /\ since <= writes /\ writes \in 0 .. MaxWrites
  /\ disturbed \in BOOLEAN

\* Nobody works for a request that has not got its tenants, all active
\* tenants do for one that has, and they are done when it is answered.
PhaseInv ==
  /\ phase = "idle" <=> page = 0
  /\ phase \in {"idle", "tenants", "threw"} =>
       tenants = << >> /\ \A t \in Tenant : state[t] = "none"
  /\ phase \in {"fanout", "answered"} =>
       /\ tenants \in Seq(Tenant)
       /\ tenants \in Bijection(1 .. Len(tenants), ActiveTenants)
       /\ \A t \in Tenant : state[t] # "none" <=> t \in ActiveTenants
  /\ phase = "answered" =>
       \A t \in Tenant : state[t] \in {"none", "fulfilled", "rejected"}

\* A tenant that was read handed over its rows, once each, and holds nothing
\* back that comes before them unless it handed over all that was asked for.
RowsOf(t) ==
  /\ seen[t] \subseteq Selected(t)
  /\ rows[t] \in Injection(1 .. Len(rows[t]), seen[t])
  /\ \A o \in seen[t] : (\A i \in 1 .. Len(rows[t]) : rows[t][i] # o) =>
       /\ Len(rows[t]) = Take
       /\ \A i \in 1 .. Len(rows[t]) : ~SoonerInTicks(o, rows[t][i])

RowsInv ==
  \A t \in Tenant : state[t] \in {"counting", "fulfilled"} => RowsOf(t)

\* T are the orders written since the request began: only they make the
\* difference between what t has, has counted and has handed over.
CountOf(t, T) ==
  /\ state[t] = "counting" => SymDiff(Matching(t), seen[t]) \subseteq T
  /\ state[t] = "fulfilled" =>
       \E X \in SUBSET Selected(t) :
         count[t] = Cardinality(X) /\ SymDiff(X, seen[t]) \subseteq T

CountInv ==
  \E T \in SUBSET Order :
    Cardinality(T) <= since /\ \A t \in Tenant : CountOf(t, T)

\* recs are the rows from first + 1 on of U sorted by R, limit of them or all.
IsPage(recs, U, R, first, limit) ==
  /\ Len(recs) <= limit
  /\ \A i, j \in 1 .. Len(recs) : i # j => recs[i].id # recs[j].id
  /\ \A k \in 1 .. Len(recs) :
       /\ Cardinality(EarlierIn(U, R, recs[k].id)) < first + k
       /\ first + k <= Cardinality(NotLaterIn(U, R, recs[k].id))
  /\ Len(recs) < limit => Cardinality(U) <= first + Len(recs)

\* There is no answer before the page is put together.
AnswerInv ==
  /\ answer.totalRecords \in Nat /\ answer.totalPages \in Nat
  /\ phase # "answered" => answer = NoAnswer
  /\ phase = "answered" =>
       /\ answer.records \in Seq(ListedOf(Union))
       /\ IsPage(answer.records, Union, Earliness,
                 (page - 1) * params.limit, params.limit)

DeliveredInv ==
  /\ delivered \in Seq(ListedOf(SelectedOrders))
  /\ phase = "idle" => delivered = << >>

\* While nothing disturbs the session, every tenant has handed over what it
\* has now, and every order delivered has the place that it has among all.
QuietInv ==
  ~disturbed =>
    /\ writes = 0 /\ phase # "threw"
    /\ \A t \in Tenant :
         /\ state[t] # "rejected"
         /\ state[t] \in {"counting", "fulfilled"} => seen[t] = Matching(t)

PlacesInv ==
  ~disturbed =>
    /\ \A k \in 1 .. Len(delivered) :
         /\ delivered[k].id \in Wanted
         /\ Cardinality(EarlierIn(Wanted, Earliness, delivered[k].id)) < k
         /\ k <= Cardinality(NotLaterIn(Wanted, Earliness, delivered[k].id))
    /\ phase \in {"tenants", "fanout"} =>
         /\ Len(delivered) = (page - 1) * params.limit
         /\ Len(delivered) <= Cardinality(Wanted)
    /\ phase = "answered" =>
         Len(delivered) = IF Cardinality(Wanted) <= page * params.limit
                            THEN Cardinality(Wanted)
                            ELSE page * params.limit

IInv ==
  /\ Types
  /\ PhaseInv
  /\ RowsInv
  /\ CountInv
  /\ AnswerInv
  /\ TotalsWithinWrites
  /\ DeliveredInv
  /\ QuietInv
  /\ PlacesInv

-----------------------------------------------------------------------------
(* Facts that the steps share.                                              *)

LEMMA SubsetsFinite ==
  ASSUME NEW S \in SUBSET Order
  PROVE  IsFiniteSet(S) /\ Cardinality(S) \in Nat
BY TenantsAndOrdersFinite, FS_Subset, FS_CardinalityType

\* What depends on the query and on the rows' columns stays while they do.
LEMMA QueryFrame ==
  ASSUME UNCHANGED <<active, created, params>>
  PROVE  /\ Earliness' = Earliness
         /\ ActiveTenants' = ActiveTenants
         /\ SelectedOrders' = SelectedOrders
         /\ \A t : Selected(t)' = Selected(t)
         /\ \A S : ListedOf(S)' = ListedOf(S)
         /\ \A o, p : SoonerInTicks(o, p)' = SoonerInTicks(o, p)
<1>1. Earliness' = Earliness
  BY DEF Earliness, Before, Row, Millis
<1>2. ActiveTenants' = ActiveTenants
  BY DEF ActiveTenants
<1>3. \A t : Selected(t)' = Selected(t)
  BY DEF Selected
<1>4. SelectedOrders' = SelectedOrders
  BY <1>2, <1>3 DEF SelectedOrders
<1>5. \A S : ListedOf(S)' = ListedOf(S)
  BY DEF ListedOf, Listed, Millis
<1>6. \A o, p : SoonerInTicks(o, p)' = SoonerInTicks(o, p)
  BY DEF SoonerInTicks
<1> QED
  BY <1>1, <1>2, <1>3, <1>4, <1>5, <1>6

LEMMA RowsFrame ==
  ASSUME UNCHANGED <<active, created, params, page>>, NEW t,
         rows'[t] = rows[t], seen'[t] = seen[t], RowsOf(t)
  PROVE  RowsOf(t)'
BY QueryFrame DEF RowsOf, Take

\* What a client wants stays while nobody writes.
LEMMA WantedFrame ==
  ASSUME UNCHANGED <<active, created, params, stored>>
  PROVE  /\ \A t : Matching(t)' = Matching(t)
         /\ Wanted' = Wanted
<1>1. \A t : Matching(t)' = Matching(t)
  BY DEF Matching
<1> QED
  BY <1>1, QueryFrame DEF Wanted

LEMMA UnionFrame ==
  ASSUME \A t \in Tenant : state'[t] = "fulfilled" <=> state[t] = "fulfilled",
         \A t \in Tenant : state[t] = "fulfilled" => seen'[t] = seen[t]
  PROVE  Union' = Union
BY DEF Union

\* The tenants that answered had orders that were asked for.
LEMMA UnionSelected ==
  ASSUME Types, PhaseInv, RowsInv, phase \in {"fanout", "answered"}
  PROVE  Union \subseteq SelectedOrders /\ Union \subseteq Order
BY DEF Types, PhaseInv, RowsInv, RowsOf, Union, SelectedOrders, Selected

\* All tenants have answered, undisturbed, with what is wanted.
LEMMA QuietUnion ==
  ASSUME Types, PhaseInv, QuietInv, phase = "answered", ~disturbed
  PROVE  Union = Wanted
<1>1. ActiveTenants \subseteq Tenant
  BY DEF ActiveTenants, Types
<1>2. \A t \in Tenant : state[t] = "fulfilled" <=> t \in ActiveTenants
  BY DEF PhaseInv, QuietInv
<1>3. \A t \in Tenant : state[t] = "fulfilled" => seen[t] = Matching(t)
  BY DEF QuietInv
<1> QED
  BY <1>1, <1>2, <1>3 DEF Union, Wanted

-----------------------------------------------------------------------------
(* The steps.                                                               *)

LEMMA InitIInv == Init => IInv
<1> SUFFICES ASSUME Init PROVE IInv
  OBVIOUS
<1> USE DEF Init
<1>1. Types
  <2>1. params \in Query
    BY QueriesAreQueries
  <2>2. rows \in [Tenant -> Seq(Order)]
    <3>1. << >> \in Seq(Order)
      OBVIOUS
    <3> QED
      BY <3>1
  <2>3. active \subseteq Tenant
    BY ActivesAreTenants
  <2>4. 0 \in 0 .. MaxWrites
    BY MaxWritesIsNat
  <2>5. deleted \subseteq Order \ stored /\ seen \in [Tenant -> SUBSET Order]
    OBVIOUS
  <2>6. state \in [Tenant -> {"none", "connecting", "querying", "counting",
                             "fulfilled", "rejected"}]
        /\ count \in [Tenant -> Nat]
    OBVIOUS
  <2>7. stored \subseteq Order /\ created \in [Order -> Times]
    OBVIOUS
  <2>8. /\ page \in Nat /\ since \in Nat /\ since <= writes
        /\ writes \in 0 .. MaxWrites
    BY <2>4
  <2>9. /\ disturbed \in BOOLEAN
        /\ phase \in {"idle", "tenants", "fanout", "answered", "threw"}
    OBVIOUS
  <2> HIDE DEF Init
  <2> QED
    BY <2>1, <2>2, <2>3, <2>5, <2>6, <2>7, <2>8, <2>9 DEF Types
<1>2. PhaseInv /\ RowsInv
  BY DEF PhaseInv, RowsInv
<1>3. CountInv
  <2>1. Cardinality({}) = 0
    BY FS_EmptySet
  <2> QED
    BY <2>1 DEF CountInv, CountOf
<1>4. AnswerInv /\ TotalsWithinWrites
  BY DEF AnswerInv, NoAnswer, TotalsWithinWrites
<1>5. DeliveredInv
  BY DEF DeliveredInv
<1>6. QuietInv /\ PlacesInv
  <2>1. 1 .. Len(<< >>) = {}
    OBVIOUS
  <2> QED
    BY <2>1 DEF QuietInv, PlacesInv
<1> QED
  BY <1>1, <1>2, <1>3, <1>4, <1>5, <1>6 DEF IInv

LEMMA WriteIInv ==
  ASSUME IInv, NEW o \in Order, InsertOrder(o) \/ DeleteOrder(o)
  PROVE  IInv'
<1> USE DEF requestVars, batchVars
<1>1. /\ UNCHANGED <<active, created, params, page, phase, tenants, state,
                     rows, count, seen, answer, delivered>>
      /\ since' = since + 1 /\ writes' = writes + 1 /\ disturbed' = TRUE
      /\ writes < MaxWrites
      /\ SymDiff(stored, stored') = {o}
  BY DEF InsertOrder, DeleteOrder, SymDiff
<1>2. Types'
  BY <1>1, MaxWritesIsNat DEF IInv, Types, InsertOrder, DeleteOrder
<1>3. PhaseInv'
  BY <1>1, QueryFrame DEF IInv, PhaseInv
<1>4. RowsInv'
  BY <1>1, RowsFrame DEF IInv, RowsInv
<1>5. CountInv'
  <2>1. PICK T \in SUBSET Order :
          Cardinality(T) <= since /\ \A t \in Tenant : CountOf(t, T)
    BY DEF IInv, CountInv
  <2>2. Cardinality(T \cup {o}) <= since'
    <3>1. IsFiniteSet(T) /\ Cardinality(T) \in Nat
      BY SubsetsFinite
    <3>2. Cardinality(T \cup {o})
            = IF o \in T THEN Cardinality(T) ELSE Cardinality(T) + 1
      BY <3>1, FS_AddElement
    <3>3. T \cup {o} \in SUBSET Order
      OBVIOUS
    <3>4. Cardinality(T \cup {o}) \in Nat
      BY <3>3, SubsetsFinite
    <3> QED
      BY <1>1, <2>1, <3>1, <3>2, <3>4 DEF IInv, Types
  <2>3. ASSUME NEW t \in Tenant
        PROVE  CountOf(t, T \cup {o})'
    <3>1. SymDiff(Matching(t), Matching(t)') \subseteq {o}
      BY <1>1 DEF Matching, SymDiff
    <3>2. \A U : /\ SymDiff(Matching(t), U) \subseteq T =>
                      SymDiff(Matching(t)', U) \subseteq T \cup {o}
                 /\ SymDiff(U, seen[t]) \subseteq T =>
                      SymDiff(U, seen[t]) \subseteq T \cup {o}
      BY <3>1 DEF SymDiff
    <3>3. Selected(t)' = Selected(t)
      BY <1>1, QueryFrame
    <3> QED
      BY <1>1, <2>1, <3>2, <3>3 DEF CountOf
  <2> QED
    BY <2>2, <2>3 DEF CountInv
<1>6. AnswerInv'
  <2>1. Union' = Union
    BY <1>1, UnionFrame
  <2> QED
    BY <1>1, <2>1, QueryFrame DEF IInv, AnswerInv
<1>7. TotalsWithinWrites'
  <2>1. Union' = Union
    BY <1>1, UnionFrame
  <2> QED
    BY <1>1, <2>1 DEF IInv, TotalsWithinWrites, Types, AnswerInv
<1>8. DeliveredInv'
  BY <1>1, QueryFrame DEF IInv, DeliveredInv
<1>9. QuietInv' /\ PlacesInv'
  BY <1>1 DEF QuietInv, PlacesInv
<1> QED
  BY <1>2, <1>3, <1>4, <1>5, <1>6, <1>7, <1>8, <1>9 DEF IInv

LEMMA RequestIInv ==
  ASSUME IInv, Request
  PROVE  IInv'
<1> USE DEF dataVars
<1>1. /\ UNCHANGED <<active, stored, deleted, created, params, writes,
                     disturbed, delivered>>
      /\ page' = page + 1 /\ phase' = "tenants" /\ since' = 0
      /\ tenants' = << >> /\ answer' = NoAnswer
      /\ \A t \in Tenant : state'[t] = "none"
  BY DEF Request
<1>2. Types'
  <2>1. /\ state' = [t \in Tenant |-> "none"]
        /\ count' = [t \in Tenant |-> 0]
        /\ seen' = [t \in Tenant |-> {}]
    BY DEF Request
  <2>2. rows' \in [Tenant -> Seq(Order)]
    <3>1. << >> \in Seq(Order)
      OBVIOUS
    <3> QED
      BY <3>1 DEF Request
  <2>3. since' <= writes' /\ since' \in Nat
    BY <1>1 DEF IInv, Types
  <2> QED
    BY <1>1, <2>1, <2>2, <2>3 DEF IInv, Types
<1>3. PhaseInv'
  BY <1>1 DEF IInv, PhaseInv, Types
<1>4. RowsInv'
  BY <1>1 DEF RowsInv
<1>5. CountInv'
  <2>1. Cardinality({}) = 0
    BY FS_EmptySet
  <2>2. \A t \in Tenant : CountOf(t, {})'
    BY <1>1 DEF CountOf
  <2> QED
    BY <1>1, <2>1, <2>2 DEF CountInv
<1>6. AnswerInv' /\ TotalsWithinWrites'
  BY <1>1 DEF AnswerInv, NoAnswer, TotalsWithinWrites
<1>7. DeliveredInv'
  BY <1>1, QueryFrame DEF IInv, DeliveredInv
<1>8. QuietInv'
  BY <1>1 DEF IInv, QuietInv
<1>9. PlacesInv'
  <2> SUFFICES ASSUME ~disturbed PROVE PlacesInv'
    BY <1>1 DEF PlacesInv
  <2>1. Wanted' = Wanted /\ Earliness' = Earliness
    BY <1>1, WantedFrame, QueryFrame
  <2>2. page \in Nat /\ params.limit \in Nat \ {0} /\ since = 0
    BY DEF IInv, Types, Query, QuietInv
  <2>3. IsFiniteSet(Wanted) /\ Cardinality(Wanted) \in Nat
    <3>1. Wanted \in SUBSET Order
      BY DEF IInv, Types, Wanted, Matching
    <3> QED
      BY <3>1, SubsetsFinite
  <2>4. Len(delivered) = page * params.limit /\ Len(delivered) <= Cardinality(Wanted)
    <3>1. CASE phase = "idle"
      BY <2>2, <2>3, <3>1 DEF IInv, PhaseInv, DeliveredInv
    <3>2. CASE phase = "answered" /\ answer.nextPage
      <4>1. Union = Wanted
        BY <3>2, QuietUnion DEF IInv
      <4>2. page * params.limit < Cardinality(Wanted)
        BY <2>2, <3>2, <4>1 DEF IInv, TotalsWithinWrites
      <4>3. page * params.limit \in Nat
        BY <2>2
      <4> QED
        BY <2>3, <3>2, <4>2, <4>3 DEF IInv, PlacesInv
    <3> QED
      BY <3>1, <3>2 DEF Request
  <2>5. (page' - 1) * params'.limit = page * params.limit
    BY <1>1, <2>2
  <2> QED
    BY <1>1, <2>1, <2>4, <2>5 DEF IInv, PlacesInv
<1> QED
  BY <1>2, <1>3, <1>4, <1>5, <1>6, <1>7, <1>8, <1>9 DEF IInv

LEMMA FetchIInv ==
  ASSUME IInv, FetchActiveTenants
  PROVE  IInv'
<1> USE DEF dataVars
<1>1. /\ UNCHANGED <<active, stored, deleted, created, params, page, rows, count,
                     seen, since, writes, answer, delivered>>
      /\ phase = "tenants" /\ phase' \in {"fanout", "answered", "threw"}
      /\ \A t \in Tenant : state'[t] \in {"none", "connecting"}
      /\ phase' = "threw" \/ disturbed' = disturbed
      /\ phase' = "threw" => disturbed' = TRUE
      /\ phase' = "answered" => ActiveTenants = {}
  BY DEF FetchActiveTenants, IInv, PhaseInv
<1>2. ActiveTenants \in SUBSET Tenant /\ ActiveTenants' = ActiveTenants
  BY <1>1, QueryFrame DEF ActiveTenants, IInv, Types
<1>3. Types'
  <2>1. state' \in [Tenant -> {"none", "connecting", "querying", "counting",
                               "fulfilled", "rejected"}]
    BY DEF FetchActiveTenants, IInv, Types
  <2> QED
    BY <1>1, <2>1 DEF IInv, Types
<1>4. PhaseInv'
  <2>1. CASE phase' = "threw"
    BY <1>1, <2>1 DEF FetchActiveTenants, IInv, PhaseInv
  <2>2. CASE phase' = "answered"
    <3>1. tenants' = << >> /\ UNCHANGED state /\ ActiveTenants = {}
      BY <2>2 DEF FetchActiveTenants, IInv, PhaseInv
    <3>2. << >> \in Seq(Tenant) /\ << >> \in Bijection(1 .. Len(<< >>), {})
      <4>1. IsFiniteSet({}) /\ << >> \in SetToSeqs({})
        <5>1. Cardinality({}) = 0 /\ 1 .. 0 = {}
          BY FS_EmptySet
        <5> QED
          BY <5>1, FS_EmptySet DEF SetToSeqs
      <4> QED
        BY <4>1, SetToSeqsOrders
    <3> QED
      BY <1>1, <1>2, <2>2, <3>1, <3>2 DEF IInv, PhaseInv
  <2>3. CASE phase' = "fanout"
    <3>1. PICK s \in SetToSeqs(ActiveTenants) :
            /\ tenants' = s
            /\ state' = [t \in Tenant |->
                           IF t \in ActiveTenants THEN "connecting" ELSE "none"]
      BY <2>3 DEF FetchActiveTenants
    <3>2. s \in Seq(ActiveTenants) /\ s \in Bijection(1 .. Len(s), ActiveTenants)
      <4>1. IsFiniteSet(ActiveTenants)
        BY <1>2, TenantsAndOrdersFinite, FS_Subset
      <4> QED
        BY <4>1, SetToSeqsOrders
    <3>3. s \in Seq(Tenant)
      BY <1>2, <3>2, SeqMonotonic
    <3> QED
      BY <1>1, <1>2, <2>3, <3>1, <3>2, <3>3 DEF IInv, PhaseInv
  <2> QED
    BY <1>1, <2>1, <2>2, <2>3
<1>5. RowsInv'
  BY <1>1 DEF RowsInv
<1>6. CountInv'
  BY <1>1 DEF IInv, CountInv, CountOf
<1>7. Union' = {}
  BY <1>1 DEF Union
<1>8. Cardinality({}) = 0 /\ page \in Nat /\ page # 0 /\ params.limit \in Nat \ {0}
      /\ since \in Nat
  BY <1>1, FS_EmptySet DEF IInv, PhaseInv, Types, Query
<1>9. 0 <= (page - 1) * params.limit /\ (page - 1) * params.limit \in Int
      /\ 0 <= page * params.limit /\ page * params.limit \in Int
  BY <1>8
<1>10. AnswerInv'
  <2>1. answer' = NoAnswer
    BY <1>1 DEF IInv, AnswerInv
  <2>2. NoAnswer.records \in Seq(ListedOf(Union)')
    BY DEF NoAnswer
  <2>3. IsPage(NoAnswer.records, Union', Earliness',
               (page' - 1) * params'.limit, params'.limit)
    <3>1. Len(NoAnswer.records) = 0 /\ 1 .. 0 = {}
      BY DEF NoAnswer
    <3> QED
      BY <1>1, <1>7, <1>8, <1>9, <3>1 DEF IsPage
  <2> QED
    BY <2>1, <2>2, <2>3 DEF AnswerInv, NoAnswer
<1>11. TotalsWithinWrites'
  <2>1. answer' = NoAnswer
    BY <1>1 DEF IInv, AnswerInv
  <2> QED
    BY <1>1, <1>7, <1>8, <1>9, <2>1 DEF TotalsWithinWrites, NoAnswer
<1>12. DeliveredInv'
  BY <1>1, QueryFrame DEF IInv, DeliveredInv
<1>13. QuietInv'
  BY <1>1 DEF IInv, QuietInv
<1>14. PlacesInv'
  <2> SUFFICES ASSUME ~disturbed' PROVE PlacesInv'
    BY DEF PlacesInv
  <2>1. Wanted' = Wanted /\ Earliness' = Earliness
    BY <1>1, WantedFrame, QueryFrame
  <2>2. ASSUME phase' = "answered"
        PROVE  Len(delivered) = 0 /\ Cardinality(Wanted) = 0
    <3>1. Wanted = {}
      BY <1>1, <2>2 DEF Wanted
    <3>2. Len(delivered) <= 0
      BY <1>1, <1>8, <3>1 DEF IInv, PlacesInv
    <3>3. Len(delivered) \in Nat
      BY LenProperties DEF IInv, DeliveredInv
    <3> QED
      BY <1>8, <3>1, <3>2, <3>3
  <2> QED
    BY <1>1, <1>9, <2>1, <2>2 DEF IInv, PlacesInv
<1> QED
  BY <1>3, <1>4, <1>5, <1>6, <1>10, <1>11, <1>12, <1>13, <1>14 DEF IInv

\* Tenant t gets on with its batch.
BatchStep(t) ==
  /\ state[t] \in {"connecting", "querying", "counting"}
  /\ \E place \in {"querying", "counting", "fulfilled", "rejected"} :
       state' = [state EXCEPT ![t] = place]
  /\ UNCHANGED <<active, stored, deleted, created, params, page, phase,
                 tenants, since, writes, answer, delivered>>
  /\ disturbed' \in {disturbed, TRUE}

LEMMA BatchFrame ==
  ASSUME IInv, NEW t \in Tenant, BatchStep(t)
  PROVE  /\ PhaseInv' /\ AnswerInv' /\ TotalsWithinWrites'
         /\ DeliveredInv' /\ PlacesInv'
         /\ phase = "fanout" /\ t \in ActiveTenants
<1> USE DEF BatchStep
<1>1. phase = "fanout" /\ t \in ActiveTenants
  BY DEF IInv, PhaseInv, Types
<1>2. PhaseInv'
  <2>1. ActiveTenants' = ActiveTenants
    BY QueryFrame
  <2>2. \A u \in Tenant : state'[u] # "none" <=> state[u] # "none"
    BY DEF IInv, Types
  <2> QED
    BY <1>1, <2>1, <2>2 DEF IInv, PhaseInv
<1>3. AnswerInv' /\ TotalsWithinWrites'
  BY <1>1 DEF IInv, AnswerInv, TotalsWithinWrites
<1>4. DeliveredInv'
  BY QueryFrame DEF IInv, DeliveredInv
<1>5. PlacesInv'
  <2> SUFFICES ASSUME ~disturbed' PROVE PlacesInv'
    BY DEF PlacesInv
  <2>1. ~disturbed
    OBVIOUS
  <2>2. Wanted' = Wanted /\ Earliness' = Earliness
    BY QueryFrame, WantedFrame
  <2> QED
    BY <2>1, <2>2 DEF IInv, PlacesInv
<1> QED
  BY <1>1, <1>2, <1>3, <1>4, <1>5

\* A tenant that comes to its end or its first statement without rows.
LEMMA ConnectOrFailIInv ==
  ASSUME IInv, NEW t \in Tenant, Connect(t) \/ FailBatch(t)
  PROVE  IInv'
<1> USE DEF dataVars, requestVars, noteVars
<1>1. /\ BatchStep(t)
      /\ UNCHANGED <<rows, count, seen>>
      /\ \A u \in Tenant : state'[u] \in {state[u], "querying", "rejected"}
      /\ \/ disturbed' = TRUE
         \/ /\ disturbed' = disturbed
            /\ \A u \in Tenant : state'[u] \in {state[u], "querying"}
  <2>1. CASE Connect(t)
    BY <2>1 DEF Connect, BatchStep, IInv, Types
  <2>2. CASE FailBatch(t)
    <3>1. BatchStep(t)
      BY <2>2 DEF FailBatch, BatchStep
    <3>2. \A u \in Tenant : state'[u] = IF u = t THEN "rejected" ELSE state[u]
      BY <2>2 DEF FailBatch, IInv, Types
    <3> QED
      BY <2>2, <3>1, <3>2 DEF FailBatch
  <2> QED
    BY <2>1, <2>2
<1>2. Types'
  BY <1>1 DEF BatchStep, IInv, Types
<1>3. RowsInv'
  BY <1>1, RowsFrame DEF IInv, RowsInv, BatchStep
<1>4. CountInv'
  <2>1. PICK T \in SUBSET Order :
          Cardinality(T) <= since /\ \A u \in Tenant : CountOf(u, T)
    BY DEF IInv, CountInv
  <2>2. ASSUME NEW u \in Tenant
        PROVE  CountOf(u, T)'
    <3>1. Matching(u)' = Matching(u) /\ Selected(u)' = Selected(u)
      BY <1>1, WantedFrame, QueryFrame DEF BatchStep
    <3> QED
      BY <1>1, <2>1, <3>1 DEF CountOf
  <2> QED
    BY <1>1, <2>1, <2>2 DEF CountInv, BatchStep
<1>5. QuietInv'
  <2> SUFFICES ASSUME ~disturbed' PROVE QuietInv'
    BY DEF QuietInv
  <2>1. \A u : Matching(u)' = Matching(u)
    BY <1>1, WantedFrame DEF BatchStep
  <2> QED
    BY <1>1, <2>1 DEF IInv, QuietInv, BatchStep
<1> QED
  BY <1>1, <1>2, <1>3, <1>4, <1>5, BatchFrame DEF IInv

LEMMA CountIInv ==
  ASSUME IInv, NEW t \in Tenant, QueryCount(t)
  PROVE  IInv'
<1> USE DEF dataVars, requestVars, noteVars
<1>1. /\ BatchStep(t)
      /\ UNCHANGED <<rows, seen, disturbed>>
      /\ state[t] = "counting" /\ state'[t] = "fulfilled"
      /\ \A u \in Tenant \ {t} : state'[u] = state[u] /\ count'[u] = count[u]
      /\ count'[t] = Cardinality(Matching(t))
      /\ count' \in [Tenant -> {count[u] : u \in Tenant} \cup {Cardinality(Matching(t))}]
  BY DEF QueryCount, BatchStep, IInv, Types
<1>2. Matching(t) \in SUBSET Selected(t) /\ Matching(t) \in SUBSET Order
  BY DEF Matching, Selected, IInv, Types
<1>3. Types'
  <2>1. Cardinality(Matching(t)) \in Nat
    BY <1>2, SubsetsFinite
  <2>2. count' \in [Tenant -> Nat]
    BY <1>1, <2>1 DEF IInv, Types
  <2> QED
    BY <1>1, <2>2 DEF BatchStep, IInv, Types
<1>4. RowsInv'
  BY <1>1, RowsFrame DEF IInv, RowsInv, BatchStep
<1>5. CountInv'
  <2>1. PICK T \in SUBSET Order :
          Cardinality(T) <= since /\ \A u \in Tenant : CountOf(u, T)
    BY DEF IInv, CountInv
  <2>2. ASSUME NEW u \in Tenant
        PROVE  CountOf(u, T)'
    <3>1. Matching(u)' = Matching(u) /\ Selected(u)' = Selected(u)
      BY <1>1, WantedFrame, QueryFrame DEF BatchStep
    <3>2. CASE u = t
      BY <1>1, <1>2, <2>1, <3>1, <3>2 DEF CountOf
    <3>3. CASE u # t
      BY <1>1, <2>1, <3>1, <3>3 DEF CountOf
    <3> QED
      BY <3>2, <3>3
  <2> QED
    BY <1>1, <2>1, <2>2 DEF CountInv, BatchStep
<1>6. QuietInv'
  <2>1. \A u : Matching(u)' = Matching(u)
    BY <1>1, WantedFrame DEF BatchStep
  <2> QED
    BY <1>1, <2>1 DEF IInv, QuietInv, BatchStep
<1> QED
  BY <1>1, <1>3, <1>4, <1>5, <1>6, BatchFrame DEF IInv

LEMMA QueryIInv ==
  ASSUME IInv, NEW t \in Tenant, QueryRows(t)
  PROVE  IInv'
<1> USE DEF dataVars, requestVars, noteVars
<1> DEFINE M == Matching(t)
           Held(s) == IF Take < Len(s) THEN Take ELSE Len(s)
<1>1. PICK s \in SortedRows(M) :
        /\ rows' = [rows EXCEPT ![t] = SubSeq(s, 1, Held(s))]
        /\ IF Len(SubSeq(s, 1, Held(s))) < Take
             THEN /\ count' = [count EXCEPT ![t] = Len(SubSeq(s, 1, Held(s)))]
                  /\ state' = [state EXCEPT ![t] = "fulfilled"]
             ELSE /\ state' = [state EXCEPT ![t] = "counting"]
                  /\ UNCHANGED count
  BY DEF QueryRows
<1> DEFINE k == Held(s)
           r == SubSeq(s, 1, k)
<1>2. M \in SUBSET Order /\ M \subseteq Selected(t)
  BY DEF Matching, Selected, IInv, Types
<1>3. IsFiniteSet(M) /\ Cardinality(M) \in Nat
  BY <1>2, SubsetsFinite
<1>4. s \in Seq(M) /\ Len(s) = Cardinality(M) /\ s \in Bijection(1 .. Len(s), M)
  BY <1>1, <1>3, SetToSeqsOrders DEF SortedRows
<1>5. /\ DOMAIN s = 1 .. Len(s) /\ \A i \in 1 .. Len(s) : s[i] \in M
      /\ \A i, j \in 1 .. Len(s) : s[i] = s[j] => i = j
      /\ \A o \in M : \E i \in 1 .. Len(s) : s[i] = o
  BY <1>4, LenProperties DEF Bijection, Injection, Surjection, IsInjective
<1>6. Take \in Nat
  BY DEF Take, IInv, Types, Query
<1>7. /\ k \in Nat /\ k <= Len(s) /\ k <= Take
      /\ k = Take \/ k = Len(s)
      /\ k < Take => k = Len(s)
  BY <1>3, <1>4, <1>6
<1> HIDE DEF k
<1>8. r \in Seq(M) /\ Len(r) = k /\ \A i \in 1 .. k : r[i] = s[i]
  <2>1. \A i \in 1 .. k : s[i] \in M
    BY <1>3, <1>4, <1>5, <1>7
  <2> QED
    BY <1>7, <2>1, SubSeqProperties
<1> HIDE DEF M, r
<1>9. /\ BatchStep(t)
      /\ UNCHANGED disturbed
      /\ state'[t] = IF k < Take THEN "fulfilled" ELSE "counting"
      /\ k < Take => count'[t] = k
      /\ rows'[t] = r /\ seen'[t] = M
      /\ \A u \in Tenant \ {t} : /\ state'[u] = state[u] /\ count'[u] = count[u]
                                 /\ rows'[u] = rows[u] /\ seen'[u] = seen[u]
  <2>1. seen' = [seen EXCEPT ![t] = M]
    BY DEF QueryRows, M
  <2>2. rows' = [rows EXCEPT ![t] = r]
    BY <1>1 DEF r, k
  <2>3. IF k < Take
          THEN /\ count' = [count EXCEPT ![t] = k]
               /\ state' = [state EXCEPT ![t] = "fulfilled"]
          ELSE /\ state' = [state EXCEPT ![t] = "counting"]
               /\ UNCHANGED count
    BY <1>1, <1>8 DEF r, k
  <2>4. /\ state[t] = "querying"
        /\ UNCHANGED <<active, stored, deleted, created, params, page, phase,
                       tenants, since, writes, answer, delivered, disturbed>>
    BY DEF QueryRows
  <2>5. BatchStep(t)
    BY <2>3, <2>4 DEF BatchStep
  <2> QED
    BY <2>1, <2>2, <2>3, <2>4, <2>5 DEF IInv, Types
<1>10. Types'
  <2>1. rows' \in [Tenant -> Seq(Order)]
    <3>1. r \in Seq(Order)
      BY <1>2, <1>8, SeqMonotonic
    <3>2. rows' = [rows EXCEPT ![t] = r]
      BY <1>1 DEF r, k
    <3> QED
      BY <3>1, <3>2 DEF IInv, Types
  <2>2. seen' \in [Tenant -> SUBSET Order]
    <3>1. seen' = [seen EXCEPT ![t] = M]
      BY DEF QueryRows, M
    <3> QED
      BY <1>2, <3>1 DEF IInv, Types
  <2>3. count' \in [Tenant -> Nat]
    <3>1. count' = [count EXCEPT ![t] = k] \/ count' = count
      BY <1>1, <1>8 DEF r, k
    <3> QED
      BY <1>7, <3>1 DEF IInv, Types
  <2> QED
    BY <1>9, <2>1, <2>2, <2>3 DEF BatchStep, IInv, Types
<1>11. RowsOf(t)'
  <2>1. M \subseteq Selected(t)'
    BY <1>2, <1>9, QueryFrame DEF BatchStep
  <2>2. r \in Injection(1 .. k, M)
    <3>1. \A i, j \in 1 .. k : i \in 1 .. Len(s) /\ (r[i] = r[j] => i = j)
      BY <1>3, <1>4, <1>5, <1>7, <1>8
    <3>2. r \in [1 .. k -> M]
      BY <1>8, LenProperties
    <3> QED
      BY <3>1, <3>2 DEF Injection, IsInjective
  <2>3. ASSUME NEW o \in M, \A i \in 1 .. k : r[i] # o
        PROVE  /\ k = Take
               /\ \A i \in 1 .. k : ~SoonerInTicks(o, r[i])
    <3>1. PICK j \in 1 .. Len(s) : s[j] = o
      BY <1>5
    <3>2. k < j
      BY <1>3, <1>4, <1>7, <1>8, <2>3, <3>1
    <3>3. k = Take
      BY <1>3, <1>4, <1>7, <3>2
    <3>4. ASSUME NEW i \in 1 .. k
          PROVE  ~SoonerInTicks(o, r[i])
      <4>1. i \in 1 .. Len(s) /\ i < j /\ r[i] = s[i]
        BY <1>3, <1>4, <1>7, <1>8, <3>2
      <4>2. IF params.order = "DESC" THEN created[s[i]] >= created[s[j]]
                                     ELSE created[s[i]] <= created[s[j]]
        BY <1>1, <1>5, <4>1 DEF SortedRows
      <4>3. created[s[i]] \in Nat /\ created[s[j]] \in Nat
        <5>1. s[i] \in Order /\ s[j] \in Order
          BY <1>2, <1>5, <4>1
        <5> QED
          BY <5>1, TimesAreTicks DEF IInv, Types
      <4> QED
        BY <3>1, <4>1, <4>2, <4>3 DEF SoonerInTicks
    <3> QED
      BY <3>3, <3>4
  <2>4. Take' = Take /\ \A o, p : SoonerInTicks(o, p)' = SoonerInTicks(o, p)
    BY <1>9, QueryFrame DEF BatchStep, Take
  <2> QED
    BY <1>8, <1>9, <2>1, <2>2, <2>3, <2>4 DEF RowsOf
<1>12. RowsInv'
  BY <1>9, <1>11, RowsFrame DEF IInv, RowsInv, BatchStep
<1>13. CountInv'
  <2>1. PICK T \in SUBSET Order :
          Cardinality(T) <= since /\ \A u \in Tenant : CountOf(u, T)
    BY DEF IInv, CountInv
  <2>2. ASSUME NEW u \in Tenant
        PROVE  CountOf(u, T)'
    <3>1. Matching(u)' = Matching(u) /\ Selected(u)' = Selected(u)
      BY <1>9, WantedFrame, QueryFrame DEF BatchStep
    <3>2. CASE u = t
      <4>1. SymDiff(M, M) = {}
        BY DEF SymDiff
      <4>2. k < Take => count'[t] = Cardinality(M)
        BY <1>4, <1>7, <1>9
      <4> QED
        BY <1>2, <1>9, <3>1, <3>2, <4>1, <4>2 DEF CountOf, M
    <3>3. CASE u # t
      BY <1>9, <2>1, <3>1, <3>3 DEF CountOf
    <3> QED
      BY <3>2, <3>3
  <2> QED
    BY <1>9, <2>1, <2>2 DEF CountInv, BatchStep
<1>14. QuietInv'
  <2>1. \A u : Matching(u)' = Matching(u)
    BY <1>9, WantedFrame DEF BatchStep
  <2> QED
    BY <1>9, <2>1 DEF IInv, QuietInv, BatchStep, M
<1> QED
  BY <1>9, <1>10, <1>12, <1>13, <1>14, BatchFrame DEF IInv

-----------------------------------------------------------------------------
(* The merge: what IndexAllTenants makes of the batches.                    *)

\* The tenants that answered are the batches, each once.
LEMMA BatchesOfTenants ==
  ASSUME Types, PhaseInv, phase = "fanout"
  PROVE  /\ Fulfilled \in Seq({BatchOf(t) : t \in Tenant})
         /\ \E who \in Bijection(1 .. Len(Fulfilled), FulfilledTenants) :
              \A b \in 1 .. Len(Fulfilled) : Fulfilled[b] = BatchOf(who[b])
<1> DEFINE A == {BatchOf(t) : t \in Tenant}
           m == Len(tenants)
           seqs == [i \in DOMAIN tenants |->
                      IF state[tenants[i]] = "fulfilled"
                        THEN <<BatchOf(tenants[i])>> ELSE << >>]
<1>1. /\ m \in Nat /\ DOMAIN tenants = 1 .. m
      /\ \A i \in 1 .. m : tenants[i] \in Tenant
      /\ \A i, j \in 1 .. m : tenants[i] = tenants[j] => i = j
      /\ \A t \in FulfilledTenants : \E i \in 1 .. m : tenants[i] = t
  <2>1. tenants \in Seq(Tenant) /\ tenants \in Bijection(1 .. m, ActiveTenants)
    BY DEF PhaseInv
  <2>2. FulfilledTenants \subseteq ActiveTenants
    BY DEF PhaseInv, FulfilledTenants
  <2> QED
    BY <2>1, <2>2, LenProperties, ElementOfSeq
       DEF Bijection, Injection, Surjection, IsInjective
<1>2. ASSUME NEW i \in 1 .. m
      PROVE  /\ seqs[i] \in Seq(A)
             /\ state[tenants[i]] = "fulfilled" =>
                  Len(seqs[i]) = 1 /\ seqs[i][1] = BatchOf(tenants[i])
             /\ state[tenants[i]] # "fulfilled" => Len(seqs[i]) = 0
  <2>1. BatchOf(tenants[i]) \in A
    BY <1>1
  <2> HIDE DEF A
  <2> QED
    BY <1>1, <2>1
<1>3. seqs \in Seq(Seq(A)) /\ Len(seqs) = m
  <2>1. seqs \in [1 .. m -> Seq(A)]
    BY <1>1, <1>2
  <2> HIDE DEF seqs, A, m
  <2> QED
    BY <1>1, <2>1
<1>4. Fulfilled = FlattenSeq(seqs)
  BY DEF Fulfilled
<1> HIDE DEF seqs, A, m
<1>5. PICK src : Sources(seqs, m, Fulfilled, src)
  BY <1>3, <1>4, FlattenSources
<1>6. Fulfilled \in Seq(A) /\ Len(Fulfilled) \in Nat
  BY <1>3, <1>4, FlattenSources, LenProperties
<1> DEFINE n == Len(Fulfilled)
           who == [b \in 1 .. n |-> tenants[src[b][1]]]
<1>7. /\ src \in [1 .. n -> PlacesOf(seqs, m)]
      /\ \A b, c \in 1 .. n : src[b] = src[c] => b = c
      /\ \A q \in PlacesOf(seqs, m) : \E b \in 1 .. n : src[b] = q
      /\ \A b \in 1 .. n : Fulfilled[b] = seqs[src[b][1]][src[b][2]]
  BY <1>5 DEF Sources, Bijection, Injection, Surjection, IsInjective
<1>8. ASSUME NEW q \in PlacesOf(seqs, m)
      PROVE  /\ q[1] \in 1 .. m /\ q[2] = 1 /\ q = <<q[1], 1>>
             /\ tenants[q[1]] \in FulfilledTenants
             /\ seqs[q[1]][q[2]] = BatchOf(tenants[q[1]])
  <2>1. q[1] \in 1 .. m /\ q[2] \in 1 .. Len(seqs[q[1]]) /\ q = <<q[1], q[2]>>
    BY DEF PlacesOf
  <2>2. state[tenants[q[1]]] = "fulfilled"
    <3>1. 1 .. 0 = {}
      OBVIOUS
    <3> QED
      BY <1>2, <2>1, <3>1
  <2>3. q[2] = 1
    <3>1. Len(seqs[q[1]]) = 1
      BY <1>2, <2>1, <2>2
    <3> QED
      BY <2>1, <3>1
  <2> QED
    BY <1>1, <1>2, <2>1, <2>2, <2>3 DEF FulfilledTenants
<1>9. \A b \in 1 .. n : /\ who[b] \in FulfilledTenants
                        /\ Fulfilled[b] = BatchOf(who[b])
                        /\ src[b] = <<src[b][1], 1>> /\ src[b][1] \in 1 .. m
                        /\ who[b] = tenants[src[b][1]]
  BY <1>7, <1>8
<1>10. ASSUME NEW t \in FulfilledTenants
       PROVE  \E b \in 1 .. n : who[b] = t
  <2>1. PICK i \in 1 .. m : tenants[i] = t
    BY <1>1
  <2>2. <<i, 1>> \in PlacesOf(seqs, m)
    BY <1>2, <2>1 DEF FulfilledTenants, PlacesOf
  <2>3. PICK b \in 1 .. n : src[b] = <<i, 1>>
    BY <1>7, <2>2
  <2> QED
    BY <2>1, <2>3
<1>11. ASSUME NEW b \in 1 .. n, NEW c \in 1 .. n, who[b] = who[c]
       PROVE  b = c
  <2>1. src[b][1] = src[c][1]
    BY <1>1, <1>9, <1>11
  <2>2. src[b] = src[c]
    BY <1>9, <2>1
  <2> QED
    BY <1>7, <2>2
<1>12. who \in [1 .. n -> FulfilledTenants]
  BY <1>9
<1> HIDE DEF who, n
<1>13. who \in Bijection(1 .. n, FulfilledTenants)
  BY <1>10, <1>11, <1>12 DEF Bijection, Injection, Surjection, IsInjective
<1> QED
  BY <1>6, <1>9, <1>13 DEF A, n

\* Before they are sorted, the rows are those handed over, each once.
LEMMA RowsOfBatches ==
  ASSUME Types, PhaseInv, RowsInv, phase = "fanout",
         NEW flat, flat = FlattenWithTenantMeta(Fulfilled)
  PROVE  /\ flat \in Seq(ListedOf(Union))
         /\ \E ids \in Injection(1 .. Len(flat), Union) :
              /\ \A k \in 1 .. Len(flat) : flat[k] = Listed(ids[k])
              /\ \A t \in FulfilledTenants : \A i \in 1 .. Len(rows[t]) :
                   \E k \in 1 .. Len(flat) : ids[k] = rows[t][i]
<1> DEFINE m == Len(Fulfilled)
           seqs == [b \in 1 .. m |->
                      [i \in 1 .. Len(Fulfilled[b].orders) |->
                        [id        |-> Fulfilled[b].orders[i].id,
                         createdAt |-> Fulfilled[b].orders[i].createdAt,
                         tenantId  |-> Fulfilled[b].tenantId]]]
           A == ListedOf(Union)
<1>1. m \in Nat
  BY BatchesOfTenants, LenProperties
<1>2. PICK who \in Bijection(1 .. m, FulfilledTenants) :
        \A b \in 1 .. m : Fulfilled[b] = BatchOf(who[b])
  BY BatchesOfTenants
<1>3. /\ \A b \in 1 .. m : who[b] \in FulfilledTenants
      /\ \A b, c \in 1 .. m : who[b] = who[c] => b = c
      /\ \A t \in FulfilledTenants : \E b \in 1 .. m : who[b] = t
  BY <1>2 DEF Bijection, Injection, Surjection, IsInjective
<1>4. ASSUME NEW t \in FulfilledTenants
      PROVE  /\ Len(rows[t]) \in Nat /\ DOMAIN rows[t] = 1 .. Len(rows[t])
             /\ \A i \in 1 .. Len(rows[t]) : /\ rows[t][i] \in Union
                                             /\ Owner[rows[t][i]] = t
             /\ \A i, j \in 1 .. Len(rows[t]) : rows[t][i] = rows[t][j] => i = j
  <2>1. t \in Tenant /\ RowsOf(t) /\ state[t] = "fulfilled"
    BY DEF RowsInv, FulfilledTenants
  <2>2. rows[t] \in Seq(Order)
    BY <2>1 DEF Types
  <2>3. /\ rows[t] \in [1 .. Len(rows[t]) -> seen[t]]
        /\ \A i, j \in 1 .. Len(rows[t]) : rows[t][i] = rows[t][j] => i = j
        /\ seen[t] \subseteq Selected(t)
    BY <2>1 DEF RowsOf, Injection, IsInjective
  <2>4. seen[t] \subseteq Union
    BY <2>1 DEF Union
  <2> QED
    BY <2>2, <2>3, <2>4, LenProperties DEF Selected
<1>5. ASSUME NEW b \in 1 .. m
      PROVE  /\ seqs[b] \in Seq(A)
             /\ Len(seqs[b]) = Len(rows[who[b]])
             /\ \A i \in 1 .. Len(seqs[b]) : seqs[b][i] = Listed(rows[who[b]][i])
  <2> DEFINE t == who[b]
  <2>1. t \in FulfilledTenants
    BY <1>3
  <2>2. Fulfilled[b].tenantId = t
    <3>1. Fulfilled[b] = BatchOf(t)
      BY <1>2
    <3> QED
      BY ONLY <3>1 DEF BatchOf
  <2>3. Fulfilled[b].orders = [j \in 1 .. Len(rows[t]) |-> Row(rows[t][j])]
    <3>1. Fulfilled[b] = BatchOf(t)
      BY <1>2
    <3>2. DOMAIN rows[t] = 1 .. Len(rows[t])
      BY <1>4, <2>1
    <3> QED
      BY ONLY <3>1, <3>2 DEF BatchOf
  <2>4. Len(Fulfilled[b].orders) = Len(rows[t])
    BY <1>4, <2>1, <2>3
  <2>5. seqs[b] = [i \in 1 .. Len(rows[t]) |-> Listed(rows[t][i])]
    <3>1. ASSUME NEW i \in 1 .. Len(rows[t])
          PROVE  [id        |-> Fulfilled[b].orders[i].id,
                  createdAt |-> Fulfilled[b].orders[i].createdAt,
                  tenantId  |-> Fulfilled[b].tenantId] = Listed(rows[t][i])
      <4>1. Owner[rows[t][i]] = t
        BY <1>4, <2>1
      <4>2. Fulfilled[b].orders[i] = Row(rows[t][i])
        BY <2>3
      <4> QED
        BY <2>2, <4>1, <4>2 DEF Row, Listed
    <3> QED
      BY <2>4, <3>1
  <2>6. \A i \in 1 .. Len(rows[t]) : Listed(rows[t][i]) \in A
    BY <1>4, <2>1 DEF ListedOf
  <2> HIDE DEF A, seqs, t
  <2>7. Len(rows[t]) \in Nat
    BY <1>4, <2>1
  <2> QED
    BY <2>5, <2>6, <2>7 DEF t
<1>6. seqs \in Seq(Seq(A)) /\ Len(seqs) = m
  <2>1. seqs \in [1 .. m -> Seq(A)]
    BY <1>5
  <2> HIDE DEF seqs, A, m
  <2> QED
    BY <1>1, <2>1
<1>7. flat = FlattenSeq(seqs)
  BY DEF FlattenWithTenantMeta
<1> HIDE DEF seqs, A, m
<1>8. PICK src : Sources(seqs, m, flat, src)
  BY <1>6, <1>7, FlattenSources
<1>9. flat \in Seq(A) /\ Len(flat) \in Nat
  BY <1>6, <1>7, FlattenSources, LenProperties
<1> DEFINE n == Len(flat)
           ids == [k \in 1 .. n |-> rows[who[src[k][1]]][src[k][2]]]
<1>10. /\ src \in [1 .. n -> PlacesOf(seqs, m)]
       /\ \A k, l \in 1 .. n : src[k] = src[l] => k = l
       /\ \A q \in PlacesOf(seqs, m) : \E k \in 1 .. n : src[k] = q
       /\ \A k \in 1 .. n : flat[k] = seqs[src[k][1]][src[k][2]]
  BY <1>8 DEF Sources, Bijection, Injection, Surjection, IsInjective
<1>11. ASSUME NEW q \in PlacesOf(seqs, m)
       PROVE  /\ q = <<q[1], q[2]>> /\ q[1] \in 1 .. m
              /\ who[q[1]] \in FulfilledTenants
              /\ q[2] \in 1 .. Len(rows[who[q[1]]])
              /\ seqs[q[1]][q[2]] = Listed(rows[who[q[1]]][q[2]])
  <2>1. q = <<q[1], q[2]>> /\ q[1] \in 1 .. m /\ q[2] \in 1 .. Len(seqs[q[1]])
    BY DEF PlacesOf
  <2> QED
    BY <1>3, <1>5, <2>1
<1>12. \A k \in 1 .. n : /\ ids[k] = rows[who[src[k][1]]][src[k][2]]
                         /\ flat[k] = Listed(ids[k])
  BY <1>10, <1>11
<1> HIDE DEF n, ids
<1>13. ids \in Injection(1 .. n, Union)
  <2>1. ids \in [1 .. n -> Union]
    <3>1. \A k \in 1 .. n : ids[k] \in Union
      BY <1>4, <1>10, <1>11, <1>12
    <3> QED
      BY <3>1 DEF ids
  <2>2. ASSUME NEW k \in 1 .. n, NEW l \in 1 .. n, ids[k] = ids[l]
        PROVE  k = l
    <3> DEFINE p == src[k]
               q == src[l]
    <3>1. p \in PlacesOf(seqs, m) /\ q \in PlacesOf(seqs, m)
      BY <1>10
    <3>2. rows[who[p[1]]][p[2]] = rows[who[q[1]]][q[2]]
      BY <1>12, <2>2
    <3> HIDE DEF p, q
    <3>3. who[p[1]] = who[q[1]]
      BY <1>4, <1>11, <3>1, <3>2
    <3>4. p[1] = q[1] /\ p[2] = q[2]
      BY <1>3, <1>4, <1>11, <3>1, <3>2, <3>3
    <3>5. p = q
      BY <1>11, <3>1, <3>4
    <3> QED
      BY <1>10, <3>5 DEF p, q
  <2> QED
    BY <2>1, <2>2 DEF Injection, IsInjective
<1>14. ASSUME NEW t \in FulfilledTenants, NEW i \in 1 .. Len(rows[t])
       PROVE  \E k \in 1 .. n : ids[k] = rows[t][i]
  <2>1. PICK b \in 1 .. m : who[b] = t
    BY <1>3
  <2>2. <<b, i>> \in PlacesOf(seqs, m)
    BY <1>4, <1>5, <2>1 DEF PlacesOf
  <2>3. PICK k \in 1 .. n : src[k] = <<b, i>>
    BY <1>10, <2>2
  <2> QED
    BY <1>12, <2>1, <2>3
<1> QED
  BY <1>9, <1>12, <1>13, <1>14 DEF A, n

\* Sorting rearranges the rows, and none comes before one that is earlier.
LEMMA SortRearranges ==
  ASSUME NEW A, NEW recs \in Seq(A), \A r \in A : r.createdAt \in Int,
         NEW direction
  PROVE  \E perm \in Bijection(1 .. Len(recs), 1 .. Len(recs)) :
           /\ SortByCreatedAt(recs, direction)
                = [k \in 1 .. Len(recs) |-> recs[perm[k]]]
           /\ \A a, b \in 1 .. Len(recs) :
                a < b => ~Before(recs[perm[b]], recs[perm[a]], direction)
<1> DEFINE n == Len(recs)
           D == 1 .. n
           Key(i) == recs[i].createdAt
           P(i, j) == \/ Before(recs[i], recs[j], direction)
                      \/ i < j /\ ~Before(recs[j], recs[i], direction)
           R == {x \in D \X D : P(x[1], x[2])}
           perm == [k \in D |-> CHOOSE j \in D : Rank(D, R, j) = k - 1]
<1>1. n \in Nat /\ DOMAIN recs = D /\ \A i \in D : Key(i) \in Int
  BY LenProperties, ElementOfSeq
<1>2. IsFiniteSet(D) /\ Cardinality(D) = n
  BY <1>1, FS_Interval
<1>3. \A i, j \in D : <<i, j>> \in R <=> P(i, j)
  OBVIOUS
<1> HIDE DEF R
<1>4. StrictTotalOrder(D, R)
  <2>1. \A i \in D : ~P(i, i)
    BY <1>1 DEF Before
  <2>2. \A i, j, k \in D : P(i, j) /\ P(j, k) => P(i, k)
    <3> HIDE DEF D
    <3>1. D \subseteq Int
      BY DEF D
    <3> QED
      BY <1>1, <3>1 DEF Before
  <2>3. \A i, j \in D : i # j => P(i, j) \/ P(j, i)
    BY <1>1 DEF Before
  <2> HIDE DEF P
  <2> QED
    BY <1>3, <2>1, <2>2, <2>3 DEF StrictTotalOrder
<1>5. SortByCreatedAt(recs, direction) = [k \in D |-> recs[perm[k]]]
  <2>1. \A j \in D : {i \in D : P(i, j)} = Below(D, R, j)
    BY <1>3 DEF Below
  <2>2. \A j \in D : Cardinality({i \in D : P(i, j)}) = Rank(D, R, j)
    BY <2>1 DEF Rank
  <2>3. SortByCreatedAt(recs, direction)
          = [k \in D |->
               recs[CHOOSE j \in D : Cardinality({i \in D : P(i, j)}) = k - 1]]
    BY <1>1 DEF SortByCreatedAt
  <2>4. \A k \in D : (CHOOSE j \in D : Cardinality({i \in D : P(i, j)}) = k - 1)
                       = perm[k]
    BY <2>2, SMTT(30)
  <2> HIDE DEF P, perm
  <2> QED
    BY <2>3, <2>4
<1>6. \A k \in D : perm[k] \in D /\ Rank(D, R, perm[k]) = k - 1
  <2>1. \A k \in D : \E j \in D : Rank(D, R, j) = k - 1
    <3>1. \A k \in D : k - 1 \in 0 .. (n - 1)
      BY <1>1
    <3> QED
      BY <1>2, <1>4, <3>1, RankIsPlace
  <2> HIDE DEF D
  <2> QED
    BY <2>1
<1>7. \A j \in D : \E k \in D : perm[k] = j
  <2> SUFFICES ASSUME NEW j \in D PROVE \E k \in D : perm[k] = j
    OBVIOUS
  <2>1. Rank(D, R, j) \in 0 .. (n - 1)
    BY <1>2, <1>4, RankIsPlace
  <2> DEFINE k == Rank(D, R, j) + 1
  <2>2. k \in D /\ k - 1 = Rank(D, R, j)
    BY <1>1, <2>1
  <2> HIDE DEF k, D
  <2>3. perm[k] = j
    BY <1>2, <1>4, <1>6, <2>2, RankIsPlace
  <2> QED
    BY <2>2, <2>3
<1>8. \A a, b \in D : perm[a] = perm[b] => a = b
  BY <1>6
<1>9. perm \in Bijection(D, D)
  <2>1. perm \in [D -> D]
    BY <1>6
  <2> HIDE DEF perm, D
  <2> QED
    BY <1>7, <1>8, <2>1 DEF Bijection, Injection, Surjection, IsInjective
<1>10. ASSUME NEW a \in D, NEW b \in D, a < b
       PROVE  ~Before(recs[perm[b]], recs[perm[a]], direction)
  <2> HIDE DEF perm
  <2>1. perm[a] \in D /\ perm[b] \in D
    BY <1>6
  <2>2. ~(Rank(D, R, perm[b]) < Rank(D, R, perm[a]))
    BY <1>6, <1>10
  <2>3. <<perm[b], perm[a]>> \notin R
    BY <1>2, <1>4, <2>1, <2>2, RankGrows
  <2> QED
    BY <1>3, <2>1, <2>3
<1> HIDE DEF perm
<1> QED
  BY <1>5, <1>9, <1>10

\* Times in milliseconds decide, and those in ticks agree with them.
LEMMA QuotientsGrow ==
  ASSUME NEW a \in Nat, NEW b \in Nat, a <= b, NEW c \in Nat \ {0}
  PROVE  a \div c <= b \div c
<1> DEFINE q == a \div c
           r == a % c
           u == b \div c
           v == b % c
<1>1. q \in Nat /\ r \in 0 .. (c - 1) /\ a = c * q + r
  OBVIOUS
<1>2. u \in Nat /\ v \in 0 .. (c - 1) /\ b = c * u + v
  OBVIOUS
<1> HIDE DEF q, r, u, v
<1>3. ASSUME u + 1 <= q
      PROVE  FALSE
  <2>1. c * (u + 1) <= c * q
    BY <1>1, <1>2, <1>3
  <2>2. c * (u + 1) = c * u + c
    BY <1>2
  <2> QED
    BY <1>1, <1>2, <2>1, <2>2
<1> QED
  BY <1>1, <1>2, <1>3 DEF q, u

LEMMA EarlinessOfOrders ==
  ASSUME Types
  PROVE  /\ \A o \in Order : Millis(o) \in Nat
         /\ \A o, p \in Order :
              <<o, p>> \in Earliness <=>
                IF params.order = "DESC" THEN Millis(p) < Millis(o)
                                         ELSE Millis(o) < Millis(p)
         /\ \A o, p, q \in Order :
              ~SoonerInTicks(o, p) /\ <<o, q>> \in Earliness => <<p, q>> \in Earliness
<1>1. \A o \in Order : created[o] \in Nat /\ TicksPerMs \in Nat \ {0}
  BY TimesAreTicks DEF Types
<1>2. \A o \in Order : Millis(o) \in Nat
  BY <1>1 DEF Millis
<1>3. \A o, p \in Order :
        <<o, p>> \in Earliness <=>
          IF params.order = "DESC" THEN Millis(p) < Millis(o)
                                   ELSE Millis(o) < Millis(p)
  BY DEF Earliness, Before, Row
<1>4. \A o, p \in Order : created[p] <= created[o] => Millis(p) <= Millis(o)
  BY <1>1, QuotientsGrow DEF Millis
<1>5. \A o, p \in Order :
        ~SoonerInTicks(o, p) =>
          IF params.order = "DESC" THEN Millis(o) <= Millis(p)
                                   ELSE Millis(p) <= Millis(o)
  BY <1>1, <1>4 DEF SoonerInTicks
<1>6. \A o, p, q \in Order :
        ~SoonerInTicks(o, p) /\ <<o, q>> \in Earliness => <<p, q>> \in Earliness
  BY <1>2, <1>3, <1>5
<1> QED
  BY <1>2, <1>3, <1>6

\* Sorted, the rows handed over are in order, and what a tenant held back
\* comes after as many of them as the page and the pages before it take.
LEMMA MergeInOrder ==
  ASSUME Types, PhaseInv, RowsInv, phase = "fanout",
         NEW merged,
         merged = SortByCreatedAt(FlattenWithTenantMeta(Fulfilled), params.order)
  PROVE  /\ merged \in Seq(ListedOf(Union))
         /\ \E ids \in Injection(1 .. Len(merged), Union) :
              /\ \A k \in 1 .. Len(merged) : merged[k] = Listed(ids[k])
              /\ InOrder(Len(merged), ids, Earliness)
              /\ Covers(Len(merged), ids, Earliness, Union, Take)
<1> DEFINE flat == FlattenWithTenantMeta(Fulfilled)
           n == Len(flat)
           A == ListedOf(Union)
<1>1. flat \in Seq(A) /\ n \in Nat
  BY RowsOfBatches, LenProperties
<1>2. PICK src \in Injection(1 .. n, Union) :
        /\ \A k \in 1 .. n : flat[k] = Listed(src[k])
        /\ \A t \in FulfilledTenants : \A i \in 1 .. Len(rows[t]) :
             \E k \in 1 .. n : src[k] = rows[t][i]
  BY RowsOfBatches
<1>3. src \in [1 .. n -> Union] /\ \A k, l \in 1 .. n : src[k] = src[l] => k = l
  BY <1>2 DEF Injection, IsInjective
<1>4. Union \subseteq Order
  BY UnionSelected
<1>5. \A r \in A : r.createdAt \in Int
  BY <1>4, EarlinessOfOrders DEF ListedOf, Listed
<1> HIDE DEF flat, A, n
<1>6. PICK perm \in Bijection(1 .. n, 1 .. n) :
        /\ merged = [k \in 1 .. n |-> flat[perm[k]]]
        /\ \A a, b \in 1 .. n :
             a < b => ~Before(flat[perm[b]], flat[perm[a]], params.order)
  BY <1>1, <1>5, SortRearranges DEF flat, n
<1>7. /\ perm \in [1 .. n -> 1 .. n]
      /\ \A k, l \in 1 .. n : perm[k] = perm[l] => k = l
      /\ \A l \in 1 .. n : \E k \in 1 .. n : perm[k] = l
  BY DEF Bijection, Injection, Surjection, IsInjective
<1>8. merged \in Seq(A) /\ Len(merged) = n
  <2>1. \A k \in 1 .. n : flat[perm[k]] \in A
    BY <1>1, <1>7, ElementOfSeq DEF n
  <2> QED
    BY <1>1, <1>6, <2>1
<1> DEFINE ids == [k \in 1 .. n |-> src[perm[k]]]
<1>9. \A k \in 1 .. n : /\ ids[k] = src[perm[k]] /\ ids[k] \in Union
                        /\ perm[k] \in 1 .. n
  BY <1>3, <1>7
<1>10. ids \in Injection(1 .. n, Union)
  <2>1. ids \in [1 .. n -> Union]
    BY <1>9
  <2> HIDE DEF ids
  <2> QED
    BY <1>3, <1>7, <1>9, <2>1 DEF Injection, IsInjective
<1> HIDE DEF ids
<1>11. \A k \in 1 .. n : merged[k] = Listed(ids[k])
  BY <1>2, <1>6, <1>9
<1>12. InOrder(n, ids, Earliness)
  <2> SUFFICES ASSUME NEW a \in 1 .. n, NEW b \in 1 .. n, a < b
               PROVE  <<ids[b], ids[a]>> \notin Earliness
    BY DEF InOrder
  <2>1. ~Before(Listed(ids[b]), Listed(ids[a]), params.order)
    BY <1>2, <1>6, <1>9
  <2>2. ids[a] \in Order /\ ids[b] \in Order
    BY <1>4, <1>9
  <2> QED
    BY <2>1, <2>2, EarlinessOfOrders DEF Before, Listed
<1>13. Covers(n, ids, Earliness, Union, Take)
  <2> SUFFICES ASSUME NEW u \in Union, \A a \in 1 .. n : ids[a] # u
               PROVE  \E T \in SUBSET (1 .. n) :
                        /\ Take <= Cardinality(T)
                        /\ \A a \in T, b \in 1 .. n :
                             <<u, ids[b]>> \in Earliness => <<ids[a], ids[b]>> \in Earliness
    BY DEF Covers
  <2>1. PICK t \in FulfilledTenants : u \in seen[t]
    BY DEF Union, FulfilledTenants
  <2>2. RowsOf(t)
    BY DEF RowsInv, FulfilledTenants
  <2>3. ASSUME NEW i \in 1 .. Len(rows[t])
        PROVE  \E k \in 1 .. n : ids[k] = rows[t][i]
    <3>1. PICK l \in 1 .. n : src[l] = rows[t][i]
      BY <1>2
    <3>2. PICK k \in 1 .. n : perm[k] = l
      BY <1>7
    <3> QED
      BY <1>9, <3>1, <3>2
  <2>4. \A i \in 1 .. Len(rows[t]) : rows[t][i] # u
    BY <2>3
  <2>5. /\ Len(rows[t]) = Take
        /\ \A i \in 1 .. Take : ~SoonerInTicks(u, rows[t][i])
        /\ \A i, j \in 1 .. Take : rows[t][i] = rows[t][j] => i = j
    BY <2>1, <2>2, <2>4 DEF RowsOf, Injection, IsInjective
  <2> DEFINE T == {k \in 1 .. n : \E i \in 1 .. Take : ids[k] = rows[t][i]}
             f == [i \in 1 .. Take |-> CHOOSE k \in 1 .. n : ids[k] = rows[t][i]]
  <2>6. \A i \in 1 .. Take : f[i] \in T /\ ids[f[i]] = rows[t][i]
    BY <2>3, <2>5
  <2>7. f \in Injection(1 .. Take, T)
    <3>1. f \in [1 .. Take -> T]
      BY <2>6
    <3> HIDE DEF f, T
    <3> QED
      BY <2>5, <2>6, <3>1 DEF Injection, IsInjective
  <2>8. Take \in Nat
    BY DEF Take, Types, Query
  <2>9. Take <= Cardinality(T)
    <3>1. IsFiniteSet(1 .. n) /\ T \in SUBSET (1 .. n)
      BY <1>1, FS_Interval
    <3> HIDE DEF f, T
    <3>2. IsFiniteSet(T)
      BY <3>1, FS_Subset
    <3>3. Cardinality(1 .. Take) = Take
      BY <2>8, FS_Interval
    <3> QED
      BY <2>7, <3>2, <3>3, FS_Injection
  <2>10. ASSUME NEW a \in T, NEW b \in 1 .. n, <<u, ids[b]>> \in Earliness
         PROVE  <<ids[a], ids[b]>> \in Earliness
    <3>1. ids[a] \in Order /\ ids[b] \in Order /\ u \in Order
      BY <1>4, <1>9
    <3>2. ~SoonerInTicks(u, ids[a])
      BY <2>5
    <3> QED
      BY <2>10, <3>1, <3>2, EarlinessOfOrders
  <2> HIDE DEF T
  <2>11. T \in SUBSET (1 .. n)
    BY DEF T
  <2> QED
    BY <2>9, <2>10, <2>11
<1> QED
  BY <1>8, <1>10, <1>11, <1>12, <1>13 DEF A

LEMMA FirstOfPage ==
  ASSUME NEW p \in Nat \ {0}, NEW l \in Nat \ {0}
  PROVE  /\ (p - 1) * l \in Nat /\ p * l \in Nat
         /\ p * l = (p - 1) * l + l
<1>1. p - 1 \in Nat
  OBVIOUS
<1> QED
  BY <1>1

\* The slice of the merge is the page of the union.
LEMMA SliceIsPage ==
  ASSUME Types, PhaseInv, RowsInv, phase = "fanout",
         NEW merged,
         merged = SortByCreatedAt(FlattenWithTenantMeta(Fulfilled), params.order),
         NEW recs, recs = PaginateSlice(merged, page, params.limit)
  PROVE  /\ recs \in Seq(ListedOf(Union))
         /\ IsPage(recs, Union, Earliness, (page - 1) * params.limit, params.limit)
<1> DEFINE n == Len(merged)
           limit == params.limit
           first == (page - 1) * limit
           last == IF page * limit < n THEN page * limit ELSE n
<1>1. page \in Nat \ {0} /\ limit \in Nat \ {0}
  BY DEF Types, PhaseInv, Query
<1>2. /\ first \in Nat /\ Take \in Nat /\ Take = page * limit
      /\ Take = first + limit
  BY <1>1, FirstOfPage DEF Take
<1>3. merged \in Seq(ListedOf(Union)) /\ n \in Nat
      /\ \A k \in 1 .. n : merged[k] \in ListedOf(Union)
  BY MergeInOrder, LenProperties, ElementOfSeq
<1>4. PICK ids \in Injection(1 .. n, Union) :
        /\ \A k \in 1 .. n : merged[k] = Listed(ids[k])
        /\ InOrder(n, ids, Earliness)
        /\ Covers(n, ids, Earliness, Union, Take)
  BY MergeInOrder
<1>5. Union \in SUBSET Order /\ IsFiniteSet(Union) /\ Cardinality(Union) \in Nat
  BY UnionSelected, SubsetsFinite
<1>6. recs = SubSeq(merged, first + 1, last)
  BY DEF PaginateSlice
<1>7. last = IF Take < n THEN Take ELSE n
  BY <1>2
<1> HIDE DEF n, limit, first, last
<1>8. last \in Nat /\ last <= n /\ last <= Take
  BY <1>2, <1>3, <1>7
<1>9. /\ recs \in Seq(ListedOf(Union))
      /\ Len(recs) = IF first + 1 <= last THEN last - first ELSE 0
      /\ \A k \in 1 .. (last - first) : recs[k] = merged[first + k]
  <2>1. \A i \in (first + 1) .. last : merged[i] \in ListedOf(Union)
    BY <1>2, <1>3, <1>8
  <2>2. /\ recs \in Seq(ListedOf(Union))
        /\ Len(recs) = IF first + 1 <= last THEN last - (first + 1) + 1 ELSE 0
        /\ \A k \in 1 .. (last - (first + 1) + 1) : recs[k] = merged[first + 1 + k - 1]
    BY <1>2, <1>6, <1>8, <2>1, SubSeqProperties
  <2>3. last - (first + 1) + 1 = last - first
        /\ \A k \in 1 .. (last - first) : first + 1 + k - 1 = first + k
    BY <1>2, <1>8
  <2> QED
    BY <2>2, <2>3
<1>10. ASSUME NEW k \in 1 .. Len(recs)
       PROVE  /\ first + k \in 1 .. n /\ first + k <= Take
              /\ recs[k].id = ids[first + k]
  <2>1. k \in 1 .. (last - first) /\ first + k \in 1 .. n /\ first + k <= Take
    BY <1>2, <1>3, <1>8, <1>9
  <2>2. recs[k] = Listed(ids[first + k])
    BY <1>4, <1>9, <2>1
  <2> QED
    BY <2>1, <2>2 DEF Listed
<1>11. Len(recs) <= limit
  BY <1>1, <1>2, <1>8, <1>9
<1>12. ASSUME NEW i \in 1 .. Len(recs), NEW j \in 1 .. Len(recs), i # j
       PROVE  recs[i].id # recs[j].id
  <2>1. first + i # first + j
    BY <1>2, <1>12
  <2> QED
    BY <1>4, <1>10, <2>1 DEF Injection, IsInjective
<1>13. ASSUME NEW k \in 1 .. Len(recs)
       PROVE  /\ Cardinality(EarlierIn(Union, Earliness, recs[k].id)) < first + k
              /\ first + k <= Cardinality(NotLaterIn(Union, Earliness, recs[k].id))
  <2>1. \A u \in Union : <<u, u>> \notin Earliness
    BY <1>5, EarlinessOfOrders
  <2> QED
    BY <1>2, <1>3, <1>4, <1>5, <1>10, <2>1, PlaceIsGlobal
<1>14. Len(recs) < limit => Cardinality(Union) <= first + Len(recs)
  <2> SUFFICES ASSUME Len(recs) < limit
               PROVE  Cardinality(Union) <= first + Len(recs)
    OBVIOUS
  <2>1. n < Take /\ n <= first + Len(recs)
    BY <1>1, <1>2, <1>3, <1>7, <1>9
  <2>2. Cardinality(Union) = n
    BY <1>2, <1>3, <1>4, <1>5, <2>1, ShortHasAll
  <2> QED
    BY <2>1, <2>2
<1> QED
  BY <1>9, <1>11, <1>12, <1>13, <1>14 DEF IsPage, first, limit

\* SumCounts adds up one count after the other.
LEMMA SumCountsAdds ==
  ASSUME NEW batches, NEW n \in Nat, Len(batches) = n,
         \A b \in 1 .. n : batches[b].count \in Nat
  PROVE  \E sum : /\ sum[0] = 0
                  /\ \A b \in 1 .. n : sum[b] = sum[b - 1] + batches[b].count
                  /\ SumCounts(batches) = sum[n]
<1> DEFINE IsSum(g) ==
             g = [i \in 0 .. n |-> IF i = 0 THEN 0 ELSE g[i - 1] + batches[i].count]
           sum == CHOOSE g : IsSum(g)
           f == [x \in Nat \X (1 .. n) |-> x[1] + batches[x[2]].count]
<1>1. f \in Steps(n, Nat)
  BY DEF Steps
<1>2. PICK g : Iterates(n, Nat, 0, f, g)
  <2> HIDE DEF f
  <2> QED
    BY <1>1, Recursion
<1>3. ASSUME NEW i \in 0 .. n
      PROVE  g[i] = IF i = 0 THEN 0 ELSE g[i - 1] + batches[i].count
  <2>1. CASE i = 0
    BY <1>2, <2>1 DEF Iterates
  <2>2. CASE i # 0
    <3>1. i \in 1 .. n /\ i - 1 \in 0 .. n
      BY <2>2
    <3>2. g[i] = f[<<g[i - 1], i>>] /\ g[i - 1] \in Nat
      BY <1>2, <3>1 DEF Iterates
    <3>3. <<g[i - 1], i>> \in Nat \X (1 .. n)
      BY <3>1, <3>2
    <3>4. f[<<g[i - 1], i>>] = g[i - 1] + batches[i].count
      BY <3>3
    <3> QED
      BY <2>2, <3>2, <3>4
  <2> QED
    BY <2>1, <2>2
<1>4. IsSum(g)
  <2>1. g = [i \in 0 .. n |-> g[i]]
    BY <1>2 DEF Iterates
  <2> QED
    BY <1>3, <2>1
<1>5. IsSum(sum)
  <2> HIDE DEF IsSum
  <2> QED
    BY <1>4
<1>6. SumCounts(batches) = sum[n]
  BY Zenon DEF SumCounts
<1> HIDE DEF sum
<1>7. \A i \in 0 .. n : sum[i] = IF i = 0 THEN 0 ELSE sum[i - 1] + batches[i].count
  BY <1>5
<1> HIDE DEF IsSum
<1>8. sum[0] = 0 /\ \A b \in 1 .. n : sum[b] = sum[b - 1] + batches[b].count
  BY <1>7
<1> QED
  BY <1>6, <1>8

\* The total counts what is in the union, give or take what was written since.
LEMMA TotalOfMerge ==
  ASSUME Types, PhaseInv, RowsInv, CountInv, phase = "fanout",
         NEW total, total = SumCounts(Fulfilled)
  PROVE  /\ total \in Nat
         /\ total - Cardinality(Union) \in (-since) .. since
<1> DEFINE n == Len(Fulfilled)
<1>1. n \in Nat
  BY BatchesOfTenants, LenProperties
<1>2. PICK who \in Bijection(1 .. n, FulfilledTenants) :
        \A b \in 1 .. n : Fulfilled[b] = BatchOf(who[b])
  BY BatchesOfTenants
<1>3. /\ \A b \in 1 .. n : who[b] \in FulfilledTenants
      /\ \A b, c \in 1 .. n : who[b] = who[c] => b = c
      /\ \A t \in FulfilledTenants : \E b \in 1 .. n : who[b] = t
  BY <1>2 DEF Bijection, Injection, Surjection, IsInjective
<1>4. PICK T \in SUBSET Order :
        Cardinality(T) <= since /\ \A t \in Tenant : CountOf(t, T)
  BY DEF CountInv
<1> DEFINE Counted(t, X) == count[t] = Cardinality(X) /\ SymDiff(X, seen[t]) \subseteq T
           sets == [b \in 1 .. n |->
                      CHOOSE X \in SUBSET Selected(who[b]) : Counted(who[b], X)]
<1>5. ASSUME NEW b \in 1 .. n
      PROVE  sets[b] \in SUBSET Selected(who[b]) /\ Counted(who[b], sets[b])
  <2>1. \E X \in SUBSET Selected(who[b]) : Counted(who[b], X)
    BY <1>3, <1>4 DEF CountOf, FulfilledTenants
  <2> HIDE DEF Counted
  <2> QED
    BY <2>1
<1> HIDE DEF sets, n
<1>6. \A b \in 1 .. n : /\ sets[b] \in SUBSET Order /\ IsFiniteSet(sets[b])
                        /\ \A o \in sets[b] : Owner[o] = who[b]
  BY <1>5, SubsetsFinite DEF Selected
<1>7. \A b, c \in 1 .. n : b # c => sets[b] \cap sets[c] = {}
  BY <1>3, <1>6
<1>8. \A b \in 1 .. n : Fulfilled[b].count = Cardinality(sets[b])
  <2> SUFFICES ASSUME NEW b \in 1 .. n
               PROVE  Fulfilled[b].count = Cardinality(sets[b])
    OBVIOUS
  <2>1. Fulfilled[b] = BatchOf(who[b])
    BY <1>2
  <2>2. Fulfilled[b].count = count[who[b]]
    BY ONLY <2>1 DEF BatchOf
  <2> QED
    BY <1>5, <2>2
<1>9. \A b \in 1 .. n : Fulfilled[b].count \in Nat
  BY <1>6, <1>8, FS_CardinalityType
<1>10. PICK sum : /\ sum[0] = 0
                  /\ \A b \in 1 .. n : sum[b] = sum[b - 1] + Fulfilled[b].count
                  /\ total = sum[n]
  BY <1>1, <1>9, SumCountsAdds DEF n
<1> DEFINE X == FirstSets(sets, n)
<1>11. IsFiniteSet(X) /\ total = Cardinality(X)
  <2>1. SumsSizes(n, sets, sum)
    BY <1>8, <1>10 DEF SumsSizes
  <2> QED
    BY <1>1, <1>6, <1>7, <1>10, <2>1, SumOfSizes
<1>12. X \ Union \subseteq T /\ Union \ X \subseteq T
  <2>1. ASSUME NEW o \in X, o \notin Union
        PROVE  o \in T
    <3>1. PICK b \in 1 .. n : o \in sets[b]
      BY DEF FirstSets
    <3>2. o \notin seen[who[b]]
      BY <1>3, <2>1 DEF Union, FulfilledTenants
    <3> QED
      BY <1>5, <3>1, <3>2 DEF SymDiff
  <2>2. ASSUME NEW o \in Union, o \notin X
        PROVE  o \in T
    <3>1. PICK t \in FulfilledTenants : o \in seen[t]
      BY DEF Union, FulfilledTenants
    <3>2. PICK b \in 1 .. n : who[b] = t
      BY <1>3
    <3>3. o \notin sets[b]
      BY <2>2 DEF FirstSets
    <3> QED
      BY <1>5, <3>1, <3>2, <3>3 DEF SymDiff
  <2> HIDE DEF X
  <2> QED
    BY <2>1, <2>2
<1>13. IsFiniteSet(Union) /\ IsFiniteSet(T)
  BY UnionSelected, SubsetsFinite
<1> HIDE DEF X
<1>14. Cardinality(X) - Cardinality(Union) \in (-Cardinality(T)) .. Cardinality(T)
  BY <1>11, <1>12, <1>13, SizesDiffer
<1>15. /\ Cardinality(X) \in Nat /\ Cardinality(Union) \in Nat
       /\ Cardinality(T) \in Nat /\ since \in Nat
  BY <1>11, <1>13, FS_CardinalityType DEF Types
<1> QED
  BY <1>4, <1>11, <1>14, <1>15

LEMMA IndexIInv ==
  ASSUME IInv, IndexAllTenants
  PROVE  IInv'
<1> USE DEF dataVars, batchVars, noteVars
<1> DEFINE total == SumCounts(Fulfilled)
           merged == SortByCreatedAt(FlattenWithTenantMeta(Fulfilled), params.order)
           recs == PaginateSlice(merged, page, params.limit)
           limit == params.limit
           first == (page - 1) * limit
<1>1. /\ UNCHANGED <<active, stored, deleted, created, params, page, tenants,
                     state, rows, count, seen, since, writes, disturbed>>
      /\ phase = "fanout" /\ phase' = "answered" /\ AllSettled
      /\ answer' = [records |-> recs, totalRecords |-> total,
                    totalPages |-> TotalPages(total),
                    nextPage |-> page < TotalPages(total)]
      /\ delivered' = delivered \o recs
  BY DEF IndexAllTenants
<1>2. Types /\ PhaseInv /\ RowsInv /\ CountInv
  BY DEF IInv
<1>3. total \in Nat /\ total - Cardinality(Union) \in (-since) .. since
  BY <1>1, <1>2, TotalOfMerge
<1>4. recs \in Seq(ListedOf(Union)) /\ IsPage(recs, Union, Earliness, first, limit)
  BY <1>1, <1>2, SliceIsPage
<1>5. page \in Nat \ {0} /\ limit \in Nat \ {0} /\ since \in Nat
  BY <1>1, <1>2 DEF Types, PhaseInv, Query
<1>6. /\ Union' = Union /\ Earliness' = Earliness /\ Wanted' = Wanted
      /\ SelectedOrders' = SelectedOrders /\ ActiveTenants' = ActiveTenants
      /\ \A S : ListedOf(S)' = ListedOf(S)
  BY <1>1, QueryFrame, WantedFrame, UnionFrame
<1>7. Union \in SUBSET Order /\ Union \subseteq SelectedOrders
      /\ IsFiniteSet(Union) /\ Cardinality(Union) \in Nat
  BY <1>1, <1>2, UnionSelected, SubsetsFinite
<1> HIDE DEF total, merged, recs
<1>8. TotalPages(total) \in Nat
      /\ (page < TotalPages(total) <=> page * limit < total)
  <2>1. TotalPages(total) \in Nat
    BY <1>3, <1>5 DEF TotalPages
  <2> QED
    BY <1>3, <1>5, <2>1, PageAfterThis DEF TotalPages
<1>9. Types'
  BY <1>1, <1>2 DEF Types
<1>10. PhaseInv'
  <2>1. \A t \in Tenant : state[t] \in {"none", "fulfilled", "rejected"}
    <3> SUFFICES ASSUME NEW t \in Tenant, state[t] # "none"
                 PROVE  state[t] \in {"fulfilled", "rejected"}
      OBVIOUS
    <3>1. PICK i \in 1 .. Len(tenants) : tenants[i] = t
      BY <1>1, <1>2 DEF PhaseInv, Bijection, Surjection
    <3>2. i \in DOMAIN tenants
      BY <1>1, <1>2, LenProperties DEF PhaseInv
    <3> QED
      BY <1>1, <3>1, <3>2 DEF AllSettled
  <2> QED
    BY <1>1, <1>2, <1>6, <2>1 DEF PhaseInv
<1>11. RowsInv'
  BY <1>1, <1>2, RowsFrame DEF RowsInv
<1>12. CountInv'
  BY <1>1, <1>2, QueryFrame, WantedFrame DEF CountInv, CountOf
<1>13. AnswerInv'
  <2>1. answer'.records = recs /\ answer'.totalRecords = total
        /\ answer'.totalPages = TotalPages(total)
    BY <1>1
  <2> QED
    BY <1>1, <1>3, <1>4, <1>6, <1>8, <2>1 DEF AnswerInv
<1>14. TotalsWithinWrites'
  <2>1. answer'.totalRecords = total
        /\ answer'.nextPage = (page < TotalPages(total))
    BY <1>1
  <2>2. since = 0 => total = Cardinality(Union)
    BY <1>3, <1>7
  <2> QED
    BY <1>1, <1>3, <1>6, <1>8, <2>1, <2>2 DEF TotalsWithinWrites
<1>15. DeliveredInv'
  <2>1. delivered \in Seq(ListedOf(SelectedOrders))
    BY DEF IInv, DeliveredInv
  <2>2. recs \in Seq(ListedOf(SelectedOrders))
    <3>1. ListedOf(Union) \subseteq ListedOf(SelectedOrders)
      BY <1>7 DEF ListedOf
    <3> QED
      BY <1>4, <3>1, SeqMonotonic
  <2>3. delivered' \in Seq(ListedOf(SelectedOrders))
    BY <1>1, <2>1, <2>2, ConcatProperties
  <2> QED
    BY <1>1, <1>6, <2>3 DEF DeliveredInv
<1>16. QuietInv'
  BY <1>1, WantedFrame DEF IInv, QuietInv
<1>17. PlacesInv'
  <2> SUFFICES ASSUME ~disturbed
               PROVE  PlacesInv'
    BY <1>1 DEF PlacesInv
  <2>1. Union = Wanted
    <3>1. \A t \in Tenant : state[t] = "fulfilled" <=> t \in ActiveTenants
      BY <1>1, <1>6, <1>10, <1>16 DEF PhaseInv, QuietInv
    <3>2. \A t \in Tenant : state[t] = "fulfilled" => seen[t] = Matching(t)
      BY DEF IInv, QuietInv
    <3>3. ActiveTenants \subseteq Tenant
      BY <1>2 DEF ActiveTenants, Types
    <3> QED
      BY <3>1, <3>2, <3>3 DEF Union, Wanted
  <2> DEFINE N == Cardinality(Wanted)
             l == Len(delivered)
             m == Len(recs)
             Placed(d, k) ==
               /\ d.id \in Wanted
               /\ Cardinality(EarlierIn(Wanted, Earliness, d.id)) < k
               /\ k <= Cardinality(NotLaterIn(Wanted, Earliness, d.id))
  <2>2. /\ l = first /\ l <= N
        /\ \A k \in 1 .. l : Placed(delivered[k], k)
    BY <1>1 DEF IInv, PlacesInv
  <2>3. /\ m \in Nat /\ \A k \in 1 .. m : recs[k] \in ListedOf(Union)
        /\ N \in Nat
    BY <1>4, <1>7, <2>1, LenProperties, ElementOfSeq
  <2>4. first \in Nat /\ page * limit = first + limit
    BY <1>5, FirstOfPage
  <2>5. \A k \in 1 .. m : Placed(recs[k], first + k)
    BY <1>4, <2>1, <2>3 DEF IsPage, ListedOf, Listed
  <2>6. /\ Len(delivered') = l + m
        /\ \A k \in 1 .. (l + m) :
             delivered'[k] = IF k <= l THEN delivered[k] ELSE recs[k - l]
    <3>1. /\ delivered \in Seq(ListedOf(SelectedOrders))
          /\ recs \in Seq(ListedOf(SelectedOrders))
      <4>1. ListedOf(Union) \subseteq ListedOf(SelectedOrders)
        BY <1>7 DEF ListedOf
      <4> QED
        BY <1>4, <4>1, SeqMonotonic DEF IInv, DeliveredInv
    <3> QED
      BY <1>1, <3>1, ConcatProperties
  <2>7. l + m = IF N <= page * limit THEN N ELSE page * limit
    <3>1. m <= limit /\ (m < limit => N <= first + m)
      BY <1>4, <2>1 DEF IsPage
    <3>2. first + m <= N
      <4>1. CASE m = 0
        BY <2>2, <2>4, <4>1
      <4>2. CASE m # 0
        <5>1. m \in 1 .. m
          BY <2>3, <4>2
        <5>2. first + m <= Cardinality(NotLaterIn(Wanted, Earliness, recs[m].id))
          BY <2>5, <5>1
        <5>3. NotLaterIn(Wanted, Earliness, recs[m].id) \in SUBSET Wanted
          BY DEF NotLaterIn
        <5>4. Cardinality(NotLaterIn(Wanted, Earliness, recs[m].id)) <= N
          BY <1>7, <2>1, <5>3, FS_Subset
        <5>5. Cardinality(NotLaterIn(Wanted, Earliness, recs[m].id)) \in Nat
          BY <1>7, <2>1, <5>3, FS_Subset, FS_CardinalityType
        <5> QED
          BY <2>3, <2>4, <5>2, <5>4, <5>5
      <4> QED
        BY <4>1, <4>2
    <3> HIDE DEF N, m, l, first, limit
    <3> QED
      BY <1>5, <2>2, <2>3, <2>4, <3>1, <3>2
  <2> HIDE DEF Placed, l, m, N, first
  <2>8. ASSUME NEW k \in 1 .. (l + m)
        PROVE  Placed(delivered'[k], k)
    <3>1. CASE k <= l
      <4>1. k \in 1 .. l
        BY <2>2, <2>3, <2>4, <3>1
      <4> QED
        BY <2>2, <2>6, <3>1, <4>1
    <3>2. CASE ~(k <= l)
      <4>1. k - l \in 1 .. m /\ first + (k - l) = k
        BY <2>2, <2>3, <2>4, <3>2
      <4> QED
        BY <2>5, <2>6, <3>2, <4>1
    <3> QED
      BY <3>1, <3>2
  <2> QED
    BY <1>1, <1>6, <2>6, <2>7, <2>8 DEF PlacesInv, Placed, N
<1> QED
  BY <1>9, <1>10, <1>11, <1>12, <1>13, <1>14, <1>15, <1>16, <1>17 DEF IInv

LEMMA StutterIInv ==
  ASSUME IInv, UNCHANGED vars
  PROVE  IInv'
<1> USE DEF dataVars, requestVars, batchVars, noteVars
<1>1. UNCHANGED <<active, stored, deleted, created, params, page, phase, tenants,
                  state, rows, count, seen, since, writes, disturbed, answer,
                  delivered>>
  BY DEF vars
<1>2. Types' /\ PhaseInv'
  BY <1>1, QueryFrame DEF IInv, Types, PhaseInv
<1>3. RowsInv'
  BY <1>1, RowsFrame DEF IInv, RowsInv
<1>4. \A t : Matching(t)' = Matching(t) /\ Selected(t)' = Selected(t)
  BY <1>1, WantedFrame, QueryFrame
<1>5. CountInv'
  BY <1>1, <1>4 DEF IInv, CountInv, CountOf
<1>6. Union' = Union
  BY <1>1, UnionFrame
<1>7. AnswerInv' /\ TotalsWithinWrites'
  BY <1>1, <1>6, QueryFrame DEF IInv, AnswerInv, TotalsWithinWrites
<1>8. DeliveredInv'
  BY <1>1, QueryFrame DEF IInv, DeliveredInv
<1>9. QuietInv'
  BY <1>1, <1>4 DEF IInv, QuietInv
<1>10. PlacesInv'
  BY <1>1, WantedFrame, QueryFrame DEF IInv, PlacesInv
<1> QED
  BY <1>2, <1>3, <1>5, <1>7, <1>8, <1>9, <1>10 DEF IInv

LEMMA NextIInv == IInv /\ [Next]_vars => IInv'
<1> SUFFICES ASSUME IInv, [Next]_vars PROVE IInv'
  OBVIOUS
<1>1. CASE Request
  BY <1>1, RequestIInv
<1>2. CASE FetchActiveTenants
  BY <1>2, FetchIInv
<1>3. ASSUME NEW t \in Tenant, FetchBatchFromTenant(t)
      PROVE  IInv'
  BY <1>3, ConnectOrFailIInv, QueryIInv, CountIInv DEF FetchBatchFromTenant
<1>4. CASE IndexAllTenants
  BY <1>4, IndexIInv
<1>5. ASSUME NEW o \in Order, InsertOrder(o) \/ DeleteOrder(o)
      PROVE  IInv'
  BY <1>5, WriteIInv
<1>6. CASE UNCHANGED vars
  BY <1>6, StutterIInv
<1> QED
  BY <1>1, <1>2, <1>3, <1>4, <1>5, <1>6 DEF Next, Serve

LEMMA OrdersInvariant == Spec => []IInv
BY InitIInv, NextIInv, PTL DEF Spec

-----------------------------------------------------------------------------
(* What it implies.                                                         *)

\* Every variable keeps its type; the answer is of orders there are, and its
\* totals are no negative numbers (order.service.ts:43-50).
THEOREM TypeCorrect == Spec => []TypeOK
<1>1. IInv => TypeOK
  <2> SUFFICES ASSUME IInv PROVE TypeOK
    OBVIOUS
  <2>1. tenants \in Seq(Tenant)
    <3>1. << >> \in Seq(Tenant)
      OBVIOUS
    <3> QED
      BY <3>1 DEF IInv, Types, PhaseInv
  <2>2. ASSUME NEW i \in DOMAIN answer.records
        PROVE  answer.records[i].id \in Order
    <3>1. CASE phase # "answered"
      BY <2>2, <3>1 DEF IInv, AnswerInv, NoAnswer
    <3>2. CASE phase = "answered"
      <4>1. answer.records[i] \in ListedOf(Union)
        BY <2>2, <3>2 DEF IInv, AnswerInv
      <4>2. Union \subseteq Order
        BY <3>2, UnionSelected DEF IInv
      <4> QED
        BY <4>1, <4>2 DEF ListedOf, Listed
    <3> QED
      BY <3>1, <3>2
  <2>3. since \in 0 .. MaxWrites
    BY MaxWritesIsNat DEF IInv, Types
  <2> QED
    BY <2>1, <2>2, <2>3 DEF IInv, Types, AnswerInv, TypeOK
<1> QED
  BY <1>1, OrdersInvariant, PTL

\* However many tenants answer and however many rows they have, a page holds
\* the rows with its places in the order of all their rows: taking page *
\* limit rows of each is enough (order.service.ts:35-45, 59-69).
THEOREM PageAlwaysGlobal == Spec => []PageIsGlobal
<1>1. IInv => PageIsGlobal
  <2> SUFFICES ASSUME IInv, phase = "answered" PROVE PageIsGlobal
    BY DEF PageIsGlobal
  <2> DEFINE records == answer.records
             first == (page - 1) * params.limit
             Earlier(r) == {u \in Union : Before(Row(u), r, params.order)}
             NotLater(r) == {u \in Union : ~Before(r, Row(u), params.order)}
  <2>1. /\ records \in Seq(ListedOf(Union))
        /\ IsPage(records, Union, Earliness, first, params.limit)
    BY DEF IInv, AnswerInv
  <2>2. Union \subseteq Order
    BY UnionSelected DEF IInv
  <2>3. ASSUME NEW i \in DOMAIN records
        PROVE  /\ i \in 1 .. Len(records)
               /\ records[i].id \in Union
               /\ records[i] = Listed(records[i].id)
    BY <2>1 DEF ListedOf, Listed
  <2>4. ASSUME NEW o \in Union
        PROVE  /\ Earlier(Listed(o)) = EarlierIn(Union, Earliness, o)
               /\ NotLater(Listed(o)) = NotLaterIn(Union, Earliness, o)
    BY <2>2 DEF EarlierIn, NotLaterIn, Earliness, Before, Row, Listed
  <2>5. ASSUME NEW i \in DOMAIN records
        PROVE  /\ records[i].id \in Union
               /\ Cardinality(Earlier(records[i])) < first + i
               /\ first + i <= Cardinality(NotLater(records[i]))
    <3>1. /\ Earlier(records[i]) = EarlierIn(Union, Earliness, records[i].id)
          /\ NotLater(records[i]) = NotLaterIn(Union, Earliness, records[i].id)
      BY <2>3, <2>4
    <3> HIDE DEF Earlier, NotLater, first
    <3> QED
      BY <2>1, <2>3, <3>1 DEF IsPage
  <2>6. DOMAIN records = 1 .. Len(records)
    BY <2>1
  <2>7. /\ \A i, j \in DOMAIN records : i # j => records[i].id # records[j].id
        /\ Len(records) < params.limit =>
             Cardinality(Union) <= first + Len(records)
    BY <2>1, <2>6 DEF IsPage
  <2> QED
    BY <2>5, <2>7 DEF PageIsGlobal
<1> QED
  BY <1>1, OrdersInvariant, PTL

\* The total is off by no more than the writes of others since the request
\* began, and without any there is a next page exactly when rows are left,
\* for any number of tenants, rows and writes (order.service.ts:43-47, 83).
THEOREM TotalsAlwaysWithinWrites == Spec => []TotalsWithinWrites
<1>1. IInv => TotalsWithinWrites
  BY DEF IInv
<1> QED
  BY <1>1, OrdersInvariant, PTL

\* Whatever the tenants answer and whichever of them fail, each record stands
\* under the tenant it is of, and that tenant and the filter were asked for
\* (order.service.ts:53-57, 73-75 and order.helper.ts:9-17).
THEOREM RecordsAlwaysOfSelectedTenants == Spec => []RecordsOfSelectedTenants
<1>1. IInv => RecordsOfSelectedTenants
  <2> SUFFICES ASSUME IInv, NEW i \in DOMAIN delivered
               PROVE  LET r == delivered[i]
                      IN  /\ r.tenantId = Owner[r.id]
                          /\ r.tenantId \in active
                          /\ params.tenantIds # {} => r.tenantId \in params.tenantIds
                          /\ params.status # {} => StatusOf[r.id] \in params.status
    BY DEF RecordsOfSelectedTenants
  <2>1. PICK o \in SelectedOrders : delivered[i] = Listed(o)
    BY DEF IInv, DeliveredInv, ListedOf
  <2>2. delivered[i].id = o /\ delivered[i].tenantId = Owner[o]
    BY <2>1 DEF Listed
  <2>3. Owner[o] \in ActiveTenants
        /\ (params.status = {} \/ StatusOf[o] \in params.status)
    BY DEF SelectedOrders, Selected
  <2> QED
    BY <2>2, <2>3 DEF ActiveTenants
<1> QED
  BY <1>1, OrdersInvariant, PTL

\* Pages put together from separate requests neither repeat nor skip an order,
\* for any number of orders of different milliseconds, as long as nobody
\* writes and no tenant fails meanwhile (order.service.ts:45-50, 59-69).
THEOREM PagesAlwaysCoverDistinct == Spec => []PagesCoverDistinct
<1>1. IInv => PagesCoverDistinct
  <2> SUFFICES ASSUME IInv, QuietSession,
                      \A o, p \in Wanted : o # p => Millis(o) # Millis(p)
               PROVE  DeliveredOnce
    BY DEF PagesCoverDistinct
  <2> DEFINE n == Len(delivered)
             ids == [k \in 1 .. n |-> delivered[k].id]
  <2>1. /\ IsFiniteSet(Wanted) /\ Cardinality(Wanted) \in Nat
        /\ Wanted \subseteq Order
    <3>1. Wanted \in SUBSET Order
      BY DEF IInv, Types, Wanted, Matching
    <3> QED
      BY <3>1, SubsetsFinite
  <2>2. n = Cardinality(Wanted)
    <3>1. Union = Wanted
      BY QuietUnion DEF IInv, QuietSession
    <3>2. since = 0
      BY DEF IInv, QuietInv, Types, QuietSession
    <3>3. ~(Cardinality(Wanted) > page * params.limit)
      BY <3>1, <3>2 DEF IInv, TotalsWithinWrites, QuietSession
    <3>4. page * params.limit \in Nat
      BY DEF IInv, Types, Query
    <3>5. Cardinality(Wanted) <= page * params.limit
      BY <2>1, <3>3, <3>4
    <3> QED
      BY <3>5 DEF IInv, PlacesInv, QuietSession
  <2>3. DOMAIN delivered = 1 .. n
    BY DEF IInv, DeliveredInv
  <2>4. \A o, p \in Wanted : o # p => <<o, p>> \in Earliness \/ <<p, o>> \in Earliness
    BY <2>1, EarlinessOfOrders DEF IInv
  <2>5. \A k \in 1 .. n :
          /\ delivered[k].id \in Wanted
          /\ Cardinality(EarlierIn(Wanted, Earliness, delivered[k].id)) < k
          /\ k <= Cardinality(NotLaterIn(Wanted, Earliness, delivered[k].id))
    BY DEF IInv, PlacesInv, QuietSession
  <2> HIDE DEF n
  <2>6. ids \in Bijection(1 .. n, Wanted)
    <3>1. /\ ids \in [1 .. n -> Wanted]
          /\ \A k \in 1 .. n :
               /\ Cardinality(EarlierIn(Wanted, Earliness, ids[k])) < k
               /\ k <= Cardinality(NotLaterIn(Wanted, Earliness, ids[k]))
      BY <2>5
    <3> HIDE DEF ids
    <3> QED
      BY <2>1, <2>2, <2>4, <3>1, PlacesDecide
  <2>7. \A o \in Wanted : \E k \in 1 .. n : delivered[k].id = o
    BY <2>6 DEF Bijection, Surjection
  <2>8. {delivered[i].id : i \in DOMAIN delivered} = Wanted
    BY <2>3, <2>5, <2>7
  <2> QED
    BY <2>2, <2>8 DEF DeliveredOnce, n
<1> QED
  BY <1>1, OrdersInvariant, PTL

=============================================================================
