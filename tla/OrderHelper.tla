---------------------------- MODULE OrderHelper ----------------------------
(***************************************************************************)
(* The pure functions of src/src/tenants/orders/order.helper.ts.           *)
(*                                                                         *)
(* A batch is what one tenant's database answered: the tenant, its orders  *)
(* as a sequence of rows, and a count.  A row has an id and a createdAt,   *)
(* the time in milliseconds that new Date(...).getTime() gives; the other  *)
(* columns play no part here.  flattenWithTenantMeta adds the tenant.      *)
(***************************************************************************)
EXTENDS Integers, SequencesExt

\* Mutant of FlattenWithTenantMeta: every row gets the first batch's tenant.
FlattenWithFirstMeta(batches) ==
  FlattenSeq([b \in 1 .. Len(batches) |->
    [i \in 1 .. Len(batches[b].orders) |->
      [id        |-> batches[b].orders[i].id,
       createdAt |-> batches[b].orders[i].createdAt,
       tenantId  |-> batches[1].tenantId]]])

FlattenWithTenantMeta(batches) ==
  FlattenSeq([b \in 1 .. Len(batches) |->
    [i \in 1 .. Len(batches[b].orders) |->
      [id        |-> batches[b].orders[i].id,
       createdAt |-> batches[b].orders[i].createdAt,
       tenantId  |-> batches[b].tenantId]]])

\* a comes before b in the direction asked for.
Before(a, b, direction) ==
  IF direction = "DESC" THEN b.createdAt < a.createdAt
                        ELSE a.createdAt < b.createdAt

\* Array.prototype.sort is stable: rows with equal times keep their order.
SortByCreatedAt(records, direction) ==
  LET Precedes(i, j) ==
        \/ Before(records[i], records[j], direction)
        \/ i < j /\ ~Before(records[j], records[i], direction)
      Place(j) == Cardinality({i \in DOMAIN records : Precedes(i, j)})
  IN  [n \in DOMAIN records |->
         records[CHOOSE j \in DOMAIN records : Place(j) = n - 1]]

\* Mutant of PaginateSlice: slice's exclusive end is taken for inclusive.
SliceInclusive(records, page, limit) ==
  SubSeq(records, (page - 1) * limit + 1,
         IF page * limit + 1 < Len(records) THEN page * limit + 1
                                            ELSE Len(records))

\* slice stops at the end of the array.
PaginateSlice(records, page, limit) ==
  SubSeq(records, (page - 1) * limit + 1,
         IF page * limit < Len(records) THEN page * limit ELSE Len(records))

\* Mutant of SumCounts: it adds up the rows fetched, not the rows counted.
SumFetched(batches) ==
  LET sum[n \in 0 .. Len(batches)] ==
        IF n = 0 THEN 0 ELSE sum[n - 1] + Len(batches[n].orders)
  IN  sum[Len(batches)]

SumCounts(batches) ==
  LET sum[n \in 0 .. Len(batches)] ==
        IF n = 0 THEN 0 ELSE sum[n - 1] + batches[n].count
  IN  sum[Len(batches)]
=============================================================================
