---------------------------- MODULE OrderService ----------------------------
(***************************************************************************)
(* The cross-tenant order listing, POST /api/v1/orders/admin/all:          *)
(* OrderController.indexAllTenants and OrderService.                       *)
(*                                                                         *)
(* A client asks for page 1 and follows nextPage.  For every page the      *)
(* service reads the active tenants from the admin database, asks each     *)
(* tenant's database at the same time for the page * limit rows that could *)
(* be on the page and for a count, waits until every tenant has answered   *)
(* or failed, and merges what arrived.  The tenants' databases are written *)
(* by others meanwhile, and rows and count are read by two statements.     *)
(*                                                                         *)
(* createdAt is a PostgreSQL timestamp, finer than the millisecond of the  *)
(* JavaScript Date it becomes.  Time is counted in ticks, TicksPerMs of    *)
(* them to a millisecond.                                                  *)
(***************************************************************************)
EXTENDS OrderHelper

CONSTANTS
  Tenant,      \* ids of tenants
  Order,       \* orders that may exist
  Owner,       \* Owner[o]: the tenant in whose database order o is
  Status,      \* values of the status column
  StatusOf,    \* StatusOf[o]: the status of order o
  Times,       \* values of the createdAt column, in ticks
  TicksPerMs,  \* ticks to a millisecond
  Actives,     \* which tenants may be the active ones
  Queries,     \* limit, order, tenantIds and status a client may ask with
  MaxWrites    \* bound on the writes others make to the tenants' databases

\* What the validator lets through; an absent array is an empty one.
Query == [limit : Nat \ {0}, order : {"ASC", "DESC"},
          tenantIds : SUBSET Tenant, status : SUBSET Status]

\* Ids are integers of 32 bits.
ASSUME TenantsAndOrdersFinite == IsFiniteSet(Tenant) /\ IsFiniteSet(Order)
ASSUME OwnerIsTenant == Owner \in [Order -> Tenant]
ASSUME TimesAreTicks == Times \subseteq Nat /\ TicksPerMs \in Nat \ {0}
ASSUME StatusIsStatus == StatusOf \in [Order -> Status]
ASSUME ActivesAreTenants == Actives \subseteq SUBSET Tenant
ASSUME QueriesAreQueries == Queries \subseteq Query
ASSUME MaxWritesIsNat == MaxWrites \in Nat

VARIABLES
  active,     \* the tenants whose row has isActive
  stored,     \* the orders that are rows now
  deleted,    \* the orders that were rows and are not any more
  created,    \* created[o]: the createdAt of order o
  params,     \* the Query of the client's requests
  page,       \* the page asked for, 0 before the first request
  phase,      \* where the request is
  tenants,    \* the result of fetchActiveTenants
  state,      \* state[t]: where fetchBatchFromTenant is for tenant t
  rows,       \* rows[t]: the orders it read
  count,      \* count[t]: the count it read
  answer,     \* the response to the last request
  seen,       \* seen[t]: the rows that matched when rows[t] was read
  since,      \* the number of writes since the request began
  writes,     \* the number of writes
  disturbed,  \* whether a write or a failure fell into the paging session
  delivered   \* the records of all pages of the session, in order

dataVars    == <<active, stored, deleted, created>>
requestVars == <<params, page, phase, tenants>>
batchVars   == <<state, rows, count, seen>>
noteVars    == <<since, writes, disturbed>>
vars == <<dataVars, requestVars, batchVars, noteVars, answer, delivered>>

NoAnswer == [records |-> << >>, totalRecords |-> 0, totalPages |-> 0,
             nextPage |-> FALSE]

Millis(o) == created[o] \div TicksPerMs

Row(o) == [id |-> o, createdAt |-> Millis(o)]

TypeOK ==
  /\ active \subseteq Tenant
  /\ stored \subseteq Order
  /\ deleted \subseteq Order \ stored
  /\ created \in [Order -> Times]
  /\ params \in Query
  /\ page \in Nat
  /\ phase \in {"idle", "tenants", "fanout", "answered", "threw"}
  /\ tenants \in Seq(Tenant)
  /\ state \in [Tenant -> {"none", "connecting", "querying", "counting",
                           "fulfilled", "rejected"}]
  /\ rows \in [Tenant -> Seq(Order)]
  /\ count \in [Tenant -> Nat]
  /\ \A i \in DOMAIN answer.records : answer.records[i].id \in Order
  /\ answer.totalRecords \in Nat /\ answer.totalPages \in Nat
  /\ seen \in [Tenant -> SUBSET Order]
  /\ since \in 0 .. MaxWrites /\ writes \in 0 .. MaxWrites
  /\ disturbed \in BOOLEAN

-----------------------------------------------------------------------------
(* The tenants' databases as others write them.                             *)

InsertOrder(o) ==
  /\ writes < MaxWrites
  /\ o \notin stored \cup deleted
  /\ stored' = stored \cup {o}
  /\ since' = since + 1
  /\ writes' = writes + 1
  /\ disturbed' = TRUE
  /\ UNCHANGED <<active, deleted, created, requestVars, batchVars, answer,
                 delivered>>

DeleteOrder(o) ==
  /\ writes < MaxWrites
  /\ o \in stored
  /\ stored' = stored \ {o}
  /\ deleted' = deleted \cup {o}
  /\ since' = since + 1
  /\ writes' = writes + 1
  /\ disturbed' = TRUE
  /\ UNCHANGED <<active, created, requestVars, batchVars, answer, delivered>>

-----------------------------------------------------------------------------
(* The request.                                                             *)

\* The client asks for the first page, or for the next one while there is one.
Request ==
  /\ \/ phase = "idle"
     \/ phase = "answered" /\ answer.nextPage
  /\ page' = page + 1
  /\ phase' = "tenants"
  /\ since' = 0
  /\ tenants' = << >>
  /\ state' = [t \in Tenant |-> "none"]
  /\ rows' = [t \in Tenant |-> << >>]
  /\ count' = [t \in Tenant |-> 0]
  /\ seen' = [t \in Tenant |-> {}]
  /\ answer' = NoAnswer
  /\ UNCHANGED <<dataVars, params, writes, disturbed, delivered>>

\* Mutant of ActiveTenants: tenantIds are asked for whether active or not.
NamedTenants ==
  IF params.tenantIds = {} THEN active ELSE params.tenantIds

\* isActive, and among tenantIds if there are any.
ActiveTenants ==
  {t \in active : params.tenantIds = {} \/ t \in params.tenantIds}

\* getMany answers with the tenants in an order nobody asked for, or fails.
FetchActiveTenants ==
  /\ phase = "tenants"
  /\ \/ \E s \in SetToSeqs(ActiveTenants) :
          /\ s # << >>
          /\ tenants' = s
          /\ phase' = "fanout"
          /\ state' = [t \in Tenant |->
                         IF t \in ActiveTenants THEN "connecting" ELSE "none"]
          /\ UNCHANGED disturbed
     \/ /\ ActiveTenants = {}
        /\ phase' = "answered"
        /\ UNCHANGED <<tenants, state, disturbed>>
     \/ /\ phase' = "threw"
        /\ disturbed' = TRUE
        /\ UNCHANGED <<tenants, state>>
  /\ UNCHANGED <<dataVars, params, page, rows, count, seen, since, writes,
                 answer, delivered>>

-----------------------------------------------------------------------------
(* fetchBatchFromTenant.                                                    *)

\* Mutant of Take: every tenant is asked for one page only.
TakeOnePage == params.limit

\* As many rows as the page and the pages before it can hold.
Take == page * params.limit

\* The where clause; status stands for the filters, which are all alike.
Matching(t) ==
  {o \in stored :
     Owner[o] = t /\ (params.status = {} \/ StatusOf[o] \in params.status)}

\* Every order in which the database may return S: createdAt is sorted in
\* ticks, and nothing decides between rows that have the same.
SortedRows(S) ==
  {s \in SetToSeqs(S) : \A i, j \in DOMAIN s : i < j =>
     IF params.order = "DESC" THEN created[s[i]] >= created[s[j]]
                              ELSE created[s[i]] <= created[s[j]]}

\* getConnection resolves.
Connect(t) ==
  /\ state[t] = "connecting"
  /\ state' = [state EXCEPT ![t] = "querying"]
  /\ UNCHANGED <<dataVars, requestVars, rows, count, seen, noteVars, answer,
                 delivered>>

\* The first statement of getManyAndCount.  Fewer rows than asked for are all
\* there are, and TypeORM then counts them itself.
QueryRows(t) ==
  /\ state[t] = "querying"
  /\ \E s \in SortedRows(Matching(t)) :
       LET r == SubSeq(s, 1, IF Take < Len(s) THEN Take ELSE Len(s))
       IN  /\ rows' = [rows EXCEPT ![t] = r]
           /\ IF Len(r) < Take
                THEN /\ count' = [count EXCEPT ![t] = Len(r)]
                     /\ state' = [state EXCEPT ![t] = "fulfilled"]
                ELSE /\ state' = [state EXCEPT ![t] = "counting"]
                     /\ UNCHANGED count
  /\ seen' = [seen EXCEPT ![t] = Matching(t)]
  /\ UNCHANGED <<dataVars, requestVars, noteVars, answer, delivered>>

\* The second statement counts what matches by then.
QueryCount(t) ==
  /\ state[t] = "counting"
  /\ count' = [count EXCEPT ![t] = Cardinality(Matching(t))]
  /\ state' = [state EXCEPT ![t] = "fulfilled"]
  /\ UNCHANGED <<dataVars, requestVars, rows, seen, noteVars, answer,
                 delivered>>

\* getConnection or either statement rejects.
FailBatch(t) ==
  /\ state[t] \in {"connecting", "querying", "counting"}
  /\ state' = [state EXCEPT ![t] = "rejected"]
  /\ disturbed' = TRUE
  /\ UNCHANGED <<dataVars, requestVars, rows, count, seen, since, writes,
                 answer, delivered>>

FetchBatchFromTenant(t) ==
  Connect(t) \/ QueryRows(t) \/ QueryCount(t) \/ FailBatch(t)

-----------------------------------------------------------------------------
(* Promise.allSettled, the merge and the response.                          *)

\* Mutant of AllSettled: it waits for every tenant to answer.
AllFulfilled == \A i \in DOMAIN tenants : state[tenants[i]] = "fulfilled"

AllSettled ==
  \A i \in DOMAIN tenants : state[tenants[i]] \in {"fulfilled", "rejected"}

\* The answer of a tenant.
BatchOf(t) ==
  [tenantId |-> t,
   orders   |-> [j \in DOMAIN rows[t] |-> Row(rows[t][j])],
   count    |-> count[t]]

\* The batches of the tenants that answered, in the order of the tenants.
Fulfilled ==
  FlattenSeq([i \in DOMAIN tenants |->
    IF state[tenants[i]] = "fulfilled" THEN <<BatchOf(tenants[i])>> ELSE << >>])

\* Mutant of TotalPages: one too few when the last page is not full.
TotalPagesLess(total) == (total - 1) \div params.limit

TotalPages(total) == (total + params.limit - 1) \div params.limit

IndexAllTenants ==
  /\ phase = "fanout"
  /\ AllSettled
  /\ LET total   == SumCounts(Fulfilled)
         merged  == SortByCreatedAt(FlattenWithTenantMeta(Fulfilled), params.order)
         records == PaginateSlice(merged, page, params.limit)
     IN  /\ answer' = [records |-> records,
                       totalRecords |-> total,
                       totalPages |-> TotalPages(total),
                       nextPage |-> page < TotalPages(total)]
         /\ delivered' = delivered \o records
  /\ phase' = "answered"
  /\ UNCHANGED <<dataVars, params, page, tenants, batchVars, noteVars>>

-----------------------------------------------------------------------------
Init ==
  /\ active \in Actives
  /\ stored \in SUBSET Order
  /\ deleted = {}
  /\ created \in [Order -> Times]
  /\ params \in Queries
  /\ page = 0
  /\ phase = "idle"
  /\ tenants = << >>
  /\ state = [t \in Tenant |-> "none"]
  /\ rows = [t \in Tenant |-> << >>]
  /\ count = [t \in Tenant |-> 0]
  /\ answer = NoAnswer
  /\ seen = [t \in Tenant |-> {}]
  /\ since = 0
  /\ writes = 0
  /\ disturbed = FALSE
  /\ delivered = << >>

Serve ==
  \/ FetchActiveTenants
  \/ \E t \in Tenant : FetchBatchFromTenant(t)
  \/ IndexAllTenants

Next ==
  \/ Request
  \/ Serve
  \/ \E o \in Order : InsertOrder(o) \/ DeleteOrder(o)

Spec == Init /\ [][Next]_vars

\* The databases answer every statement, with a result or an error.
FairSpec == Spec /\ WF_vars(Serve)
-----------------------------------------------------------------------------
(* Properties                                                               *)

\* The rows the answering tenants had for the request when they were read.
Union == UNION {seen[t] : t \in {u \in Tenant : state[u] = "fulfilled"}}

\* A page is the page of the union of what the tenants had: its rows take the
\* places from (page - 1) * limit + 1 on when all rows of all tenants are
\* sorted together, although no tenant hands over more than page * limit of
\* its rows, some tenants fail and the others are written meanwhile (lines
\* 35-45).  Rows of the same millisecond may change places.
PageIsGlobal ==
  phase = "answered" =>
    LET records == answer.records
        first   == (page - 1) * params.limit
        Earlier(r)  == {u \in Union : Before(Row(u), r, params.order)}
        NotLater(r) == {u \in Union : ~Before(r, Row(u), params.order)}
    IN  /\ \A i, j \in DOMAIN records : i # j => records[i].id # records[j].id
        /\ \A i \in DOMAIN records :
             /\ records[i].id \in Union
             /\ Cardinality(Earlier(records[i])) < first + i
             /\ first + i <= Cardinality(NotLater(records[i]))
        /\ Len(records) < params.limit =>
             Cardinality(Union) <= first + Len(records)

\* totalRecords counts what the answering tenants have and not just what they
\* handed over: it is off by no more than the writes that fell between a
\* tenant's two statements, and without writes there is a next page exactly
\* when rows are left for it (lines 43, 47, 83).
TotalsWithinWrites ==
  phase = "answered" =>
    /\ answer.totalRecords - Cardinality(Union) \in (-since) .. since
    /\ since = 0 =>
         (answer.nextPage <=> Cardinality(Union) > page * params.limit)

\* Nobody sees an order under another tenant's name, of an inactive tenant,
\* of a tenant that was not asked for or that the filter excludes (lines
\* 53-57, 73-75 and order.helper.ts:9-17).
RecordsOfSelectedTenants ==
  \A i \in DOMAIN delivered :
    LET r == delivered[i]
    IN  /\ r.tenantId = Owner[r.id]
        /\ r.tenantId \in active
        /\ params.tenantIds # {} => r.tenantId \in params.tenantIds
        /\ params.status # {} => StatusOf[r.id] \in params.status

\* The session has come to the page without a next one, and nothing was
\* written and no tenant failed on the way.
QuietSession == phase = "answered" /\ ~answer.nextPage /\ ~disturbed

Wanted == UNION {Matching(t) : t \in ActiveTenants}

\* Every order the client wants is on exactly one of the pages.
DeliveredOnce ==
  /\ Len(delivered) = Cardinality(Wanted)
  /\ {delivered[i].id : i \in DOMAIN delivered} = Wanted

\* A client that follows nextPage to the end gets every order exactly once,
\* over pages that are answered by separate queries, as long as no two
\* orders share a millisecond.
PagesCoverDistinct ==
  QuietSession /\ (\A o, p \in Wanted : o # p => Millis(o) # Millis(p)) =>
    DeliveredOnce

\* The same without the proviso: "applies global sort, and paginates"
\* (README, line 35).  Nothing decides between equal times (line 81), so two
\* pages may disagree on their order.
PagesCoverAll == QuietSession => DeliveredOnce

\* Every request is answered, or refused when the admin database fails,
\* whichever tenants fail (lines 35-41).
EveryRequestAnswered ==
  (phase = "tenants") ~> (phase \in {"answered", "threw"})

=============================================================================
