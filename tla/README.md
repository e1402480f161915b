# Specifications of the multi-tenant orders backend

This directory holds TLA+ specifications of the backend in `src/`: state
machines translated from its source, TLC configurations that check them on
small instances, and proofs, checked by TLAPS, of what holds for every
instance. Paths below are relative to the repository's root, so `src/index.ts`
is the file that `PROJECT.json` calls `src/src/index.ts`.

## 1. The system and its parts

The backend is one Node process with an Express server. An *admin database*
lists the tenants; every tenant has a PostgreSQL database of its own, with one
table, `orders`.

| Component | State it keeps | Operations | Talks to |
|---|---|---|---|
| `TenantDbManager` (`src/infrastructure/database/tenant-db.manager.ts`) | four maps: cached DataSources and pending promises, each by tenant id and by sub-domain | `getConnection`, `getConnectionByDomain`, `provision`, `closeAll` | admin database (rows of tenants), tenants' databases |
| Order listing (`src/tenants/orders/`) | none between requests; per request the batches of the tenants | `POST /orders/admin/all` | admin database, `TenantDbManager`, every tenant's database |
| Bootstrap and shutdown (`src/index.ts`) | the HTTP server, the admin DataSource | start, `SIGTERM`/`SIGINT` | `TenantDbManager.closeAll` |
| `BaseController` (`src/common/base.controller.ts`) | none | `index`, `show`, `create`, `update`, `destroy`; only `index` is mounted | `getTenantRepository`, hence `TenantDbManager` |
| Tenant admin (`src/admin/`) | table `tenants` | `POST /admin/tenants/all`, a `BaseController.index` | admin database |
| Migrations and seed script (`src/tenants/migrations/`, `src/scripts/seed.ts`) | a tenant's schema, TypeORM's table of migrations, the orders | `runMigrations`, `synchronize`, truncate and refill | tenants' databases |
| Tenant middleware, validation, authentication, routes, errors, configuration | none | per request | next handler |

What makes the behaviour hard is not in any single function:

* **Interleaving at every `await`.** Node runs one step at a time but any
  other request may run between two of them. `TenantDbManager` shares a
  creation in progress between callers, has two ways to create the same
  tenant's DataSource, and iterates over a live map while it awaits.
* **Separate statements.** A listing's rows and count are two statements, a
  listing's pages are separate requests, and the migrations of a new database
  are several transactions, all with other writers in between.
* **Read, wait, write.** `update` and `destroy` act on what they read one or
  two statements ago; TypeORM's `save` decides between INSERT and UPDATE by yet
  another read.
* **Shutdown.** Signals arrive at any moment, `closeAll` runs while handlers
  whose clients have gone go on and cache new connections, and every signal
  registers one more callback that closes everything.
* **Partial failure.** A tenant fails while the others answer; a DataSource is
  open and its migrations fail; a seed run dies between two batches.
* **Truncation.** The listing takes a prefix of every tenant's rows, ordered
  by the database's clock in microseconds, and sorts their union again by
  milliseconds.

What would make each component correct:

* `TenantDbManager`: callers get their own tenant's connection; one tenant has
  one connection; failures do not stick; every call settles; `closeAll` leaves
  nothing open behind that it has forgotten.
* Order listing: a page is a page of the union of the tenants' rows; totals
  and pages agree; no row under a wrong tenant's name; every order is on
  exactly one page; every request is answered.
* Tenants' databases: handed out only when migrated; an interrupted migration
  or seed is made good by the next one.
* Bootstrap and shutdown: requests in progress finish, everything is closed
  once, the process ends.
* `BaseController`: pages are pages of one list and `index` counts what it
  paginates; what the schema lets through is answered; a request that nobody
  interferes with does all or nothing, and its answer says which unless the
  database or the reading of relations fails behind the write; what was saved
  stays until a request asks otherwise; a deletion is undone only by an update
  that began before it or that names the id.

`PROJECT.json` lists the hazards with their lines, and which property covers
which; those that no property covers yet say why.

## 2. Modules

| Module | Models |
|---|---|
| `SharedConnection` | what the pool promises its callers, without maps, promises or lookups: a tenant's connection is created once and everybody who asks gets that one |
| `TenantDbManager` | `getConnection`, `getConnectionByDomain`, `createConnection`, `closeAll`, step by step from `await` to `await` |
| `TenantDbManagerProofs` | theorems about it, and that it implements `SharedConnection` |
| `OrderHelper` | the pure functions of `order.helper.ts` |
| `OrderService` | a client paging through `POST /orders/admin/all`: `OrderController.indexAllTenants` and `OrderService`, against databases others write to |
| `ListingLemmas` | nothing: lemmas about places in an order, cardinalities and `FlattenSeq`, for the proofs about listings |
| `OrderServiceProofs` | theorems about `OrderService` and `OrderHelper` |
| `TenantSchema` | one tenant's database under first requests, `provision` and the seed script |
| `TenantSchemaProofs` | theorems about it |
| `ServerLifecycle` | `index.ts`: bootstrap, requests on connections that may break, signals; extends `TenantDbManager`, whose calls the requests are and whose `closeAll` the callbacks run |
| `ServerLifecycleProofs` | theorems about it, on those of `TenantDbManagerProofs` |
| `IndexQuery` | what `BaseController.index` makes of a request: page, order, conditions |
| `BaseController` | `index`, `show`, `create`, `update`, `destroy` of several requests over one table; extends `IndexQuery` |
| `BaseControllerProofs` | theorems about its writes |
| `IndexProofs` | theorems about its listings, on `BaseControllerProofs` and `ListingLemmas` |
| `MCTenantDbManager`, `MCOrderService`, `MCTenantSchema`, `MCServerLifecycle`, `MCBaseController` | small instances for TLC |

A definition whose comment begins "Mutant of" stands for a plausible bug in
the definition it names; each property is known to fail with one of them.

### 2.1 TenantDbManager

`getConnection` and `getConnectionByDomain` are one program over two pairs of
maps, so the module has one map `connections` and one map `pending` whose keys
are tenant ids *and* sub-domains. A call that finds neither entry runs the
promise's async body itself and creates at most one DataSource; the promise
and the DataSource therefore carry the name of that call.

| Code (`tenant-db.manager.ts`) | Model |
|---|---|
| `connections`, `connectionsByDomain` (10-11) | `connections`, and `inserted`, the order of the entries of the first |
| `pendingById`, `pendingByDomain` (12-13) | `pending` |
| has/get, join, start (25-39, 49-63) | `GetCached`, `JoinPending`, `StartPending`, the three cases of `GetConnection` |
| `findOneBy` (34, 58) | `LookupTenant`: a row, or none or an error |
| `ds.initialize()` (111) | `Initialize`: connects or rejects |
| `ds.runMigrations()` and the two `set` (112-114) | `RunMigrations`: caches, or rejects and leaves the DataSource open |
| `await promise`, `finally` (40-45) | `Settle` |
| the joiner's await (30, 54) | `Resume` |
| `closeAll` (119-125) | `CloseAll`, `CloseNext`, `Destroyed`: the loop runs over the live map, position by position |
| rows of `tenants` | `registry`, written by `InsertTenant` and `RenameTenant`; sub-domains are unique as the migration of the table demands |

A promise that is settled and a `finally` that has not run yet are two
different moments: callers that arrive between them are in the model.

`closeAll` is the one place where code iterates over a map that changes under
it. JavaScript's iteration reaches entries that are added behind the current
one and not those whose value is replaced before it; `Ahead` and `inserted`
say so.

### 2.2 OrderService and OrderHelper

The state is one client's paging session: `params` and `page` are what it
asked, `tenants`, `state`, `rows`, `count` what `indexAllTenants` has so far,
`answer` the response. `stored` and `created` are the tenants' databases.
`seen`, `since`, `disturbed` and `delivered` are history that only properties
read.

`QueryRows` and `QueryCount` are the two statements of `getManyAndCount`;
TypeORM leaves the second out when the first returns fewer rows than `take`.
`SortedRows` gives every order in which a database may return its rows when
`ORDER BY "createdAt"` leaves ties; time is counted in ticks, finer than the
milliseconds by which `sortByCreatedAt` compares. `currency` and `search` are
filters like `status`, which stands for all three. `getConnection` is a step
that resolves or rejects; 2.1 says what it does.

### 2.3 TenantSchema

Three kinds of process meet on one database. A request (`createConnection`)
and `provision` initialize a DataSource and run the migrations: TypeORM looks
for its own table (`HasMigrationsTable`), creates it, which commits at once
(`CreateMigrationsTable`), reads it (`LoadExecuted`), and runs what is missing
in one transaction (`Up`, `RecordMigration`). A seed run synchronizes
(`CompareSchema`, `SyncUp`, `SyncCommit`), truncates, and for every batch
saves and dates the orders. A batch is one row here, with its own id, since
`TRUNCATE ... RESTART IDENTITY` gives the ids out again.

Two transactions that create the same types exclude each other: the second
waits for the first and fails if that one commits (`CreateOrder`). `Abort` is
a statement that fails, or the death of the process, at any step; the open
transaction is rolled back. Commits whose answer is lost are covered: the
commit, then an `Abort` at the next step.

Requests for one tenant by id are never concurrent within a server
(`PoolById`), but a request by sub-domain, a `provision` or a second server
process may be; the model therefore has several requests.

### 2.4 ServerLifecycle

The composition of the process with its pool. `SpecServer` has the variables
of `TenantDbManager` and five of its own, and every step of the pool is taken
by a request or by a callback of `server.close`; `ServerRunsPool` is the
theorem that says so.

| Code (`index.ts`) | Model |
|---|---|
| `AdminDataSource.initialize()` (13) | `InitializeAdmin`: connects, or the process ends with status 1 |
| `initializeApiRoutes()`, `app.listen` (16-21) | `InitializeApiRoutes`, `Listen` |
| a request: `getTenantRepository`, its query, its response | `Arrive` (`GetConnection`), `Handle` (`Advance`), `Respond` |
| `process.on` (33-34), `server.close(callback)` (23-25) | `Shutdown(k)` for the signal `k`; before `listen` the signal kills the process (`KilledEarly`) |
| the callback (25-30) | `ServerClosed`, then `CloseTenants` (`CloseAll` and its steps), `DestroyAdmin`, `Exit` |

What Node, Express and TypeORM do is modelled from how the code uses them:

* `server.close` stops listening, ends the idle connections and calls *every*
  callback registered with it when the last connection is gone, or at once if
  the server is closed or never listened. A second signal therefore runs the
  callback a second time.
* A connection carries one request after another, and a request may still
  arrive on one after `close`. When a client goes away its handler goes on
  (`socket[c] = "aborted"`) and nobody waits for it.
* A DataSource that is being destroyed throws when it is destroyed again. The
  callback is an async function that nobody awaits: its rejection ends the
  process (`"crashed"`).
* Express 5 calls the callback of `listen` with an error, too. This one does
  not look at it, so a server without a port goes on (`server = "refused"`).
* Two callbacks alternate at every `await`. `process.exit(0)` of one ends the
  other wherever it is.

### 2.5 BaseController and IndexQuery

The state is one table and a few clients. A client makes one request or pages
through one listing; `before`, `others`, `fault` and `received` are history
that only properties read. The table stands for `tenant` or `orders`,
according to `controller`: `"name"` is a unique column, `"at"` one that rows
can agree on. Values are numbers and a search is the set of names that it
matches.

| Code (`base.controller.ts`) | Model |
|---|---|
| page, limit, skip (48-53), the response (111-119) | `Page`, `Limit`, `Skip`, `IsNextPage`, `List` |
| `getOrderBy`, `getOrder`, `validateOrderByKeys`, `applyDefaultOrder` | operators of these names, `BadOrder` for the two that throw |
| `getWhereConditions`, the filters of a search (57-77) | `Matching`, `UnknownFilter` |
| search (65-85) | `GetCount`, then `GetMany` |
| `getManyAndCount`, `findAndCount` (96-108) | `GetMany`, then `CountRows` or `LazyCount` |
| `show`, `create`, `update`, `destroy` (128-263) | `FindOne`, `FindWithRelations`, `Reload`, `InsertRow`, `UpdateRow`, `RemoveRow` |
| reading the saved row again (179-185, 223-229), the response | `Saved` |
| `handleError` (268-276) | `Fail`, and the statuses of the other actions |
| routes, validators, `TenantMiddleware` | `PassMiddlewares` |

TypeORM is modelled by its statements. `getManyAndCount` counts with a second
statement only where the rows leave the count open; for an empty page past the
end versions differ, so both outcomes are in the model, and such a page may
claim as many records as it skipped. `save` reads the row of its entity's id
again, inserts if there is none and otherwise sets the columns that differ
from what it has just read. `remove` looks the row up once more as well, which
changes nothing: a DELETE of a row that is gone deletes nothing either way.

A statement fails at any step (`Fail`), and some always do. `Executable` says
which listings the database accepts: no condition on what is no column, no
value that it cannot read, OFFSET and LIMIT within `MaxBigint`; the schema of
tenants bounds `limit`, but not `page`. A body may ask for relations
(`include`), of which the entities have none: `index` and `show` then fail
before anything is read, and `create` and `update` after the row has been
saved, in the read that is to add the relations, so that they answer 422 over a
row that is written. The same answer is given when the COMMIT goes through and
its answer is lost (`WriteTable`).

Some behaviour of the code is surprising and is modelled as it is: a single
`orderBy` counts only along with an `order` beside the `filterConditions`, and
the `order` that the tenants' schema allows inside them is passed over; a
search together with `orderBy` or `order` becomes a condition on columns that
do not exist; `sortKeys` in the body do so always; the list of orders passes
over a search; page 0 and `getAll` announce a next page as soon as there is a
row; and an `id` among the data of an update overrides the one in the path.

`show`, `create`, `update` and `destroy` have routes ready in
`base.routes.ts`, but no controller mounts them today.

## 3. What TLC checks

| Run | Instance | Shows |
|---|---|---|
| `PoolById` | 2 tenants, 2 domains, 3 calls by id, fairness | every call settles (`EveryCallSettles`); the pool implements `SharedConnection` |
| `PoolByAnyKey` | the same with calls by id and by domain and a `closeAll` | a promise is pending exactly while its body runs (`PendingIsRunning`); callers get their own tenant's DataSource, open until a `closeAll` (`ServedByOwnTenant`); the maps agree (`MapsAgree`) |
| `PoolRenames` | calls by id, two `closeAll`s, sub-domains renamed | `TypeOK`; an open DataSource that was handed out is the one in the cache (`OpenIsCached`) |
| `PoolLeak` | 1 tenant, 2 calls | **violated**: `OneOpenSourcePerTenant` (finding 1) |
| `Orders` | 2 tenants with up to 2 orders each, 3 instants of which 2 share a millisecond, 3 clients, 1 write, any failures | `PageIsGlobal`, `TotalsWithinWrites`, `RecordsOfSelectedTenants`, `PagesCoverDistinct`, `TypeOK` |
| `OrdersAnswered` | 2 tenants with 1 order each, fairness | `EveryRequestAnswered` |
| `OrdersTies` | as `Orders`, nobody writes | **violated**: `PagesCoverAll` (finding 2) |
| `Schema` | 2 requests, 1 provision, 2 seed runs of 2 batches, 2 faults | `ReadyIsMigrated`, `RetryHeals`, `SeedLeavesOwnRows`, `TypeOK` |
| `SchemaEnds` | 1 request, 1 provision, 2 seed runs of 1 batch, 1 fault, fairness | `EveryAttemptEnds` |
| `SchemaSeedFirst` | 1 seed run, 1 request, no faults | **violated**: `FirstRequestConnects` (finding 3) |
| `Shutdown` | 2 tenants with renames, 2 requests, 2 signals, any failures, fairness | no request is cut off (`NoRequestCutOff`); the end is graceful when it says so (`ExitIsGraceful`); one signal never crashes the server (`OneSignalIsSafe`); a signal ends the process (`SignalEndsProcess`); `ServerTypeOK` |
| `Records` | 2 clients, either controller, 3 tables over 4 ids, 45 requests, any statement failing | `PageByRank`, `TotalsAgree`, `PagesCoverDecided`, `SchemaRequestsAnswered`, `AloneIsAtomic`, `SavedIsKept`, `DeletedStaysGone`, `TypeOK` |

**Bounds.** Three calls are the smallest number with one creation, a second
one of the same tenant by the other key, and a caller that joins or finds
either; two tenants are needed for a wrong one. Two orders per tenant and a
page size of one or two give pages that need both tenants' rows and pages that
need one tenant's only, more rows than `take` and fewer. A client pages as far
as `nextPage` leads; the depth needs no bound. `MaxWrites` and `MaxFaults` bound what others
may do; one write is enough to fall between any two statements, and two faults
to spoil an attempt and its retry. Two signals are the smallest number with
two callbacks, and two requests let one run on behind a closed server while
another waited. In `Records` the tables have up to three rows, so that pages of
one and two rows have a middle, an end and a place past it, two of the rows
agree on the column that does not decide, and the requests name every way to
sort, every way to query and the edges of page and limit; `MaxBigint` is
1000000, the smallest round number above the 999999 rows of `getAll`, with
requests on both sides of it. Updates of the same row name one column each, the
other one, or another id; one other client suffices for a write between any two
statements. Where an insert has used up
the ids of the table the model admits no further one.

Deadlock is not checked: the instances have finitely many calls, requests,
signals and attempts, and stop when these are through.

**Fairness.** `FairSpec` of each module assumes only that a statement sent to
a database is answered, with a result or an error, and that Node then runs the
continuation. Nothing is assumed of clients, signals or operators. In
`TenantSchema` a statement that waits for another transaction's lock is
answered once the lock is free. In `ServerLifecycle` it also lets Node end a
connection that is idle (its keep-alive timeout) and run the callbacks of
`close`; that clients ever go away, send a request or that an operator sends a
signal is not assumed.

## 4. Findings

1. `createConnection` leaves a DataSource open when its migrations fail
   (`tenant-db.manager.ts:112`), and every retry leaves another. `README.md:22`
   says there is one per tenant.
2. Orders are sorted by `createdAt` alone (`order.service.ts:81`). Between
   equal times each page's queries may decide differently, so a client that
   follows `nextPage` can miss an order or see it twice. `README.md:35`
   promises a global sort that is paginated.
3. A seed run on a database that has not been migrated creates the tables
   without TypeORM knowing (`seed.ts:35`); the migration then fails for every
   request and the tenant stays unreachable. The comment at `seed.ts:30` means
   this very case to work.

## 5. What is proved

For every number of tenants, domains, calls and closers
(`TenantDbManagerProofs`), from the named assumptions on constants (ids and
domains differ, `None` is neither a key nor a call):

* `TypeCorrect`, `OnePromisePerKey` and `OwnTenantOnly`: `TypeOK`,
  `PendingIsRunning` and `ServedByOwnTenant`. The inductive invariant is
  `PoolInv`. It adds what a call knows at each point of its body (`StageOf`),
  what the call it waits for or was served by has done (`AnswerOf`), and that
  a cached DataSource was built for its key. `TypeOK` alone is not inductive:
  that the order of the map holds tenants only depends on a call in its last
  step having a tenant.
* `MapsAlwaysAgree`: `MapsAgree`, where sub-domains do not change. `AgreeInv`
  adds that two DataSources share a tenant exactly when they share a
  sub-domain, which holds because rows keep their sub-domain and sub-domains
  are unique.
* `OpenAlwaysCached`: `OpenIsCached`, where calls ask by id. `KeepInv` says
  which positions of the iteration are behind a `closeAll` and that no open
  DataSource is there.
* `PoolRefines`: where calls ask by id and nothing is shut down, every step is
  a step of `SharedConnection` or a stutter.

For every number of requests, provisions, seed runs, batches and faults
(`TenantSchemaProofs`):

* `TypeCorrect` and `ReadyAlwaysMigrated` from `SchemaInv`: who can be where,
  what those who have come so far may count on, and that the open transaction
  belongs to a process about to commit over a database without orders.
* `RetryAlwaysHeals` from `HealInv`: what a process read still holds if nobody
  else ran since, and only seed runs leave orders that the ledger does not
  know.
* `SeedAlwaysLeavesOwnRows` from `RowsInv`, which describes the table after
  each save and each dating of a run that has no company.

For every number of requests, tenants and signals (`ServerLifecycleProofs`):

* `ServerRunsPool`: `SpecServer => Spec`, so that every invariant of the pool
  holds inside the server; the proofs below use `TypeCorrect`, `OwnTenantOnly`
  and `PoolInv` through it.
* `ServerTypeCorrect`: `ServerTypeOK`.
* `RequestsNeverCutOff`: `NoRequestCutOff`. `LifeInv` says that the callbacks
  run only when the port is given back, that no client is connected then, and
  that `closeAll` is nobody else's.
* `OneSignalAlwaysSafe`: `OneSignalIsSafe`. `closeAll` throws only over a
  DataSource that another callback is destroying. `SignalInv` keeps who
  destroys what, and `InsertedAreCached` that the iteration finds a DataSource
  at each position.

* `ExitAlwaysGraceful`: `ExitIsGraceful`, where requests ask by id, as all
  routes do. `DestroyInv` follows the `closeAll`s: what is on its way down is
  where one iteration, and one only, stands, and nothing behind it is
  initialized. With `KeepInv` it follows that at the end of a loop every
  DataSource that was handed out is closed (`LoopClosesAll`). `GraceInv` adds
  that no client is served after that, since the callbacks run behind the last
  connection; that what is closed stays closed, whatever the handlers of
  clients that have gone still create, is `AnswersStand`.

For every number of tenants, orders, queries and writes
(`OrderServiceProofs`), assuming that tenants and orders are finitely many
(`TenantsAndOrdersFinite`):

* `TypeCorrect`, `PageAlwaysGlobal`, `TotalsAlwaysWithinWrites`,
  `RecordsAlwaysOfSelectedTenants` and `PagesAlwaysCoverDistinct`, all from one
  invariant, `IInv`.
* A page is global because what a tenant holds back comes behind all that it
  hands over, which is then `page * limit` rows long (`RowsInv`): a row whose
  place in the merge is at most `page * limit` has the same place in the union
  (`PlaceIsGlobal` of `ListingLemmas`). The database orders by ticks and the
  merge by milliseconds, so that "place" has to mean the range between the rows
  that are earlier and those that are not later.
* The totals follow from one set of orders, those written since the request
  began, that accounts for the difference between what each tenant had, counted
  and handed over (`CountInv`); the tenants' orders are disjoint, so that it is
  counted once.
* That pages fit together is `PlacesInv`: while nothing disturbs a session its
  `k`-th order has place `k` of all. Where times differ each place has one
  order.

For every table, controller, number of clients and set of requests
(`BaseControllerProofs`, `IndexProofs`), assuming of the constants that columns
are numbers and ids finitely many (`ColumnsAreNumbers`), that the controllers
are the two there are (`ControllersInherit`), that a bigint counts the rows of
`getAll` (`BigintHoldsAllRows`), that `None` is no row (`NoneIsNoRow`), and that
tables and requests have the form that `TablesAreTables` and
`RequestsAreRequests` state:

* `DeletedAlwaysGone`: `DeletedStaysGone`. `GoneInv` adds that an update about
  to be saved names a row that was there when it began or that its data name
  (`SavesWhatWas`), and that every row that is there and was not has had a
  request that may have made it (`NewHasAppeared`).
* `AloneAlwaysAtomic`: `AloneIsAtomic`. `AloneInv` says what an undisturbed
  request knows before each statement: the table is still the one it began
  with, and what it is about to write comes from that table and its data. A 422
  over a written row needs a fault of the database or a body with `include`.
* `SavedAlwaysKept`: `SavedIsKept`. What a client has seen in a row stays there,
  column by column, unless a request destroys the row or overwrites the column
  (`KeptStays`). `KeptInv` says this of the table a request began with, of what
  `save` has loaded and of what was saved; an UPDATE that leaves a column out
  because it agrees with what was loaded is then as good as one that sets it.
* `TypeCorrect`, `PageAlwaysByRank`, `TotalsAlwaysAgree`,
  `PagesAlwaysCoverDecided` and `SchemaRequestsAlwaysAnswered`, from the `IInv`
  of `IndexProofs`.
* A page has the right rows because `OrderOf`, one list of sort keys, compares
  rows exactly as the order asked for with the default behind it does
  (`ComesBefore`), although keys of the default that the request names are left
  out. This order may leave ties, and pages are described by ranges of places
  as above.
* A total is close because each write of another client changes one row: the
  rows that differ from what the request began with are no more than the writes
  (`ListOf`). The same holds whether the count comes before the rows, after
  them, or is inferred from a page that is not full.
* That `nextPage` leads through all rows is `SessionOf`: pages before the last
  are full, and each row has the place in the session that it has in the list.

Both modules rest on `WorkInv`, which says what kind of request can be at which
statement, and on `OthersUntouched`: what a client does leaves the work of the
others alone, and counts as disturbance if it changes the table.

All these invariants were model-checked before they were proved.

**How the data are reasoned about.** The theorem of induction over the natural
numbers takes an operator as a parameter, which no backend can instantiate.
`NatSetInduction` of `ListingLemmas` replaces it: it is about a set, and follows
from `WFMin`, which takes a set and a relation. `Recursion` and `FlattenUnfolds`
derive from it what a function defined by recursion over a prefix is, and
`SumOfSizes` what `SumCounts` returns for batches of any number. The
specifications use functions and `FlattenSeq` rather than `SelectSeq`, which
the prover knows nothing of; `FlattenSources` shows that `FlattenSeq` has every
element of every sequence at one place. The keys a request may name form a
closed set (`Key` of `BaseController`), as the backends know of no string that
it is in `STRING`.

Every invariant and action property that a passing run checks is thus also
proved, under the conditions named above. Only model-checked are the four
liveness properties (`EveryCallSettles`, `EveryRequestAnswered`,
`EveryAttemptEnds`, `SignalEndsProcess`), which need `ENABLED`; and the three
findings are counterexamples, not theorems.

## 6. Not modelled

* `isActive` on the single-tenant path: the code never reads it there, and the
  `AuthMiddleware` that `README.md:26-28` describes is not in the tree.
* The parsing of bodies, headers and configuration, the text of errors, the
  log; the migration's `down`.
* PostgreSQL and TypeORM beyond the statements named above: a statement is
  atomic, a failed or abandoned transaction is rolled back, a DataSource that
  fails to initialize holds nothing.
* Two servers sharing tenants, except in `TenantSchema`.
* The admin migrations, which are run by hand before the server starts. The
  second one drops every column and adds NOT NULL columns without a default; on
  a table with tenants it fails, and its transaction leaves the table as it
  was. Nothing of the system runs concurrently with it.
* The seed script's way through the tenants: it takes one after the other and
  logs and passes over those that fail; `TenantSchema` has what it does to each.
* Of `BaseController`: CASE expressions for custom orders, which no controller
  defines; joins, for which there are no relations; and conditions with null,
  arrays or operators, which a client may send: rows are chosen by equality.
* Of `ServerLifecycle`: requests that use several tenants' DataSources. The
  admin DataSource is destroyed when its statements are through; the driver's
  pool would cut them off, which concerns only handlers whose clients have gone.
* Changes of `isActive` while a listing runs: `active` of `OrderService` is
  constant. The tenants are read in the listing's first statement and not again.
* Authentication: one comparison with a shared key, and what is mounted where.

## 7. Plan

In the order of what matters most:

1. An abstract specification of the order listing, one query over the union of
   the databases, that a session without writes and failures implements.
2. The condition under which a session skips nothing although others write:
   an order that is there throughout and that no write moves to an earlier
   place.
3. The admin migrations over a table with rows, and the seed script's loop.
