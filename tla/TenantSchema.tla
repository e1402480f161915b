---------------------------- MODULE TenantSchema ----------------------------
(***************************************************************************)
(* One tenant's PostgreSQL database and what prepares it: the first        *)
(* request for the tenant (createConnection) and provision, both of        *)
(* src/src/infrastructure/database/tenant-db.manager.ts, and the seed      *)
(* script, src/src/scripts/seed.ts.                                        *)
(*                                                                         *)
(* The three know nothing of one another.  Requests and provisions run the *)
(* migrations: TypeORM looks for its own table, creates it, reads which    *)
(* migrations it lists and runs the others, here the one that creates the  *)
(* types and the table of the orders, in one transaction with its entry.   *)
(* The seed script synchronizes instead: it creates the same types and the *)
(* same table if they are missing, and enters nothing.                     *)
(*                                                                         *)
(* A step is one statement and what the process does with the answer.      *)
(***************************************************************************)
EXTENDS Integers, FiniteSets

CONSTANTS
  Request,    \* creations of a connection by requests
  Provision,  \* calls of provision
  Seed,       \* runs of the seed script
  Batches,    \* batches of orders a run saves
  MaxFaults,  \* bound on failed statements and crashes
  None        \* nobody

Process == Request \cup Provision \cup Seed

ASSUME KindsDisjoint ==
  /\ Request \cap Provision = {}
  /\ Request \cap Seed = {}
  /\ Provision \cap Seed = {}
ASSUME NoneIsNoProcess == None \notin Process
ASSUME BatchesIsPositive == Batches \in Nat \ {0}
ASSUME MaxFaultsIsNat == MaxFaults \in Nat

VARIABLES
  exists,   \* the database exists
  orders,   \* the types and the table of the orders exist, committed
  ledger,   \* TypeORM's table of migrations: "absent", "empty", "recorded"
  creator,  \* who has created them in a transaction that is still open
  rows,     \* the rows of orders
  nextId,   \* the next value of its id sequence
  pc,       \* where each process is
  batch,    \* the batches of this run that are through
  saved,    \* the id of the row that its last save inserted
  alone,    \* whether no other process ran while it did
  faulted,  \* whether a statement of it failed or it crashed
  latest    \* the last run to truncate orders

catalogVars == <<exists, orders, ledger, creator>>
rowVars     == <<rows, nextId, latest>>
seedVars    == <<batch, saved>>
noteVars    == <<alone, faulted>>
vars == <<catalogVars, rowVars, pc, seedVars, noteVars>>

Ended == {"ready", "done", "rejected", "crashed"}

Active(p) == pc[p] \notin {"idle"} \cup Ended

TypeOK ==
  /\ exists \in BOOLEAN
  /\ orders \in BOOLEAN
  /\ ledger \in {"absent", "empty", "recorded"}
  /\ creator \in Process \cup {None}
  /\ rows \subseteq [id : Nat, run : Seed, patched : BOOLEAN]
  /\ nextId \in Nat
  /\ pc \in [Process -> {"idle", "probe", "create database", "initialize",
                         "has table", "create table", "load", "up", "record",
                         "sync", "sync up", "sync commit", "truncate",
                         "save", "patch", "last answer"} \cup Ended]
  /\ batch \in [Process -> 0 .. Batches]
  /\ saved \in [Process -> Nat]
  /\ alone \in [Process -> BOOLEAN]
  /\ faulted \in [Process -> BOOLEAN]
  /\ latest \in Seed \cup {None}

Goto(p, place) == pc' = [pc EXCEPT ![p] = place]

-----------------------------------------------------------------------------
(* The database                                                             *)

Begin(p) ==
  /\ pc[p] = "idle"
  /\ Goto(p, IF p \in Provision THEN "probe" ELSE "initialize")
  /\ alone' = [q \in Process |->
                 IF q = p THEN \A r \in Process : ~Active(r)
                          ELSE alone[q] /\ ~Active(q)]
  /\ UNCHANGED <<catalogVars, rowVars, seedVars, faulted>>

\* provision asks the maintenance database whether its database exists.
ProbeDatabase(p) ==
  /\ pc[p] = "probe"
  /\ Goto(p, IF exists THEN "initialize" ELSE "create database")
  /\ UNCHANGED <<catalogVars, rowVars, seedVars, noteVars>>

\* CREATE DATABASE, which fails if somebody else was faster.
CreateDatabase(p) ==
  /\ pc[p] = "create database"
  /\ exists' = TRUE
  /\ Goto(p, IF exists THEN "rejected" ELSE "initialize")
  /\ UNCHANGED <<orders, ledger, creator, rowVars, seedVars, noteVars>>

\* Mutant of Initialize: the request does not await runMigrations.
InitializeOnly(p) ==
  /\ pc[p] = "initialize"
  /\ Goto(p, CASE ~exists       -> "rejected"
               [] p \in Seed    -> "sync"
               [] p \in Request -> "last answer"
               [] OTHER         -> "has table")
  /\ UNCHANGED <<catalogVars, rowVars, seedVars, noteVars>>

\* ds.initialize() needs the database to be there.  With synchronize it goes
\* on to compare the schema.
Initialize(p) ==
  /\ pc[p] = "initialize"
  /\ Goto(p, CASE ~exists    -> "rejected"
               [] p \in Seed -> "sync"
               [] OTHER      -> "has table")
  /\ UNCHANGED <<catalogVars, rowVars, seedVars, noteVars>>

-----------------------------------------------------------------------------
(* ds.runMigrations()                                                       *)

HasMigrationsTable(p) ==
  /\ pc[p] = "has table"
  /\ Goto(p, IF ledger = "absent" THEN "create table" ELSE "load")
  /\ UNCHANGED <<catalogVars, rowVars, seedVars, noteVars>>

\* CREATE TABLE "migrations" commits by itself.
CreateMigrationsTable(p) ==
  /\ pc[p] = "create table"
  /\ \/ /\ ledger = "absent"
        /\ ledger' = "empty"
        /\ Goto(p, "load")
     \/ /\ ledger # "absent"
        /\ Goto(p, "rejected")
        /\ UNCHANGED ledger
  /\ UNCHANGED <<exists, orders, creator, rowVars, seedVars, noteVars>>

LoadExecuted(p) ==
  /\ pc[p] = "load"
  /\ Goto(p, IF ledger = "recorded" THEN "last answer" ELSE "up")
  /\ UNCHANGED <<catalogVars, rowVars, seedVars, noteVars>>

\* Mutant of CreateOrder: every statement commits by itself.
CreateOrderAtOnce(p, from, to) ==
  /\ pc[p] = from
  /\ creator = None
  /\ \/ /\ ~orders
        /\ orders' = TRUE
        /\ Goto(p, to)
     \/ /\ orders
        /\ Goto(p, "rejected")
        /\ UNCHANGED orders
  /\ UNCHANGED <<exists, ledger, creator, rowVars, seedVars, noteVars>>

\* The types and the table are created in a transaction.  Where another
\* transaction has created them, the statement waits for its end; where they
\* exist, it fails and the transaction is rolled back.
CreateOrder(p, from, to) ==
  /\ pc[p] = from
  /\ creator = None
  /\ \/ /\ ~orders
        /\ creator' = p
        /\ Goto(p, to)
     \/ /\ orders
        /\ Goto(p, "rejected")
        /\ UNCHANGED creator
  /\ UNCHANGED <<exists, orders, ledger, rowVars, seedVars, noteVars>>

Up(p) == CreateOrder(p, "up", "record")

\* The entry is inserted and the transaction committed.
RecordMigration(p) ==
  /\ pc[p] = "record"
  /\ orders' = TRUE
  /\ ledger' = "recorded"
  /\ creator' = None
  /\ Goto(p, "last answer")
  /\ UNCHANGED <<exists, rowVars, seedVars, noteVars>>

\* The last statement is answered: the request has its connection, the others
\* destroy theirs.
Answered(p) ==
  /\ pc[p] = "last answer"
  /\ Goto(p, IF p \in Request THEN "ready" ELSE "done")
  /\ UNCHANGED <<catalogVars, rowVars, seedVars, noteVars>>

-----------------------------------------------------------------------------
(* seedTenant                                                               *)

\* synchronize reads the schema first, and creates only what is missing.
CompareSchema(p) ==
  /\ pc[p] = "sync"
  /\ Goto(p, IF orders THEN "truncate" ELSE "sync up")
  /\ UNCHANGED <<catalogVars, rowVars, seedVars, noteVars>>

SyncUp(p) == CreateOrder(p, "sync up", "sync commit")

SyncCommit(p) ==
  /\ pc[p] = "sync commit"
  /\ orders' = TRUE
  /\ creator' = None
  /\ Goto(p, "truncate")
  /\ UNCHANGED <<exists, ledger, rowVars, seedVars, noteVars>>

\* Mutant of TruncateOrders: the rows of earlier runs stay.
TruncateNothing(p) ==
  /\ pc[p] = "truncate"
  /\ latest' = p
  /\ Goto(p, "save")
  /\ UNCHANGED <<catalogVars, rows, nextId, seedVars, noteVars>>

\* RESTART IDENTITY: ids are given out again from 1.
TruncateOrders(p) ==
  /\ pc[p] = "truncate"
  /\ rows' = {}
  /\ nextId' = 1
  /\ latest' = p
  /\ Goto(p, "save")
  /\ UNCHANGED <<catalogVars, seedVars, noteVars>>

\* repo.save inserts a batch, dated now; a batch is one row here.
SaveBatch(p) ==
  /\ pc[p] = "save"
  /\ rows' = rows \cup {[id |-> nextId, run |-> p, patched |-> FALSE]}
  /\ saved' = [saved EXCEPT ![p] = nextId]
  /\ nextId' = nextId + 1
  /\ Goto(p, "patch")
  /\ UNCHANGED <<catalogVars, latest, batch, noteVars>>

\* Mutant of PatchTimestamps: start <= ORDERS_PER_TENANT ends the loop late.
PatchOneMore(p) ==
  /\ pc[p] = "patch"
  /\ rows' = {IF r.id = saved[p] THEN [r EXCEPT !.patched = TRUE] ELSE r :
                r \in rows}
  /\ batch' = [batch EXCEPT ![p] = @ + 1]
  /\ Goto(p, IF batch[p] + 1 <= Batches THEN "save" ELSE "last answer")
  /\ UNCHANGED <<catalogVars, nextId, latest, saved, noteVars>>

\* UPDATE orders dates the rows that have the saved ids by now.
PatchTimestamps(p) ==
  /\ pc[p] = "patch"
  /\ rows' = {IF r.id = saved[p] THEN [r EXCEPT !.patched = TRUE] ELSE r :
                r \in rows}
  /\ batch' = [batch EXCEPT ![p] = @ + 1]
  /\ Goto(p, IF batch[p] + 1 < Batches THEN "save" ELSE "last answer")
  /\ UNCHANGED <<catalogVars, nextId, latest, saved, noteVars>>

-----------------------------------------------------------------------------
(* Faults                                                                   *)

\* Mutant of Abort: the transaction of a failed statement stays open.
AbortLeavingOpen(p, end) ==
  /\ Active(p)
  /\ Cardinality({q \in Process : faulted[q]}) < MaxFaults
  /\ faulted' = [faulted EXCEPT ![p] = TRUE]
  /\ Goto(p, end)
  /\ UNCHANGED <<catalogVars, rowVars, seedVars, alone>>

\* The next statement of p fails, or p is killed before it: an open
\* transaction is rolled back.  Whether the statement before was carried out
\* and only its answer was lost comes to the same.
Abort(p, end) ==
  /\ Active(p)
  /\ Cardinality({q \in Process : faulted[q]}) < MaxFaults
  /\ faulted' = [faulted EXCEPT ![p] = TRUE]
  /\ creator' = IF creator = p THEN None ELSE creator
  /\ Goto(p, end)
  /\ UNCHANGED <<exists, orders, ledger, rowVars, seedVars, alone>>

-----------------------------------------------------------------------------
Init ==
  /\ exists \in BOOLEAN
  /\ orders = FALSE
  /\ ledger = "absent"
  /\ creator = None
  /\ rows = {}
  /\ nextId = 1
  /\ pc = [p \in Process |-> "idle"]
  /\ batch = [p \in Process |-> 0]
  /\ saved = [p \in Process |-> 0]
  /\ alone = [p \in Process |-> TRUE]
  /\ faulted = [p \in Process |-> FALSE]
  /\ latest = None

Migrate(p) ==
  \/ HasMigrationsTable(p) \/ CreateMigrationsTable(p) \/ LoadExecuted(p)
  \/ Up(p) \/ RecordMigration(p)

SeedTenant(p) ==
  \/ CompareSchema(p) \/ SyncUp(p) \/ SyncCommit(p)
  \/ TruncateOrders(p) \/ SaveBatch(p) \/ PatchTimestamps(p)

Step(p) ==
  \/ ProbeDatabase(p) \/ CreateDatabase(p) \/ Initialize(p)
  \/ Migrate(p) \/ SeedTenant(p) \/ Answered(p)

Next ==
  \E p \in Process : Begin(p) \/ Step(p) \/ Abort(p, "rejected")
                                         \/ Abort(p, "crashed")

Spec == Init /\ [][Next]_vars

\* Statements that are not waiting for another transaction are answered.
FairSpec == Spec /\ \A p \in Process : WF_vars(Step(p))

-----------------------------------------------------------------------------
(* Properties                                                               *)

\* A connection is handed out, and provision reports success, only over a
\* database that has the orders and knows that it has them, whoever was
\* creating them at the same time, failed or died; a finished seed has left
\* a table of orders (tenant-db.manager.ts:110-116 and 91-95).
ReadyIsMigrated ==
  \A p \in Process :
    /\ pc[p] = "ready" => orders /\ ledger = "recorded"
    /\ pc[p] = "done" => orders /\ (p \in Provision => ledger = "recorded")

\* The attempt p is refused in this step, though it ran alone and without a
\* fault on a database that exists.
RefusedAlone(p) ==
  pc[p] # "rejected" /\ pc'[p] = "rejected" /\ alone[p] /\ ~faulted'[p]
    /\ exists

\* Whatever earlier attempts failed or died of, at whichever statement, an
\* attempt that nothing disturbs succeeds: a retry heals.  The exception is
\* a database that a seed run has synchronized before its first migration.
RetryHeals ==
  [][\A p \in Process : RefusedAlone(p) =>
       /\ orders /\ ledger # "recorded"
       /\ \E s \in Seed : pc[s] # "idle"]_vars

\* The same without the exception: a tenant is connected "on first request"
\* (README, line 22), also where the seed script "creates the orders table +
\* enums if they don't exist yet" (seed.ts:30).
FirstRequestConnects ==
  [][\A p \in Request : ~RefusedAlone(p)]_vars

\* A seed run that nothing overlaps leaves exactly its own orders, all of
\* them dated into the past, whatever an earlier run left when it failed or
\* died ("Safe to re-run - it truncates before inserting", README, line 165).
SeedLeavesOwnRows ==
  \A p \in Seed :
    pc[p] = "done" /\ alone[p] /\ latest = p =>
      /\ Cardinality(rows) = Batches
      /\ \A r \in rows : r.run = p /\ r.patched

\* No attempt waits forever for the transaction of another one.
EveryAttemptEnds == \A p \in Process : Active(p) ~> pc[p] \in Ended
=============================================================================
