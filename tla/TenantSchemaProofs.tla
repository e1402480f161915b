------------------------- MODULE TenantSchemaProofs -------------------------
(***************************************************************************)
(* What holds of TenantSchema for every number of requests, provisions,    *)
(* seed runs, batches and faults.                                          *)
(***************************************************************************)
EXTENDS TenantSchema, FunctionTheorems, FiniteSetTheorems, TLAPS

Probing   == {"probe", "create database"}
Migrating == {"has table", "create table", "load", "up", "record"}
Syncing   == {"sync", "sync up", "sync commit"}
Writing   == {"save", "patch"}

\* Who can be where.
KindOf(p) ==
  /\ pc[p] \in Probing => p \in Provision
  /\ pc[p] \in Migrating => p \notin Seed
  /\ pc[p] \in Syncing \cup Writing \cup {"truncate"} => p \in Seed
  /\ pc[p] = "ready" => p \in Request
  /\ pc[p] = "done" => p \notin Request

\* What a process that has come so far may count on.
KnownOf(p) ==
  /\ pc[p] \in Writing \cup {"truncate", "last answer", "ready", "done"} =>
       orders
  /\ pc[p] \in {"last answer", "ready", "done"} /\ p \notin Seed =>
       ledger = "recorded"

\* The open transaction belongs to a process that is about to commit it, and
\* then nothing has been committed before.
TransactionOf(p) ==
  /\ creator = p <=> pc[p] \in {"record", "sync commit"}
  /\ creator = p => ~orders

BatchOf(p) ==
  /\ pc[p] \in Writing => batch[p] < Batches
  /\ pc[p] \in Probing \cup Syncing \cup {"idle", "initialize", "truncate"} =>
       batch[p] = 0

\* The inductive invariant behind TypeOK and ReadyIsMigrated.
SchemaInv ==
  /\ TypeOK
  /\ \A p \in Process :
       KindOf(p) /\ KnownOf(p) /\ TransactionOf(p) /\ BatchOf(p)
  /\ ledger = "recorded" => orders

\* What a process read still holds if nobody else has run since.
AloneOf(p) ==
  alone[p] =>
    /\ Active(p) => \A q \in Process \ {p} : ~Active(q)
    /\ pc[p] = "create database" => ~exists
    /\ pc[p] = "create table" => ledger = "absent"
    /\ pc[p] = "up" => ledger # "recorded"
    /\ pc[p] = "sync up" => ~orders

\* The inductive invariant behind RetryHeals: only seed runs leave orders that
\* the ledger knows nothing of.
HealInv ==
  /\ \A p \in Process : AloneOf(p)
  /\ orders /\ ledger # "recorded" => \E s \in Seed : pc[s] # "idle"

\* n orders of run p that have their date.
OwnRows(p, n) == {[id |-> i, run |-> p, patched |-> TRUE] : i \in 1 .. n}

\* A run that truncated last and had no company owns the rows.
RowsOf(p) ==
  latest = p =>
    /\ pc[p] \in Writing \cup {"last answer"} \cup Ended
    /\ alone[p] =>
         /\ \A q \in Seed \ {p} : pc[q] \notin Writing
         /\ pc[p] = "save" =>
              rows = OwnRows(p, batch[p]) /\ nextId = batch[p] + 1
         /\ pc[p] = "patch" =>
              /\ rows = OwnRows(p, batch[p]) \cup
                   {[id |-> batch[p] + 1, run |-> p, patched |-> FALSE]}
              /\ saved[p] = batch[p] + 1
         /\ pc[p] = "patch" => nextId = batch[p] + 2
         /\ pc[p] \in {"last answer", "done"} => rows = OwnRows(p, Batches)

\* The inductive invariant behind SeedLeavesOwnRows.
RowsInv == \A p \in Seed : RowsOf(p)

-----------------------------------------------------------------------------
LEMMA InitSchema == Init => SchemaInv
<1> SUFFICES ASSUME Init PROVE SchemaInv
  OBVIOUS
<1>1. TypeOK
  <2>1. alone \in [Process -> BOOLEAN] /\ faulted \in [Process -> BOOLEAN]
    BY Zenon DEF Init
  <2>2. /\ rows \subseteq [id : Nat, run : Seed, patched : BOOLEAN]
        /\ batch \in [Process -> 0 .. Batches]
        /\ saved \in [Process -> Nat]
        /\ exists \in BOOLEAN
    BY BatchesIsPositive DEF Init
  <2> QED
    BY <2>1, <2>2 DEF Init, TypeOK
<1>2. \A p \in Process :
        KindOf(p) /\ KnownOf(p) /\ TransactionOf(p) /\ BatchOf(p)
  BY NoneIsNoProcess
     DEF Init, KindOf, KnownOf, TransactionOf, BatchOf, Probing, Migrating,
         Syncing, Writing
<1> QED
  BY <1>1, <1>2 DEF Init, SchemaInv

LEMMA BeginSchema ==
  ASSUME SchemaInv, NEW p \in Process, Begin(p)
  PROVE  SchemaInv'
<1> USE NoneIsNoProcess, BatchesIsPositive DEF SchemaInv, Goto
<1>1. TypeOK'
  BY DEF Begin, TypeOK, catalogVars, rowVars, seedVars
<1>2. \A q \in Process :
        KindOf(q)' /\ KnownOf(q)' /\ TransactionOf(q)' /\ BatchOf(q)'
  BY DEF Begin, TypeOK, KindOf, KnownOf, TransactionOf, BatchOf, Process,
         Probing, Migrating, Syncing, Writing, catalogVars, seedVars
<1> QED
  BY <1>1, <1>2 DEF Begin, catalogVars

LEMMA PatchSchema ==
  ASSUME SchemaInv, NEW p \in Process, PatchTimestamps(p)
  PROVE  SchemaInv'
<1> USE NoneIsNoProcess, BatchesIsPositive DEF SchemaInv, Goto
<1>1. rows' \subseteq [id : Nat, run : Seed, patched : BOOLEAN]
  <2> SUFFICES ASSUME NEW x \in rows'
               PROVE  x \in [id : Nat, run : Seed, patched : BOOLEAN]
    OBVIOUS
  <2>1. PICK r \in rows :
          x = IF r.id = saved[p] THEN [r EXCEPT !.patched = TRUE] ELSE r
    BY DEF PatchTimestamps
  <2>2. r \in [id : Nat, run : Seed, patched : BOOLEAN]
    BY DEF TypeOK
  <2> QED
    BY <2>1, <2>2
<1>2. batch[p] \in Nat /\ batch[p] + 1 \in 0 .. Batches
  <2>1. batch[p] \in 0 .. Batches
    BY DEF TypeOK
  <2>2. batch[p] < Batches
    BY DEF PatchTimestamps, BatchOf, Writing
  <2> QED
    BY <2>1, <2>2
<1>3. batch' \in [Process -> 0 .. Batches]
  BY <1>2 DEF PatchTimestamps, TypeOK
<1>4. TypeOK'
  BY <1>1, <1>3 DEF PatchTimestamps, TypeOK, catalogVars, noteVars
<1>5. \A q \in Process :
        KindOf(q)' /\ KnownOf(q)' /\ TransactionOf(q)' /\ BatchOf(q)'
  BY <1>2 DEF PatchTimestamps, TypeOK, KindOf, KnownOf, TransactionOf,
              BatchOf, Probing, Migrating, Syncing, Writing, catalogVars
<1> QED
  BY <1>4, <1>5 DEF PatchTimestamps, catalogVars

LEMMA AbortSchema ==
  ASSUME SchemaInv, NEW p \in Process, NEW end \in {"rejected", "crashed"},
         Abort(p, end)
  PROVE  SchemaInv'
<1> USE NoneIsNoProcess DEF SchemaInv, Goto
<1>1. faulted' \in [Process -> BOOLEAN]
  BY Zenon DEF Abort, TypeOK
<1>2. TypeOK'
  BY <1>1 DEF Abort, TypeOK, Ended, rowVars, seedVars
<1>3. \A q \in Process :
        KindOf(q)' /\ KnownOf(q)' /\ TransactionOf(q)' /\ BatchOf(q)'
  BY DEF Abort, TypeOK, KindOf, KnownOf, TransactionOf, BatchOf, Probing,
         Migrating, Syncing, Writing, seedVars
<1> QED
  BY <1>2, <1>3 DEF Abort

\* Creating the types and the table, in either transaction.
LEMMA CreateOrderTransaction ==
  ASSUME SchemaInv, NEW p \in Process, NEW from,
         NEW to \in {"record", "sync commit"}, CreateOrder(p, from, to)
  PROVE  \A q \in Process : TransactionOf(q)'
<1> USE NoneIsNoProcess DEF SchemaInv, Goto
<1>1. /\ creator = None
      /\ \A q \in Process : pc[q] \notin {"record", "sync commit"}
  BY DEF CreateOrder, TransactionOf
<1>3. CASE ~orders /\ creator' = p /\ Goto(p, to)
  BY <1>1, <1>3 DEF CreateOrder, TypeOK, TransactionOf
<1>4. CASE Goto(p, "rejected") /\ UNCHANGED creator
  BY <1>1, <1>4 DEF CreateOrder, TypeOK, TransactionOf
<1> QED
  BY <1>3, <1>4 DEF CreateOrder

\* Each other step keeps the types and what is known of every process.
LEMMA StepSchema ==
  ASSUME SchemaInv, NEW p \in Process, Step(p)
  PROVE  SchemaInv'
<1> USE NoneIsNoProcess, BatchesIsPositive
    DEF SchemaInv, Goto, catalogVars, rowVars, seedVars, noteVars
<1>1. CASE ProbeDatabase(p)
  <2>1. TypeOK'
    BY <1>1 DEF ProbeDatabase, TypeOK, KindOf, Ended, Syncing, Writing
  <2>2. \A q \in Process :
          KindOf(q)' /\ KnownOf(q)' /\ TransactionOf(q)' /\ BatchOf(q)'
    BY <1>1 DEF ProbeDatabase, TypeOK, KindOf, KnownOf, TransactionOf, BatchOf,
                Process, Probing, Migrating, Syncing, Writing
  <2> QED
    BY <1>1, <2>1, <2>2 DEF ProbeDatabase, KnownOf, TransactionOf
<1>2. CASE CreateDatabase(p)
  <2>1. TypeOK'
    BY <1>2 DEF CreateDatabase, TypeOK, KindOf, Ended, Syncing, Writing
  <2>2. \A q \in Process :
          KindOf(q)' /\ KnownOf(q)' /\ TransactionOf(q)' /\ BatchOf(q)'
    BY <1>2
       DEF CreateDatabase, TypeOK, KindOf, KnownOf, TransactionOf, BatchOf,
           Process, Probing, Migrating, Syncing, Writing
  <2> QED
    BY <1>2, <2>1, <2>2 DEF CreateDatabase, KnownOf, TransactionOf
<1>3. CASE Initialize(p)
  <2>1. TypeOK'
    BY <1>3 DEF Initialize, TypeOK, KindOf, Ended, Syncing, Writing
  <2>2. \A q \in Process :
          KindOf(q)' /\ KnownOf(q)' /\ TransactionOf(q)' /\ BatchOf(q)'
    BY <1>3 DEF Initialize, TypeOK, KindOf, KnownOf, TransactionOf, BatchOf,
                Process, Probing, Migrating, Syncing, Writing
  <2> QED
    BY <1>3, <2>1, <2>2 DEF Initialize, KnownOf, TransactionOf
<1>4. CASE HasMigrationsTable(p)
  <2>1. TypeOK'
    BY <1>4 DEF HasMigrationsTable, TypeOK, KindOf, Ended, Syncing, Writing
  <2>2. \A q \in Process :
          KindOf(q)' /\ KnownOf(q)' /\ TransactionOf(q)' /\ BatchOf(q)'
    BY <1>4
       DEF HasMigrationsTable, TypeOK, KindOf, KnownOf, TransactionOf,
           BatchOf, Process, Probing, Migrating, Syncing, Writing
  <2> QED
    BY <1>4, <2>1, <2>2 DEF HasMigrationsTable, KnownOf, TransactionOf
<1>5. CASE CreateMigrationsTable(p)
  <2>1. TypeOK'
    BY <1>5 DEF CreateMigrationsTable, TypeOK, KindOf, Ended, Syncing, Writing
  <2>2. \A q \in Process :
          KindOf(q)' /\ KnownOf(q)' /\ TransactionOf(q)' /\ BatchOf(q)'
    BY <1>5, ZenonT(40)
       DEF CreateMigrationsTable, TypeOK, KindOf, KnownOf, TransactionOf,
           BatchOf, Process, Probing, Migrating, Syncing, Writing
  <2> QED
    BY <1>5, <2>1, <2>2 DEF CreateMigrationsTable, KnownOf, TransactionOf
<1>6. CASE LoadExecuted(p)
  <2>1. TypeOK'
    BY <1>6 DEF LoadExecuted, TypeOK, KindOf, Ended, Syncing, Writing
  <2>2. \A q \in Process :
          KindOf(q)' /\ KnownOf(q)' /\ TransactionOf(q)' /\ BatchOf(q)'
    BY <1>6 DEF LoadExecuted, TypeOK, KindOf, KnownOf, TransactionOf, BatchOf,
                Process, Probing, Migrating, Syncing, Writing
  <2> QED
    BY <1>6, <2>1, <2>2 DEF LoadExecuted, KnownOf, TransactionOf
<1>7. CASE Up(p)
  <2>1. TypeOK'
    BY <1>7 DEF Up, CreateOrder, TypeOK, KindOf, Ended, Syncing, Writing
  <2>2. \A q \in Process : KindOf(q)' /\ KnownOf(q)'
    BY <1>7 DEF Up, CreateOrder, TypeOK, KindOf, KnownOf, Probing, Migrating,
                Syncing, Writing
  <2>3. \A q \in Process : TransactionOf(q)'
    BY <1>7, CreateOrderTransaction DEF Up
  <2>4. \A q \in Process : BatchOf(q)'
    BY <1>7 DEF Up, CreateOrder, TypeOK, BatchOf, Probing, Syncing, Writing
  <2> QED
    BY <1>7, <2>1, <2>2, <2>3, <2>4 DEF Up, CreateOrder, KnownOf, TransactionOf
<1>8. CASE RecordMigration(p)
  <2>1. TypeOK'
    BY <1>8 DEF RecordMigration, TypeOK, KindOf, Ended, Syncing, Writing
  <2>2. \A q \in Process :
          KindOf(q)' /\ KnownOf(q)' /\ TransactionOf(q)' /\ BatchOf(q)'
    BY <1>8
       DEF RecordMigration, TypeOK, KindOf, KnownOf, TransactionOf, BatchOf,
           Process, Probing, Migrating, Syncing, Writing
  <2> QED
    BY <1>8, <2>1, <2>2 DEF RecordMigration, KnownOf, TransactionOf
<1>9. CASE Answered(p)
  <2>1. TypeOK'
    BY <1>9 DEF Answered, TypeOK, KindOf, Ended, Syncing, Writing
  <2>2. \A q \in Process :
          KindOf(q)' /\ KnownOf(q)' /\ TransactionOf(q)' /\ BatchOf(q)'
    BY <1>9 DEF Answered, TypeOK, KindOf, KnownOf, TransactionOf, BatchOf,
                Process, Probing, Migrating, Syncing, Writing
  <2> QED
    BY <1>9, <2>1, <2>2 DEF Answered, KnownOf, TransactionOf
<1>10. CASE CompareSchema(p)
  <2>1. TypeOK'
    BY <1>10 DEF CompareSchema, TypeOK, KindOf, Ended, Syncing, Writing
  <2>2. \A q \in Process :
          KindOf(q)' /\ KnownOf(q)' /\ TransactionOf(q)' /\ BatchOf(q)'
    BY <1>10
       DEF CompareSchema, TypeOK, KindOf, KnownOf, TransactionOf, BatchOf,
           Process, Probing, Migrating, Syncing, Writing
  <2> QED
    BY <1>10, <2>1, <2>2 DEF CompareSchema, KnownOf, TransactionOf
<1>11. CASE SyncUp(p)
  <2>1. TypeOK'
    BY <1>11 DEF SyncUp, CreateOrder, TypeOK, KindOf, Ended, Syncing, Writing
  <2>2. \A q \in Process : KindOf(q)' /\ KnownOf(q)'
    BY <1>11
       DEF SyncUp, CreateOrder, TypeOK, KindOf, KnownOf, Probing, Migrating,
           Syncing, Writing
  <2>3. \A q \in Process : TransactionOf(q)'
    BY <1>11, CreateOrderTransaction DEF SyncUp
  <2>4. \A q \in Process : BatchOf(q)'
    BY <1>11
       DEF SyncUp, CreateOrder, TypeOK, BatchOf, Probing, Syncing, Writing
  <2> QED
    BY <1>11, <2>1, <2>2, <2>3, <2>4
       DEF SyncUp, CreateOrder, KnownOf, TransactionOf
<1>12. CASE SyncCommit(p)
  <2>1. TypeOK'
    BY <1>12 DEF SyncCommit, TypeOK, KindOf, Ended, Syncing, Writing
  <2>2. \A q \in Process :
          KindOf(q)' /\ KnownOf(q)' /\ TransactionOf(q)' /\ BatchOf(q)'
    BY <1>12 DEF SyncCommit, TypeOK, KindOf, KnownOf, TransactionOf, BatchOf,
                Process, Probing, Migrating, Syncing, Writing
  <2> QED
    BY <1>12, <2>1, <2>2 DEF SyncCommit, KnownOf, TransactionOf
<1>13. CASE TruncateOrders(p)
  <2>1. TypeOK'
    BY <1>13 DEF TruncateOrders, TypeOK, KindOf, Ended, Syncing, Writing
  <2>2. \A q \in Process : KindOf(q)' /\ KnownOf(q)'
    BY <1>13 DEF TruncateOrders, TypeOK, KindOf, KnownOf, Probing, Migrating,
                Syncing, Writing
  <2>3. \A q \in Process : TransactionOf(q)'
    BY <1>13 DEF TruncateOrders, TypeOK, TransactionOf
  <2>4. batch[p] < Batches
    BY <1>13 DEF TruncateOrders, BatchOf
  <2>5. \A q \in Process : BatchOf(q)'
    BY <1>13, <2>4 DEF TruncateOrders, TypeOK, BatchOf, Probing, Syncing,
                       Writing
  <2> QED
    BY <1>13, <2>1, <2>2, <2>3, <2>5 DEF TruncateOrders, KnownOf, TransactionOf
<1>14. CASE SaveBatch(p)
  <2>1. [id |-> nextId, run |-> p, patched |-> FALSE] \in
          [id : Nat, run : Seed, patched : BOOLEAN]
    BY <1>14 DEF SaveBatch, TypeOK, KindOf, Writing
  <2>2. rows' \subseteq [id : Nat, run : Seed, patched : BOOLEAN]
    BY <1>14, <2>1 DEF SaveBatch, TypeOK
  <2>3. saved' \in [Process -> Nat] /\ nextId' \in Nat
    <3>1. nextId \in Nat /\ saved \in [Process -> Nat]
      BY DEF TypeOK
    <3>2. saved' = [saved EXCEPT ![p] = nextId] /\ nextId' = nextId + 1
      BY <1>14 DEF SaveBatch
    <3> QED
      BY <3>1, <3>2
  <2>4. TypeOK'
    BY <1>14, <2>2, <2>3 DEF SaveBatch, TypeOK
  <2>5. \A q \in Process :
          KindOf(q)' /\ KnownOf(q)' /\ TransactionOf(q)' /\ BatchOf(q)'
    BY <1>14 DEF SaveBatch, TypeOK, KindOf, KnownOf, TransactionOf, BatchOf,
                Process, Probing, Migrating, Syncing, Writing
  <2> QED
    BY <1>14, <2>4, <2>5 DEF SaveBatch, KnownOf, TransactionOf
<1>15. CASE PatchTimestamps(p)
  BY <1>15, PatchSchema
<1> QED
  BY <1>1, <1>2, <1>3, <1>4, <1>5, <1>6, <1>7, <1>8, <1>9, <1>10, <1>11,
     <1>12, <1>13, <1>14, <1>15
     DEF Step, Migrate, SeedTenant

LEMMA SchemaStuttering ==
  ASSUME SchemaInv, UNCHANGED vars
  PROVE  SchemaInv'
<1> USE DEF SchemaInv, vars, catalogVars, rowVars, seedVars, noteVars
<1>1. TypeOK'
  BY DEF TypeOK
<1>2. \A q \in Process :
        KindOf(q)' /\ KnownOf(q)' /\ TransactionOf(q)' /\ BatchOf(q)'
  BY DEF KindOf, KnownOf, TransactionOf, BatchOf
<1> QED
  BY <1>1, <1>2

LEMMA NextSchema == SchemaInv /\ [Next]_vars => SchemaInv'
<1> SUFFICES ASSUME SchemaInv, [Next]_vars PROVE SchemaInv'
  OBVIOUS
<1>1. ASSUME NEW p \in Process, Begin(p) PROVE SchemaInv'
  BY <1>1, BeginSchema
<1>2. ASSUME NEW p \in Process, Step(p) PROVE SchemaInv'
  BY <1>2, StepSchema
<1>3. ASSUME NEW p \in Process, NEW end \in {"rejected", "crashed"},
             Abort(p, end)
      PROVE  SchemaInv'
  BY <1>3, AbortSchema
<1>4. CASE UNCHANGED vars
  BY <1>4, SchemaStuttering
<1> QED
  BY <1>1, <1>2, <1>3, <1>4 DEF Next

LEMMA SchemaInvariant == Spec => []SchemaInv
BY InitSchema, NextSchema, PTL DEF Spec

\* The variables keep their types; among them the counter of batches, whose
\* bound is the end of the seed script's loop (seed.ts:47).
THEOREM TypeCorrect == Spec => []TypeOK
<1>1. SchemaInv => TypeOK
  BY DEF SchemaInv
<1> QED
  BY <1>1, SchemaInvariant, PTL

\* A connection is handed out, and provision succeeds, only over a database
\* that is migrated, with any number of requests, provisions and seed runs
\* at work on it and any number of faults (tenant-db.manager.ts:91-95 and
\* 110-116).
THEOREM ReadyAlwaysMigrated == Spec => []ReadyIsMigrated
<1>1. SchemaInv => ReadyIsMigrated
  BY KindsDisjoint DEF SchemaInv, ReadyIsMigrated, KindOf, KnownOf, Process
<1> QED
  BY <1>1, SchemaInvariant, PTL

-----------------------------------------------------------------------------
LEMMA InitHeal == Init => HealInv
BY DEF Init, HealInv, AloneOf, Active

\* A step of p disturbs nobody who is alone, and if p is, it stays so.
LEMMA StepAlone ==
  ASSUME SchemaInv, HealInv, NEW p \in Process, NEW place, Active(p),
         Goto(p, place), UNCHANGED alone
  PROVE  \A q \in Process \ {p} :
           AloneOf(q)' /\ (alone[p] => ~Active(q)')
<1> SUFFICES ASSUME NEW q \in Process \ {p}
             PROVE  AloneOf(q)' /\ (alone[p] => ~Active(q)')
  OBVIOUS
<1>1. pc'[q] = pc[q]
  BY DEF SchemaInv, TypeOK, Goto
<1>2. alone[p] => ~Active(q)
  BY DEF HealInv, AloneOf
<1>3. alone[q] => ~Active(q)
  BY DEF HealInv, AloneOf
<1> QED
  BY <1>1, <1>2, <1>3 DEF AloneOf, Active, Ended

\* Nobody goes back to idle.
LEMMA SeedsStayBegun ==
  ASSUME SchemaInv, NEW p \in Process, NEW place, place # "idle",
         Goto(p, place)
  PROVE  (\E s \in Seed : pc[s] # "idle") => \E s \in Seed : pc'[s] # "idle"
BY DEF SchemaInv, TypeOK, Goto, Process

LEMMA BeginHeal ==
  ASSUME SchemaInv, HealInv, NEW p \in Process, Begin(p)
  PROVE  HealInv'
<1>1. \A q \in Process : AloneOf(q)'
  BY DEF Begin, Goto, SchemaInv, TypeOK, HealInv, AloneOf, Active, Ended,
         catalogVars
<1>2. (\E s \in Seed : pc[s] # "idle") => \E s \in Seed : pc'[s] # "idle"
  BY SeedsStayBegun DEF Begin
<1> QED
  BY <1>1, <1>2 DEF Begin, HealInv, catalogVars

LEMMA AbortHeal ==
  ASSUME SchemaInv, HealInv, NEW p \in Process,
         NEW end \in {"rejected", "crashed"}, Abort(p, end)
  PROVE  HealInv'
<1>1. AloneOf(p)'
  BY DEF Abort, Goto, SchemaInv, TypeOK, AloneOf, Active, Ended
<1>2. \A q \in Process \ {p} : AloneOf(q)'
  BY StepAlone DEF Abort
<1>3. (\E s \in Seed : pc[s] # "idle") => \E s \in Seed : pc'[s] # "idle"
  BY SeedsStayBegun DEF Abort
<1> QED
  BY <1>1, <1>2, <1>3 DEF Abort, HealInv

\* Where every other step leads, and that it leaves alone as it is.
LEMMA StepGoes ==
  ASSUME SchemaInv, NEW p \in Process, Step(p)
  PROVE  /\ Active(p)
         /\ Goto(p, pc'[p])
         /\ pc'[p] # "idle"
         /\ UNCHANGED alone
<1> USE DEF SchemaInv, TypeOK, Active, Ended, Goto, noteVars
<1>1. CASE ProbeDatabase(p)
  BY <1>1 DEF ProbeDatabase
<1>2. CASE CreateDatabase(p)
  BY <1>2 DEF CreateDatabase
<1>3. CASE Initialize(p)
  <2> DEFINE place == CASE ~exists    -> "rejected"
                        [] p \in Seed -> "sync"
                        [] OTHER      -> "has table"
  <2>1. place \in {"rejected", "sync", "has table"}
    OBVIOUS
  <2>2. pc' = [pc EXCEPT ![p] = place]
    BY <1>3 DEF Initialize
  <2> HIDE DEF place
  <2> QED
    BY <1>3, <2>1, <2>2 DEF Initialize
<1>4. CASE HasMigrationsTable(p)
  BY <1>4 DEF HasMigrationsTable
<1>5. CASE CreateMigrationsTable(p)
  BY <1>5 DEF CreateMigrationsTable
<1>6. CASE LoadExecuted(p)
  BY <1>6 DEF LoadExecuted
<1>7. CASE Up(p)
  BY <1>7 DEF Up, CreateOrder
<1>8. CASE RecordMigration(p)
  BY <1>8 DEF RecordMigration
<1>9. CASE Answered(p)
  BY <1>9 DEF Answered
<1>10. CASE CompareSchema(p)
  BY <1>10 DEF CompareSchema
<1>11. CASE SyncUp(p)
  BY <1>11 DEF SyncUp, CreateOrder
<1>12. CASE SyncCommit(p)
  BY <1>12 DEF SyncCommit
<1>13. CASE TruncateOrders(p)
  BY <1>13 DEF TruncateOrders
<1>14. CASE SaveBatch(p)
  BY <1>14 DEF SaveBatch
<1>15. CASE PatchTimestamps(p)
  BY <1>15 DEF PatchTimestamps
<1> QED
  BY <1>1, <1>2, <1>3, <1>4, <1>5, <1>6, <1>7, <1>8, <1>9, <1>10, <1>11,
     <1>12, <1>13, <1>14, <1>15
     DEF Step, Migrate, SeedTenant

LEMMA StepHeal ==
  ASSUME SchemaInv, HealInv, NEW p \in Process, Step(p)
  PROVE  HealInv'
<1>1. Active(p) /\ UNCHANGED alone
  BY StepGoes
<1>2. Goto(p, pc'[p]) /\ pc'[p] # "idle"
  BY StepGoes
<1>3. \A q \in Process \ {p} :
        AloneOf(q)' /\ (alone[p] => ~Active(q)')
  BY <1>1, <1>2, StepAlone
<1>4. (\E s \in Seed : pc[s] # "idle") => \E s \in Seed : pc'[s] # "idle"
  BY <1>2, SeedsStayBegun
<1> USE DEF HealInv, SchemaInv, TypeOK, AloneOf, Goto, catalogVars
<1>5. CASE ProbeDatabase(p)
  BY <1>1, <1>3, <1>4, <1>5 DEF ProbeDatabase
<1>6. CASE CreateDatabase(p)
  BY <1>1, <1>3, <1>4, <1>6 DEF CreateDatabase
<1>7. CASE Initialize(p)
  BY <1>1, <1>3, <1>4, <1>7 DEF Initialize
<1>8. CASE HasMigrationsTable(p)
  BY <1>1, <1>3, <1>4, <1>8 DEF HasMigrationsTable
<1>9. CASE CreateMigrationsTable(p)
  BY <1>1, <1>3, <1>4, <1>9 DEF CreateMigrationsTable
<1>10. CASE LoadExecuted(p)
  BY <1>1, <1>3, <1>4, <1>10 DEF LoadExecuted
<1>11. CASE Up(p)
  BY <1>1, <1>3, <1>4, <1>11 DEF Up, CreateOrder
<1>12. CASE RecordMigration(p)
  BY <1>1, <1>3, <1>4, <1>12 DEF RecordMigration
<1>13. CASE Answered(p)
  BY <1>1, <1>3, <1>4, <1>13 DEF Answered
<1>14. CASE CompareSchema(p)
  BY <1>1, <1>3, <1>4, <1>14 DEF CompareSchema
<1>15. CASE SyncUp(p)
  BY <1>1, <1>3, <1>4, <1>15 DEF SyncUp, CreateOrder
<1>16. CASE SyncCommit(p)
  BY <1>1, <1>3, <1>4, <1>16 DEF SyncCommit, KindOf, Syncing
<1>17. CASE TruncateOrders(p)
  BY <1>1, <1>3, <1>4, <1>17 DEF TruncateOrders
<1>18. CASE SaveBatch(p)
  BY <1>1, <1>3, <1>4, <1>18 DEF SaveBatch
<1>19. CASE PatchTimestamps(p)
  BY <1>1, <1>3, <1>4, <1>19 DEF PatchTimestamps
<1> QED
  BY <1>5, <1>6, <1>7, <1>8, <1>9, <1>10, <1>11, <1>12, <1>13, <1>14, <1>15,
     <1>16, <1>17, <1>18, <1>19
     DEF Step, Migrate, SeedTenant

LEMMA HealStuttering ==
  ASSUME HealInv, UNCHANGED vars
  PROVE  HealInv'
BY DEF HealInv, AloneOf, Active, vars, catalogVars, noteVars

LEMMA NextHeal == SchemaInv /\ HealInv /\ [Next]_vars => HealInv'
<1> SUFFICES ASSUME SchemaInv, HealInv, [Next]_vars PROVE HealInv'
  OBVIOUS
<1>1. ASSUME NEW p \in Process, Begin(p) PROVE HealInv'
  BY <1>1, BeginHeal
<1>2. ASSUME NEW p \in Process, Step(p) PROVE HealInv'
  BY <1>2, StepHeal
<1>3. ASSUME NEW p \in Process, NEW end \in {"rejected", "crashed"},
             Abort(p, end)
      PROVE  HealInv'
  BY <1>3, AbortHeal
<1>4. CASE UNCHANGED vars
  BY <1>4, HealStuttering
<1> QED
  BY <1>1, <1>2, <1>3, <1>4 DEF Next

LEMMA HealInvariant == Spec => [](SchemaInv /\ HealInv)
<1>1. Init => SchemaInv /\ HealInv
  BY InitSchema, InitHeal
<1>2. SchemaInv /\ HealInv /\ [Next]_vars => (SchemaInv /\ HealInv)'
  BY NextSchema, NextHeal
<1> QED
  BY <1>1, <1>2, PTL DEF Spec

\* The steps that refuse an attempt which is alone and without a fault: of
\* all the ways to be refused only a database that was synchronized is left.
LEMMA RefusedIsSynchronized ==
  ASSUME SchemaInv, HealInv, NEW p \in Process, Step(p), RefusedAlone(p)
  PROVE  /\ orders /\ ledger # "recorded"
         /\ \E s \in Seed : pc[s] # "idle"
<1>1. pc'[p] = "rejected" /\ alone[p] /\ exists
  BY DEF RefusedAlone
<1>2. /\ pc[p] = "create database" => ~exists
      /\ pc[p] = "create table" => ledger = "absent"
      /\ pc[p] = "up" => ledger # "recorded"
      /\ pc[p] = "sync up" => ~orders
  BY <1>1 DEF HealInv, AloneOf
<1>3. pc[p] = "up" /\ orders
  <2> USE <1>1, <1>2 DEF Goto, SchemaInv, TypeOK
  <2>1. CASE ProbeDatabase(p)
    BY <2>1 DEF ProbeDatabase
  <2>2. CASE CreateDatabase(p)
    BY <2>2 DEF CreateDatabase
  <2>3. CASE Initialize(p)
    BY <2>3 DEF Initialize
  <2>4. CASE HasMigrationsTable(p)
    BY <2>4 DEF HasMigrationsTable
  <2>5. CASE CreateMigrationsTable(p)
    BY <2>5 DEF CreateMigrationsTable
  <2>6. CASE LoadExecuted(p)
    BY <2>6 DEF LoadExecuted
  <2>7. CASE Up(p)
    BY <2>7 DEF Up, CreateOrder
  <2>8. CASE RecordMigration(p)
    BY <2>8 DEF RecordMigration
  <2>9. CASE Answered(p)
    BY <2>9 DEF Answered
  <2>10. CASE CompareSchema(p)
    BY <2>10 DEF CompareSchema
  <2>11. CASE SyncUp(p)
    BY <2>11 DEF SyncUp, CreateOrder
  <2>12. CASE SyncCommit(p)
    BY <2>12 DEF SyncCommit
  <2>13. CASE TruncateOrders(p)
    BY <2>13 DEF TruncateOrders
  <2>14. CASE SaveBatch(p)
    BY <2>14 DEF SaveBatch
  <2>15. CASE PatchTimestamps(p)
    BY <2>15 DEF PatchTimestamps
  <2> QED
    BY <2>1, <2>2, <2>3, <2>4, <2>5, <2>6, <2>7, <2>8, <2>9, <2>10,
       <2>11, <2>12, <2>13, <2>14, <2>15
       DEF Step, Migrate, SeedTenant
<1> QED
  BY <1>2, <1>3 DEF HealInv

\* Whatever earlier attempts died of, one that nothing disturbs succeeds,
\* unless a seed run has synchronized the database before its migration; for
\* any number of attempts and faults (tenant-db.manager.ts:74-96 and
\* 109-117, seed.ts:29-77).
THEOREM RetryAlwaysHeals == Spec => RetryHeals
<1>1. SchemaInv /\ HealInv /\ [Next]_vars =>
        [\A p \in Process : RefusedAlone(p) =>
           /\ orders /\ ledger # "recorded"
           /\ \E s \in Seed : pc[s] # "idle"]_vars
  <2> SUFFICES ASSUME SchemaInv, Next, HealInv, NEW p \in Process,
                      RefusedAlone(p)
               PROVE  /\ orders /\ ledger # "recorded"
                      /\ \E s \in Seed : pc[s] # "idle"
    OBVIOUS
  <2>1. pc[p] # "rejected" /\ pc'[p] = "rejected" /\ ~faulted'[p]
    BY DEF RefusedAlone
  <2>2. ASSUME NEW q \in Process, Step(q)
        PROVE  /\ orders /\ ledger # "recorded"
               /\ \E s \in Seed : pc[s] # "idle"
    <3>1. q = p
      BY <2>1, <2>2, StepGoes DEF Goto, SchemaInv, TypeOK
    <3> QED
      BY <2>2, <3>1, RefusedIsSynchronized
  <2>3. ASSUME NEW q \in Process, Begin(q) PROVE FALSE
    BY <2>1, <2>3 DEF Begin, Goto, SchemaInv, TypeOK
  <2>4. ASSUME NEW q \in Process, NEW end \in {"rejected", "crashed"},
               Abort(q, end)
        PROVE  FALSE
    BY <2>1, <2>4 DEF Abort, Goto, SchemaInv, TypeOK
  <2> QED
    BY <2>2, <2>3, <2>4 DEF Next
<1> QED
  BY <1>1, HealInvariant, PTL DEF Spec, RetryHeals

-----------------------------------------------------------------------------
\* n orders with different ids are n orders.
LEMMA OwnRowsCardinality ==
  ASSUME NEW p, NEW n \in Nat
  PROVE  Cardinality(OwnRows(p, n)) = n
<1> DEFINE row(i) == [id |-> i, run |-> p, patched |-> TRUE]
           f == [i \in 1 .. n |-> row(i)]
<1>1. f \in [1 .. n -> OwnRows(p, n)]
  BY DEF OwnRows
<1>2. \A i, j \in 1 .. n : f[i] = f[j] => i = j
  <2> SUFFICES ASSUME NEW i \in 1 .. n, NEW j \in 1 .. n, row(i) = row(j)
               PROVE  i = j
    OBVIOUS
  <2>1. row(i).id = row(j).id
    OBVIOUS
  <2> QED
    BY <2>1
<1>3. \A r \in OwnRows(p, n) : \E i \in 1 .. n : f[i] = r
  BY DEF OwnRows
<1>4. f \in Bijection(1 .. n, OwnRows(p, n))
  <2> HIDE DEF f
  <2> QED
    BY <1>1, <1>2, <1>3, Fun_IsBij
<1>5. ExistsBijection(1 .. n, OwnRows(p, n))
  BY <1>4 DEF ExistsBijection
<1>6. IsFiniteSet(1 .. n) /\ Cardinality(1 .. n) = n
  BY FS_Interval
<1> QED
  BY <1>5, <1>6, FS_Bijection

LEMMA InitRows == Init => RowsInv
BY NoneIsNoProcess DEF Init, RowsInv, RowsOf, Process

\* A step of p that writes no orders, and does not lead p to writing them.
LEMMA IdleRows ==
  ASSUME SchemaInv, HealInv, RowsInv, NEW p \in Process, NEW place,
         Goto(p, place), place \notin Writing,
         pc[p] \in Writing \cup {"last answer"} \cup Ended =>
           place \in {"last answer"} \cup Ended,
         place \in {"last answer", "done"} =>
           pc[p] = "last answer" \/ p \notin Seed,
         \A s \in Seed : pc[s] # "idle" /\ alone'[s] => alone[s],
         UNCHANGED <<rowVars, seedVars>>
  PROVE  RowsInv'
<1> SUFFICES ASSUME NEW s \in Seed, latest' = s PROVE RowsOf(s)'
  BY DEF RowsInv, RowsOf
<1>1. RowsOf(s) /\ latest = s
  BY DEF RowsInv, rowVars
<1>2. pc[s] # "idle"
  BY <1>1 DEF RowsOf, Writing, Ended
<1>3. \A q \in Process : pc'[q] = IF q = p THEN place ELSE pc[q]
  BY DEF SchemaInv, TypeOK, Goto
<1>4. s \in Process
  BY DEF Process
<1>5. Seed \subseteq Process
  BY DEF Process
<1>6. pc'[s] \in Writing \cup {"last answer"} \cup Ended
  BY <1>1, <1>3, <1>4 DEF RowsOf
<1>7. CASE ~alone'[s]
  BY <1>6, <1>7 DEF RowsOf
<1>8. CASE alone[s]
  <2>1. \A q \in Seed \ {s} : pc'[q] \notin Writing
    BY <1>1, <1>3, <1>5, <1>8 DEF RowsOf
  <2> QED
    BY <1>1, <1>3, <1>4, <1>6, <1>8, <2>1
       DEF RowsOf, rowVars, seedVars, Writing, Ended
<1> QED
  BY <1>2, <1>7, <1>8

LEMMA BeginRows ==
  ASSUME SchemaInv, HealInv, RowsInv, NEW p \in Process, Begin(p)
  PROVE  RowsInv'
<1> DEFINE place == IF p \in Provision THEN "probe" ELSE "initialize"
<1>1. pc[p] = "idle" /\ Goto(p, place) /\ UNCHANGED <<rowVars, seedVars>>
  BY DEF Begin
<1>2. place \in {"probe", "initialize"}
  OBVIOUS
<1>3. \A s \in Seed : pc[s] # "idle" /\ alone'[s] => alone[s]
  BY <1>1 DEF Begin, Process
<1> HIDE DEF place
<1> QED
  BY <1>1, <1>2, <1>3, IdleRows DEF Writing, Ended

LEMMA AbortRows ==
  ASSUME SchemaInv, HealInv, RowsInv, NEW p \in Process,
         NEW end \in {"rejected", "crashed"}, Abort(p, end)
  PROVE  RowsInv'
BY IdleRows DEF Abort, Writing, Ended

LEMMA TruncateRows ==
  ASSUME SchemaInv, HealInv, RowsInv, NEW p \in Process, TruncateOrders(p)
  PROVE  RowsInv'
<1> SUFFICES ASSUME NEW s \in Seed, latest' = s PROVE RowsOf(s)'
  BY DEF RowsInv, RowsOf
<1>1. s = p /\ p \in Seed /\ batch[p] = 0 /\ batch'[p] = 0
  BY DEF TruncateOrders, SchemaInv, BatchOf, seedVars
<1>2. /\ pc'[p] = "save"
      /\ \A q \in Process \ {p} : pc'[q] = pc[q]
  BY DEF TruncateOrders, Goto, SchemaInv, TypeOK
<1>3. alone'[p] => \A q \in Seed \ {p} : pc'[q] \notin Writing
  <2> SUFFICES ASSUME alone'[p], NEW q \in Seed \ {p}
               PROVE  pc'[q] \notin Writing
    OBVIOUS
  <2>1. q \in Process \ {p} /\ alone[p] /\ Active(p)
    BY DEF Process, TruncateOrders, noteVars, Active, Ended
  <2>2. ~Active(q)
    BY <2>1 DEF HealInv, AloneOf
  <2> QED
    BY <1>2, <2>1, <2>2 DEF Active, Ended, Writing
<1>4. rows' = OwnRows(p, 0) /\ nextId' = 1
  BY DEF TruncateOrders, OwnRows
<1> QED
  BY <1>1, <1>2, <1>3, <1>4 DEF RowsOf, Writing

LEMMA SaveRows ==
  ASSUME SchemaInv, HealInv, RowsInv, NEW p \in Process, SaveBatch(p)
  PROVE  RowsInv'
<1> SUFFICES ASSUME NEW s \in Seed, latest' = s PROVE RowsOf(s)'
  BY DEF RowsInv, RowsOf
<1>1. /\ latest = s /\ RowsOf(s)
      /\ alone' = alone /\ batch' = batch
      /\ s \in Process /\ p \in Seed
  BY DEF SaveBatch, RowsInv, noteVars, Process, SchemaInv, KindOf, Writing
<1>2. /\ pc[p] = "save" /\ pc'[p] = "patch"
      /\ \A q \in Process \ {p} : pc'[q] = pc[q]
  BY DEF SaveBatch, Goto, SchemaInv, TypeOK
<1>3. CASE ~alone[s]
  BY <1>1, <1>2, <1>3 DEF RowsOf, Writing
<1>4. CASE alone[s]
  <2>1. s = p
    BY <1>1, <1>2, <1>4 DEF RowsOf, Writing
  <2>2. rows = OwnRows(p, batch[p]) /\ nextId = batch[p] + 1
    BY <1>1, <1>2, <1>4, <2>1 DEF RowsOf
  <2>3. /\ rows' = OwnRows(p, batch[p]) \cup
                     {[id |-> batch[p] + 1, run |-> p, patched |-> FALSE]}
        /\ saved'[p] = batch[p] + 1
    BY <2>2 DEF SaveBatch, SchemaInv, TypeOK
  <2>4. nextId' = batch[p] + 2
    <3>1. batch[p] \in 0 .. Batches
      BY DEF SchemaInv, TypeOK
    <3>2. nextId' = nextId + 1
      BY DEF SaveBatch
    <3> QED
      BY <2>2, <3>1, <3>2, BatchesIsPositive
  <2>5. \A q \in Seed \ {p} : pc'[q] \notin Writing
    BY <1>1, <1>2, <1>4, <2>1 DEF RowsOf, Process
  <2> QED
    BY <1>1, <1>2, <2>1, <2>3, <2>4, <2>5 DEF RowsOf, Writing
<1> QED
  BY <1>3, <1>4

\* Dating the row that was saved last: the others have smaller ids.
LEMMA PatchOwnRows ==
  ASSUME NEW p, NEW n \in Nat, NEW R,
         R = OwnRows(p, n) \cup
               {[id |-> n + 1, run |-> p, patched |-> FALSE]}
  PROVE  {IF r.id = n + 1 THEN [r EXCEPT !.patched = TRUE] ELSE r : r \in R}
           = OwnRows(p, n + 1)
<1> DEFINE new == [id |-> n + 1, run |-> p, patched |-> FALSE]
           dated(r) == IF r.id = n + 1 THEN [r EXCEPT !.patched = TRUE] ELSE r
<1>1. dated(new) = [id |-> n + 1, run |-> p, patched |-> TRUE]
  OBVIOUS
<1>2. \A r \in OwnRows(p, n) : dated(r) = r
  BY DEF OwnRows
<1>3. OwnRows(p, n + 1) =
        OwnRows(p, n) \cup {[id |-> n + 1, run |-> p, patched |-> TRUE]}
  <2>1. 1 .. (n + 1) = (1 .. n) \cup {n + 1}
    OBVIOUS
  <2> QED
    BY <2>1 DEF OwnRows
<1>4. {dated(r) : r \in R} = {dated(r) : r \in OwnRows(p, n)} \cup {dated(new)}
  OBVIOUS
<1> HIDE DEF new, dated
<1>5. {dated(r) : r \in OwnRows(p, n)} = OwnRows(p, n)
  BY <1>2
<1> QED
  BY <1>1, <1>3, <1>4, <1>5 DEF dated

LEMMA PatchRows ==
  ASSUME SchemaInv, HealInv, RowsInv, NEW p \in Process, PatchTimestamps(p)
  PROVE  RowsInv'
<1> SUFFICES ASSUME NEW s \in Seed, latest' = s PROVE RowsOf(s)'
  BY DEF RowsInv, RowsOf
<1>1. /\ latest = s /\ RowsOf(s)
      /\ alone' = alone /\ nextId' = nextId
      /\ s \in Process /\ p \in Seed
  BY DEF PatchTimestamps, RowsInv, noteVars, Process, SchemaInv, KindOf,
         Writing
<1>2. /\ pc[p] = "patch"
      /\ pc'[p] = IF batch[p] + 1 < Batches THEN "save" ELSE "last answer"
      /\ \A q \in Process \ {p} : pc'[q] = pc[q]
  BY DEF PatchTimestamps, Goto, SchemaInv, TypeOK
<1>3. CASE ~alone[s]
  BY <1>1, <1>2, <1>3 DEF RowsOf, Writing
<1>4. CASE alone[s]
  <2>1. s = p
    BY <1>1, <1>2, <1>4 DEF RowsOf, Writing
  <2>2. /\ rows = OwnRows(p, batch[p]) \cup
                    {[id |-> batch[p] + 1, run |-> p, patched |-> FALSE]}
        /\ saved[p] = batch[p] + 1
        /\ nextId = batch[p] + 2
    BY <1>1, <1>2, <1>4, <2>1 DEF RowsOf
  <2>3. batch[p] \in Nat /\ batch[p] < Batches
    <3>1. batch[p] \in 0 .. Batches
      BY DEF SchemaInv, TypeOK
    <3>2. batch[p] < Batches
      BY <1>2 DEF SchemaInv, BatchOf, Writing
    <3> QED
      BY <3>1, <3>2
  <2>4. batch'[p] = batch[p] + 1
    BY DEF PatchTimestamps, SchemaInv, TypeOK
  <2>5. rows' = OwnRows(p, batch[p] + 1)
    <3>1. rows' = {IF r.id = batch[p] + 1
                     THEN [r EXCEPT !.patched = TRUE] ELSE r : r \in rows}
      BY <2>2 DEF PatchTimestamps
    <3> QED
      BY <2>2, <2>3, <3>1, PatchOwnRows
  <2>6. nextId' = batch'[p] + 1
    BY <1>1, <2>2, <2>3, <2>4
  <2>7. \A q \in Seed \ {p} : pc'[q] \notin Writing
    BY <1>1, <1>2, <1>4, <2>1 DEF RowsOf, Process
  <2>8. CASE batch[p] + 1 < Batches
    BY <1>1, <1>2, <2>1, <2>4, <2>5, <2>6, <2>7, <2>8 DEF RowsOf, Writing
  <2>9. CASE batch[p] + 1 = Batches
    <3>1. ~(batch[p] + 1 < Batches)
      BY <2>9, BatchesIsPositive
    <3>2. pc'[p] = "last answer"
      BY <1>2, <3>1
    <3>3. rows' = OwnRows(p, Batches)
      BY <2>5, <2>9
    <3> QED
      BY <1>1, <2>1, <2>7, <3>2, <3>3 DEF RowsOf, Writing
  <2> QED
    BY <2>3, <2>8, <2>9, BatchesIsPositive
<1> QED
  BY <1>3, <1>4

LEMMA StepRows ==
  ASSUME SchemaInv, HealInv, RowsInv, NEW p \in Process, Step(p)
  PROVE  RowsInv'
<1>1. Goto(p, pc'[p]) /\ UNCHANGED alone
  BY StepGoes
<1>2. ASSUME pc'[p] \notin Writing,
             pc[p] \in Writing \cup {"last answer"} \cup Ended =>
               pc'[p] \in {"last answer"} \cup Ended,
             pc'[p] \in {"last answer", "done"} =>
               pc[p] = "last answer" \/ p \notin Seed,
             UNCHANGED <<rowVars, seedVars>>
      PROVE  RowsInv'
  BY <1>1, <1>2, IdleRows
<1> USE DEF SchemaInv, TypeOK, KindOf, Goto, Ended, Writing, Migrating
<1>3. CASE ProbeDatabase(p)
  BY <1>2, <1>3 DEF ProbeDatabase
<1>4. CASE CreateDatabase(p)
  BY <1>2, <1>4 DEF CreateDatabase
<1>5. CASE Initialize(p)
  BY <1>2, <1>5 DEF Initialize
<1>6. CASE HasMigrationsTable(p)
  BY <1>2, <1>6 DEF HasMigrationsTable
<1>7. CASE CreateMigrationsTable(p)
  BY <1>2, <1>7 DEF CreateMigrationsTable
<1>8. CASE LoadExecuted(p)
  BY <1>2, <1>8 DEF LoadExecuted
<1>9. CASE Up(p)
  BY <1>2, <1>9 DEF Up, CreateOrder
<1>10. CASE RecordMigration(p)
  BY <1>2, <1>10 DEF RecordMigration
<1>11. CASE Answered(p)
  BY <1>2, <1>11 DEF Answered
<1>12. CASE CompareSchema(p)
  BY <1>2, <1>12 DEF CompareSchema
<1>13. CASE SyncUp(p)
  BY <1>2, <1>13 DEF SyncUp, CreateOrder
<1>14. CASE SyncCommit(p)
  BY <1>2, <1>14 DEF SyncCommit
<1>15. CASE TruncateOrders(p)
  BY <1>15, TruncateRows
<1>16. CASE SaveBatch(p)
  BY <1>16, SaveRows
<1>17. CASE PatchTimestamps(p)
  BY <1>17, PatchRows
<1> QED
  BY <1>3, <1>4, <1>5, <1>6, <1>7, <1>8, <1>9, <1>10, <1>11, <1>12, <1>13,
     <1>14, <1>15, <1>16, <1>17
     DEF Step, Migrate, SeedTenant

LEMMA NextRows == SchemaInv /\ HealInv /\ RowsInv /\ [Next]_vars => RowsInv'
<1> SUFFICES ASSUME SchemaInv, HealInv, RowsInv, [Next]_vars PROVE RowsInv'
  OBVIOUS
<1>1. ASSUME NEW p \in Process, Begin(p) PROVE RowsInv'
  BY <1>1, BeginRows
<1>2. ASSUME NEW p \in Process, Step(p) PROVE RowsInv'
  BY <1>2, StepRows
<1>3. ASSUME NEW p \in Process, NEW end \in {"rejected", "crashed"},
             Abort(p, end)
      PROVE  RowsInv'
  BY <1>3, AbortRows
<1>4. CASE UNCHANGED vars
  BY <1>4 DEF RowsInv, RowsOf, vars, rowVars, seedVars, noteVars
<1> QED
  BY <1>1, <1>2, <1>3, <1>4 DEF Next

\* A seed run that nothing overlaps leaves its own orders and no others, all
\* of them dated, for any number of batches and of earlier runs that failed
\* or died anywhere (seed.ts:39-74).
THEOREM SeedAlwaysLeavesOwnRows == Spec => []SeedLeavesOwnRows
<1>1. Init => SchemaInv /\ HealInv /\ RowsInv
  BY InitSchema, InitHeal, InitRows
<1>2. SchemaInv /\ HealInv /\ RowsInv /\ [Next]_vars =>
        (SchemaInv /\ HealInv /\ RowsInv)'
  BY NextSchema, NextHeal, NextRows
<1>3. RowsInv => SeedLeavesOwnRows
  <2> SUFFICES ASSUME RowsInv, NEW p \in Seed, pc[p] = "done", alone[p],
                      latest = p
               PROVE  /\ Cardinality(rows) = Batches
                      /\ \A r \in rows : r.run = p /\ r.patched
    BY DEF SeedLeavesOwnRows
  <2>1. rows = OwnRows(p, Batches)
    BY DEF RowsInv, RowsOf
  <2>2. Cardinality(rows) = Batches
    BY <2>1, OwnRowsCardinality, BatchesIsPositive
  <2> QED
    BY <2>1, <2>2 DEF OwnRows
<1> QED
  BY <1>1, <1>2, <1>3, PTL DEF Spec
=============================================================================
