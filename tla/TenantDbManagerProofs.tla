---------------------- MODULE TenantDbManagerProofs ----------------------
(***************************************************************************)
(* What holds of the pool of TenantDbManager for every number of tenants,  *)
(* domains, calls and closeAlls: type correctness, the bookkeeping of the  *)
(* pending promises, that a caller gets its own tenant's DataSource, that  *)
(* the two maps agree, and that an open DataSource is never displaced.     *)
(***************************************************************************)
EXTENDS TenantDbManager, TLAPS

\* DataSource s was connected for the tenant or the sub-domain k.
Built(s, k) == s \in Call /\ life[s] # "none" /\ k \in {home[s], alias[s]}

\* What is known of a call at each point of its body.
StageOf(c) ==
  /\ pc[c] \in {"idle", "lookup", "initialize"} => life[c] = "none"
  /\ pc[c] = "idle" => key[c] = None
  /\ pc[c] # "idle" => key[c] \in Key /\ from[c] \in Call
  /\ pc[c] \in Running => from[c] = c
  /\ pc[c] \in {"initialize", "migrate", "fulfilled"} =>
       /\ home[c] \in Tenant
       /\ alias[c] \in Domain
       /\ key[c] \in {home[c], alias[c]}
  /\ pc[c] \in {"migrate", "fulfilled"} => life[c] # "none"

\* A call waits for a promise made for the key it asked for, and what it
\* returns was built for that key.
AnswerOf(c) ==
  /\ pc[c] = "waiting" =>
       /\ key[from[c]] = key[c]
       /\ from[from[c]] = from[c]
       /\ pc[from[c]] \notin {"idle", "waiting"}
  /\ pc[c] = "returned" => Built(from[c], key[c])

\* What is cached for a key was built for it.
CachedIsBuilt ==
  \A k \in Key : connections[k] # None => Built(connections[k], k)

\* Only closeAll takes an open DataSource down.
OnlyClosersClose ==
  (\A k \in Closer : closing[k] = "idle") =>
    \A s \in Call : life[s] \in {"none", "open"}

\* What a closeAll is destroying was connected.
VictimsWereOpen ==
  \A k \in Closer :
    closing[k] = "destroying" /\ victim[k] \in Call => life[victim[k]] # "none"

\* The inductive invariant behind TypeOK, PendingIsRunning and
\* ServedByOwnTenant.  TypeOK alone is not inductive: that inserted holds
\* tenants depends on a call in "migrate" having a home.
PoolInv ==
  /\ TypeOK
  /\ PendingIsRunning
  /\ \A c \in Call : StageOf(c) /\ AnswerOf(c)
  /\ CachedIsBuilt
  /\ OnlyClosersClose
  /\ VictimsWereOpen

-----------------------------------------------------------------------------
LEMMA InitPool == Init => PoolInv
BY NoneIsNew DEF Init, PoolInv, TypeOK, PendingIsRunning, StageOf, AnswerOf,
                 CachedIsBuilt, OnlyClosersClose, VictimsWereOpen, Running,
                 Body, Settled, Key

\* getConnection up to its first await or its return.
LEMMA GetConnectionPool ==
  ASSUME PoolInv, NEW c \in Call, NEW k \in Requested, GetConnection(c, k)
  PROVE  PoolInv'
<1> USE NoneIsNew DEF PoolInv
<1>1. k \in Key
  BY RequestedAreKeys
<1>2. CASE GetCached(c, k)
  <2>1. Built(connections[k], k)
    BY <1>1, <1>2 DEF GetCached, CachedIsBuilt
  <2>2. TypeOK'
    BY <1>1, <1>2 DEF GetConnection, GetCached, TypeOK, sourceVars, closeVars
  <2>3. PendingIsRunning'
    BY <1>1, <1>2 DEF GetConnection, GetCached, TypeOK, PendingIsRunning,
                      Running, Body, Settled
  <2>4. \A e \in Call : StageOf(e)'
    BY <1>1, <1>2, <2>1 DEF GetConnection, GetCached, TypeOK, StageOf, Built,
                       Running, Body, Settled, sourceVars
  <2>5. \A e \in Call : AnswerOf(e)'
    BY <1>1, <1>2, <2>1 DEF GetConnection, GetCached, TypeOK, StageOf,
                       AnswerOf, Built, Running, Body, Settled, sourceVars
  <2> QED
    BY <1>2, <2>2, <2>3, <2>4, <2>5
       DEF GetConnection, GetCached, CachedIsBuilt, OnlyClosersClose,
           VictimsWereOpen, Built,
           sourceVars, closeVars
<1>3. CASE JoinPending(c, k)
  <2>1. /\ pending[k] \in Call
        /\ pc[pending[k]] \in Running
        /\ key[pending[k]] = k
        /\ from[pending[k]] = pending[k]
        /\ pending[k] # c
    BY <1>1, <1>3 DEF GetConnection, JoinPending, TypeOK, PendingIsRunning,
                      StageOf, Running, Body, Settled
  <2>2. TypeOK'
    BY <1>1, <1>3 DEF GetConnection, JoinPending, TypeOK, sourceVars, closeVars
  <2>3. PendingIsRunning'
    BY <1>1, <1>3 DEF GetConnection, JoinPending, TypeOK, PendingIsRunning,
                      Running, Body, Settled
  <2>4. \A e \in Call : StageOf(e)'
    BY <1>1, <1>3, <2>1 DEF GetConnection, JoinPending, TypeOK, StageOf,
                       Running, Body, Settled, sourceVars
  <2>5. \A e \in Call : AnswerOf(e)'
    BY <1>1, <1>3, <2>1 DEF GetConnection, JoinPending, TypeOK, StageOf,
                       AnswerOf, Built, Running, Body, Settled, sourceVars
  <2> QED
    BY <1>3, <2>2, <2>3, <2>4, <2>5
       DEF GetConnection, JoinPending, CachedIsBuilt, OnlyClosersClose,
           VictimsWereOpen, Built,
           sourceVars, closeVars
<1>4. CASE StartPending(c, k)
  <2>2. TypeOK'
    BY <1>1, <1>4 DEF GetConnection, StartPending, TypeOK, sourceVars,
                      closeVars, Running, Body
  <2>3. PendingIsRunning'
    BY <1>1, <1>4 DEF GetConnection, StartPending, TypeOK, PendingIsRunning,
                      Running, Body, Settled
  <2>4. \A e \in Call : StageOf(e)'
    BY <1>1, <1>4 DEF GetConnection, StartPending, TypeOK, StageOf,
                       Running, Body, Settled, sourceVars
  <2>5. \A e \in Call : AnswerOf(e)'
    BY <1>1, <1>4 DEF GetConnection, StartPending, TypeOK, StageOf,
                       AnswerOf, Built, Running, Body, Settled, sourceVars
  <2> QED
    BY <1>4, <2>2, <2>3, <2>4, <2>5
       DEF GetConnection, StartPending, CachedIsBuilt, OnlyClosersClose,
           VictimsWereOpen, Built,
           sourceVars, closeVars
<1> QED
  BY <1>2, <1>3, <1>4 DEF GetConnection

\* The admin database answers the lookup.
LEMMA LookupPool ==
  ASSUME PoolInv, NEW c \in Call, LookupTenant(c)
  PROVE  PoolInv'
<1> USE NoneIsNew DEF PoolInv
<1>1. ASSUME NEW t \in RowsFor(key[c]),
             home' = [home EXCEPT ![c] = t],
             alias' = [alias EXCEPT ![c] = registry[t]],
             pc' = [pc EXCEPT ![c] = "initialize"]
      PROVE  PoolInv'
  <2>1. t \in Tenant /\ registry[t] \in Domain /\ key[c] \in {t, registry[t]}
    BY <1>1 DEF RowsFor, TypeOK
  <2>2. TypeOK'
    BY <1>1, <2>1 DEF LookupTenant, TypeOK, Running, Body, mapVars, closeVars
  <2>3. PendingIsRunning'
    BY <1>1 DEF LookupTenant, TypeOK, PendingIsRunning, Running, Body,
                Settled, mapVars
  <2>4. \A e \in Call : StageOf(e)'
    BY <1>1, <2>1 DEF LookupTenant, TypeOK, StageOf, Running, Body, Settled
  <2>5. \A e \in Call : AnswerOf(e)'
    BY <1>1, <2>1 DEF LookupTenant, TypeOK, StageOf, AnswerOf, Built,
                      Running, Body, Settled
  <2>6. CachedIsBuilt'
    BY <1>1, <2>1 DEF LookupTenant, TypeOK, StageOf, CachedIsBuilt, Built,
                      mapVars
  <2> QED
    BY <2>2, <2>3, <2>4, <2>5, <2>6 DEF LookupTenant, OnlyClosersClose,
                                        VictimsWereOpen, closeVars
<1>2. ASSUME pc' = [pc EXCEPT ![c] = "rejected"], UNCHANGED <<home, alias>>
      PROVE  PoolInv'
  <2>2. TypeOK'
    BY <1>2 DEF LookupTenant, TypeOK, Running, Settled, mapVars, closeVars
  <2>3. PendingIsRunning'
    BY <1>2 DEF LookupTenant, TypeOK, PendingIsRunning, Running, Body,
                Settled, mapVars
  <2>4. \A e \in Call : StageOf(e)'
    BY <1>2 DEF LookupTenant, TypeOK, StageOf, Running, Body, Settled
  <2>5. \A e \in Call : AnswerOf(e)'
    BY <1>2 DEF LookupTenant, TypeOK, StageOf, AnswerOf, Built, Running,
                Body, Settled
  <2> QED
    BY <1>2, <2>2, <2>3, <2>4, <2>5
       DEF LookupTenant, CachedIsBuilt, OnlyClosersClose, VictimsWereOpen,
           Built, mapVars,
           closeVars
<1> QED
  BY <1>1, <1>2 DEF LookupTenant

\* The tenant's database accepts the connection or refuses it.
LEMMA InitializePool ==
  ASSUME PoolInv, NEW c \in Call, Initialize(c)
  PROVE  PoolInv'
<1> USE NoneIsNew DEF PoolInv
<1>1. TypeOK'
  BY DEF Initialize, TypeOK, Running, Body, Settled, mapVars, closeVars
<1>2. PendingIsRunning'
  BY DEF Initialize, TypeOK, PendingIsRunning, Running, Body, Settled, mapVars
<1>3. \A e \in Call : StageOf(e)'
  BY DEF Initialize, TypeOK, StageOf, Running, Body, Settled
<1>4. \A e \in Call : AnswerOf(e)'
  BY DEF Initialize, TypeOK, StageOf, AnswerOf, Built, Running, Body, Settled
<1>5. CachedIsBuilt'
  BY DEF Initialize, TypeOK, CachedIsBuilt, Built, mapVars
<1>6. OnlyClosersClose' /\ VictimsWereOpen'
  BY DEF Initialize, TypeOK, OnlyClosersClose, VictimsWereOpen, closeVars
<1> QED
  BY <1>1, <1>2, <1>3, <1>4, <1>5, <1>6

\* The migrations run and the DataSource is cached, or they fail.
LEMMA RunMigrationsPool ==
  ASSUME PoolInv, NEW c \in Call, RunMigrations(c)
  PROVE  PoolInv'
<1> USE NoneIsNew DEF PoolInv
<1>1. /\ home[c] \in Tenant
      /\ alias[c] \in Domain
      /\ key[c] \in {home[c], alias[c]}
      /\ life[c] # "none"
  BY DEF RunMigrations, StageOf
<1>2. TypeOK'
  <2>1. connections' \in [Key -> Call \cup {None}]
    BY DEF RunMigrations, TypeOK
  <2>2. inserted' \in Seq(Tenant)
    <3>1. inserted \in Seq(Tenant)
      BY DEF TypeOK
    <3>2. Append(inserted, home[c]) \in Seq(Tenant)
      BY <1>1, <3>1
    <3> QED
      BY <3>1, <3>2 DEF RunMigrations
  <2> QED
    BY <2>1, <2>2 DEF RunMigrations, TypeOK, Running, Body, Settled,
                      sourceVars, closeVars
<1>3. PendingIsRunning'
  BY DEF RunMigrations, TypeOK, PendingIsRunning, Running, Body, Settled
<1>4. \A e \in Call : StageOf(e)'
  BY DEF RunMigrations, TypeOK, StageOf, Running, Body, Settled, sourceVars
<1>5. \A e \in Call : AnswerOf(e)'
  BY DEF RunMigrations, TypeOK, StageOf, AnswerOf, Built, Running, Body,
         Settled, sourceVars
<1>6. CachedIsBuilt'
  <2>1. ASSUME NEW x \in Key
        PROVE  \/ connections'[x] = connections[x]
               \/ connections'[x] = c /\ x \in {home[c], alias[c]}
    BY DEF RunMigrations, TypeOK
  <2> QED
    BY <1>1, <2>1 DEF RunMigrations, CachedIsBuilt, Built, sourceVars
<1>7. OnlyClosersClose' /\ VictimsWereOpen'
  BY DEF RunMigrations, OnlyClosersClose, VictimsWereOpen, sourceVars,
         closeVars
<1> QED
  BY <1>2, <1>3, <1>4, <1>5, <1>6, <1>7

\* The finally block forgets the promise.
LEMMA SettlePool ==
  ASSUME PoolInv, NEW c \in Call, Settle(c)
  PROVE  PoolInv'
<1> USE NoneIsNew DEF PoolInv
<1>1. TypeOK'
  BY DEF Settle, TypeOK, Running, Body, Settled, sourceVars, closeVars
<1>2. PendingIsRunning'
  BY DEF Settle, TypeOK, PendingIsRunning, StageOf, Running, Body, Settled
<1>3. \A e \in Call : StageOf(e)'
  BY DEF Settle, TypeOK, StageOf, Running, Body, Settled, sourceVars
<1>4. \A e \in Call : AnswerOf(e)'
  BY DEF Settle, TypeOK, StageOf, AnswerOf, Built, Running, Body, Settled,
         sourceVars
<1>5. CachedIsBuilt' /\ OnlyClosersClose' /\ VictimsWereOpen'
  BY DEF Settle, CachedIsBuilt, OnlyClosersClose, VictimsWereOpen, Built,
         sourceVars, closeVars
<1> QED
  BY <1>1, <1>2, <1>3, <1>4, <1>5

\* A joined call takes over the outcome of the promise.
LEMMA ResumePool ==
  ASSUME PoolInv, NEW c \in Call, Resume(c)
  PROVE  PoolInv'
<1> USE NoneIsNew DEF PoolInv
<1>1. TypeOK'
  BY DEF Resume, TypeOK, mapVars, sourceVars, closeVars
<1>2. PendingIsRunning'
  BY DEF Resume, TypeOK, PendingIsRunning, Running, Body, Settled, mapVars
<1>3. \A e \in Call : StageOf(e)'
  BY DEF Resume, TypeOK, StageOf, Running, Body, Settled, sourceVars
<1>4. \A e \in Call : AnswerOf(e)'
  <2>1. pc[from[c]] \in {"fulfilled", "returned"} => Built(from[c], key[c])
    BY DEF Resume, TypeOK, StageOf, AnswerOf, Built, Running, Settled
  <2> QED
    BY <2>1 DEF Resume, TypeOK, StageOf, AnswerOf, Built, sourceVars
<1>5. CachedIsBuilt' /\ OnlyClosersClose' /\ VictimsWereOpen'
  BY DEF Resume, CachedIsBuilt, OnlyClosersClose, VictimsWereOpen, Built,
         mapVars, sourceVars,
         closeVars
<1> QED
  BY <1>1, <1>2, <1>3, <1>4, <1>5

\* closeAll: to the next initialized DataSource, or to the end of the loop.
LEMMA IteratePool ==
  ASSUME PoolInv, NEW k \in Closer, closing[k] \in {"idle", "next"}, Iterate(k)
  PROVE  PoolInv'
<1> USE NoneIsNew DEF PoolInv
<1>1. CASE ClearMaps(k)
  <2>1. TypeOK'
    BY <1>1 DEF Iterate, ClearMaps, TypeOK, callVars
  <2>2. PendingIsRunning'
    BY <1>1 DEF Iterate, ClearMaps, PendingIsRunning, callVars
  <2>3. \A e \in Call : StageOf(e)' /\ AnswerOf(e)'
    BY <1>1 DEF Iterate, ClearMaps, StageOf, AnswerOf, Built, callVars
  <2>4. CachedIsBuilt'
    BY <1>1 DEF Iterate, ClearMaps, CachedIsBuilt
  <2>5. OnlyClosersClose' /\ VictimsWereOpen'
    BY <1>1 DEF Iterate, ClearMaps, TypeOK, OnlyClosersClose, VictimsWereOpen
  <2> QED
    BY <2>1, <2>2, <2>3, <2>4, <2>5
<1>2. CASE DestroyNext(k)
  <2>1. PICK i \in Ahead(k) :
          LET s == connections[inserted[i]]
          IN  /\ at' = [at EXCEPT ![k] = i]
              /\ \/ /\ life[s] = "open"
                    /\ life' = [life EXCEPT ![s] = "closing"]
                    /\ victim' = [victim EXCEPT ![k] = s]
                    /\ closing' = [closing EXCEPT ![k] = "destroying"]
                 \/ /\ life[s] = "closing"
                    /\ closing' = [closing EXCEPT ![k] = "threw"]
                    /\ UNCHANGED <<life, victim>>
              /\ UNCHANGED <<connections, inserted>>
    BY <1>2 DEF DestroyNext
  <2>2. i \in Nat /\ inserted[i] \in Tenant
    BY DEF Ahead, TypeOK
  <2>3. connections[inserted[i]] \in Call \cup {None}
    BY <2>2 DEF TypeOK, Key
  <2>4. TypeOK'
    BY <2>1, <2>2, <2>3 DEF Iterate, TypeOK, callVars
  <2>5. \A e \in Call : life[e] # "none" <=> life'[e] # "none"
    BY <2>1 DEF TypeOK
  <2>6. PendingIsRunning'
    BY <2>1 DEF Iterate, PendingIsRunning, callVars
  <2>7. \A e \in Call : StageOf(e)' /\ AnswerOf(e)'
    BY <2>5 DEF Iterate, StageOf, AnswerOf, Built, TypeOK, callVars
  <2>8. CachedIsBuilt'
    BY <2>1, <2>5 DEF Iterate, CachedIsBuilt, Built
  <2>9. OnlyClosersClose' /\ VictimsWereOpen'
    BY <2>1, <2>5 DEF TypeOK, OnlyClosersClose, VictimsWereOpen
  <2> QED
    BY <2>4, <2>6, <2>7, <2>8, <2>9
<1> QED
  BY <1>1, <1>2 DEF Iterate

\* closeAll: the DataSource it awaits is destroyed.
LEMMA DestroyedPool ==
  ASSUME PoolInv, NEW k \in Closer, Destroyed(k)
  PROVE  PoolInv'
<1> USE NoneIsNew DEF PoolInv
<1>1. \A e \in Call : life'[e] \in {life[e], "closed"}
  BY DEF Destroyed, TypeOK
<1>2. TypeOK'
  BY DEF Destroyed, TypeOK, mapVars, callVars
<1>3. PendingIsRunning'
  BY DEF Destroyed, PendingIsRunning, mapVars, callVars
<1>4. \A e \in Call : life[e] # "none" <=> life'[e] # "none"
  BY DEF Destroyed, TypeOK, VictimsWereOpen
<1>5. \A e \in Call : StageOf(e)' /\ AnswerOf(e)'
  BY <1>4 DEF Destroyed, StageOf, AnswerOf, Built, TypeOK, callVars
<1>6. CachedIsBuilt'
  BY <1>4 DEF Destroyed, CachedIsBuilt, Built, mapVars
<1>7. OnlyClosersClose' /\ VictimsWereOpen'
  BY <1>4 DEF Destroyed, OnlyClosersClose, VictimsWereOpen, TypeOK
<1> QED
  BY <1>2, <1>3, <1>5, <1>6, <1>7

\* A row is inserted or renamed.
LEMMA RegistryPool ==
  ASSUME PoolInv, NEW t \in Tenant, NEW d \in Domain,
         InsertTenant(t, d) \/ RenameTenant(t, d)
  PROVE  PoolInv'
<1>1. TypeOK'
  BY DEF InsertTenant, RenameTenant, PoolInv, TypeOK, mapVars, callVars,
         sourceVars, closeVars
<1>2. UNCHANGED <<mapVars, callVars, sourceVars, closeVars>>
  BY DEF InsertTenant, RenameTenant
<1> QED
  BY <1>1, <1>2 DEF PoolInv, PendingIsRunning, StageOf, AnswerOf, Built,
                    CachedIsBuilt, OnlyClosersClose, VictimsWereOpen, mapVars,
                    callVars, sourceVars, closeVars

LEMMA PoolInductive == PoolInv /\ [Next]_vars => PoolInv'
<1> SUFFICES ASSUME PoolInv, [Next]_vars
             PROVE  PoolInv'
  OBVIOUS
<1>1. ASSUME NEW t \in Tenant, NEW d \in Domain,
             InsertTenant(t, d) \/ RenameTenant(t, d)
      PROVE  PoolInv'
  BY <1>1, RegistryPool
<1>2. ASSUME NEW c \in Call, NEW k \in Requested, GetConnection(c, k)
      PROVE  PoolInv'
  BY <1>2, GetConnectionPool
<1>3. ASSUME NEW c \in Call, Advance(c)
      PROVE  PoolInv'
  BY <1>3, LookupPool, InitializePool, RunMigrationsPool, SettlePool,
     ResumePool DEF Advance
<1>4. ASSUME NEW k \in Closer, CloseAll(k) \/ CloseNext(k) \/ Destroyed(k)
      PROVE  PoolInv'
  BY <1>4, IteratePool, DestroyedPool DEF CloseAll, CloseNext
<1>5. CASE UNCHANGED vars
  BY <1>5 DEF vars, PoolInv, TypeOK, PendingIsRunning, StageOf, AnswerOf,
              Built, CachedIsBuilt, OnlyClosersClose, VictimsWereOpen,
              mapVars, callVars, sourceVars, closeVars
<1> QED
  BY <1>1, <1>2, <1>3, <1>4, <1>5 DEF Next

LEMMA PoolAlways == Spec => []PoolInv
BY InitPool, PoolInductive, PTL DEF Spec

-----------------------------------------------------------------------------
(* Theorems                                                                 *)

\* Every variable of the pool keeps its type, for any number of tenants,
\* domains, calls and closeAlls and whatever is renamed meanwhile.
THEOREM TypeCorrect == Spec => []TypeOK
<1>1. PoolInv => TypeOK
  BY DEF PoolInv
<1> QED
  BY <1>1, PoolAlways, PTL

\* A promise is pending for a key exactly while the call that made it for
\* that key runs it: one creation per key at a time, and none left behind.
THEOREM OnePromisePerKey == Spec => []PendingIsRunning
<1>1. PoolInv => PendingIsRunning
  BY DEF PoolInv
<1> QED
  BY <1>1, PoolAlways, PTL

\* Whoever asks, by id or by sub-domain, gets a DataSource built for what was
\* asked for, and an open one as long as no closeAll has begun.
THEOREM OwnTenantOnly == Spec => []ServedByOwnTenant
<1>1. PoolInv => ServedByOwnTenant
  BY DEF PoolInv, AnswerOf, Built, OnlyClosersClose, ServedByOwnTenant
<1> QED
  BY <1>1, PoolAlways, PTL

-----------------------------------------------------------------------------
(* The maps agree.  Meant for rows that keep their sub-domain: then a       *)
(* tenant and its domain determine each other, and overwriting one entry    *)
(* means overwriting the other.                                             *)

\* A DataSource was built from the row its tenant still has.
RowsKept ==
  /\ UniqueDomains(registry)
  /\ \A c \in Call : home[c] # None =>
       /\ home[c] \in Tenant
       /\ alias[c] \in Domain
       /\ registry[home[c]] = alias[c]
  /\ \A c \in Call : life[c] # "none" => home[c] # None

AgreeInv == PoolInv /\ RowsKept /\ MapsAgree

LEMMA AgreeInductive ==
  ASSUME ~Renames, AgreeInv, [Next]_vars
  PROVE  AgreeInv'
<1> USE NoneIsNew, KeysDisjoint
<1> PoolInv /\ PoolInv' /\ TypeOK /\ RowsKept /\ MapsAgree
  BY PoolInductive DEF AgreeInv, PoolInv
<1>1. ASSUME NEW t \in Tenant, NEW d \in Domain,
             InsertTenant(t, d) \/ RenameTenant(t, d)
      PROVE  RowsKept' /\ MapsAgree'
  <2>1. InsertTenant(t, d)
    BY <1>1 DEF RenameTenant
  <2>2. \A u \in Tenant : registry[u] # None => registry'[u] = registry[u]
    BY <2>1 DEF InsertTenant, TypeOK
  <2>3. \A c \in Call : home[c] # None => registry[home[c]] # None
    BY DEF RowsKept, Key
  <2> QED
    BY <2>1, <2>2, <2>3 DEF InsertTenant, RowsKept, MapsAgree, mapVars,
                            sourceVars
<1>2. ASSUME NEW c \in Call, NEW k \in Requested, GetConnection(c, k)
      PROVE  RowsKept' /\ MapsAgree'
  BY <1>2 DEF GetConnection, RowsKept, MapsAgree, sourceVars
<1>3. ASSUME NEW c \in Call, LookupTenant(c)
      PROVE  RowsKept' /\ MapsAgree'
  <2>1. life[c] = "none"
    BY <1>3 DEF LookupTenant, PoolInv, StageOf
  <2>2. RowsKept'
    BY <1>3, <2>1 DEF LookupTenant, RowsFor, RowsKept, UniqueDomains, TypeOK
  <2>3. \A k \in Key : connections[k] # None =>
          connections[k] \in Call /\ connections[k] # c
    BY <2>1 DEF PoolInv, CachedIsBuilt, Built
  <2>4. MapsAgree'
    BY <1>3, <2>3 DEF LookupTenant, MapsAgree, TypeOK, mapVars
  <2> QED
    BY <2>2, <2>4
<1>4. ASSUME NEW c \in Call, Initialize(c)
      PROVE  RowsKept' /\ MapsAgree'
  <2>1. home[c] \in Tenant
    BY <1>4 DEF Initialize, PoolInv, StageOf
  <2> QED
    BY <1>4, <2>1 DEF Initialize, RowsKept, MapsAgree, TypeOK, mapVars, Key
<1>5. ASSUME NEW c \in Call, RunMigrations(c)
      PROVE  RowsKept' /\ MapsAgree'
  <2>1. home[c] \in Tenant /\ alias[c] \in Domain
    BY <1>5 DEF RunMigrations, PoolInv, StageOf
  <2>2. RowsKept'
    BY <1>5 DEF RunMigrations, RowsKept, sourceVars
  <2>3. ASSUME connections' =
                 [connections EXCEPT ![home[c]] = c, ![alias[c]] = c]
        PROVE  MapsAgree'
    <3> SUFFICES ASSUME NEW k \in Key, connections'[k] # None
                 PROVE  LET s == connections'[k]
                        IN  connections'[home[s]] = s /\ connections'[alias[s]] = s
      <4>1. UNCHANGED <<home, alias>>
        BY <1>5 DEF RunMigrations, sourceVars
      <4> QED
        BY <4>1, Zenon DEF MapsAgree
    <3>1. \A x \in Key : connections'[x] =
            IF x \in {home[c], alias[c]} THEN c ELSE connections[x]
      BY <2>3, <2>1 DEF TypeOK, Key
    <3>2. CASE connections'[k] = c
      BY <3>1, <3>2, <2>1 DEF Key
    <3>3. CASE connections'[k] # c
      <4> DEFINE s == connections[k]
      <4>1. connections'[k] = s /\ k \notin {home[c], alias[c]} /\ s # None
        BY <3>1, <3>3
      <4>2. s \in Call /\ life[s] # "none" /\ k \in {home[s], alias[s]}
        BY <4>1 DEF PoolInv, CachedIsBuilt, Built
      <4>3. home[s] \in Tenant /\ alias[s] \in Domain
        BY <4>2 DEF RowsKept
      <4>4. home[s] # home[c] /\ alias[s] # alias[c]
        <5>1. registry[home[s]] = alias[s] /\ registry[home[c]] = alias[c]
          BY <4>2, <4>3, <2>1 DEF RowsKept, Key
        <5>2. home[s] = home[c] => alias[s] = alias[c]
          BY <5>1
        <5>3. alias[s] = alias[c] => home[s] = home[c]
          BY <5>1, <4>3, <2>1 DEF RowsKept, UniqueDomains, Key
        <5> QED
          BY <5>2, <5>3, <4>1, <4>2
      <4>5. connections[home[s]] = s /\ connections[alias[s]] = s
        BY <4>1 DEF MapsAgree
      <4> QED
        BY <3>1, <4>1, <4>3, <4>4, <4>5, <2>1 DEF Key
    <3> QED
      BY <3>2, <3>3
  <2>4. ASSUME UNCHANGED connections
        PROVE  MapsAgree'
    BY <1>5, <2>4 DEF RunMigrations, MapsAgree, sourceVars
  <2>5. \/ connections' = [connections EXCEPT ![home[c]] = c, ![alias[c]] = c]
        \/ UNCHANGED connections
    BY <1>5 DEF RunMigrations
  <2> QED
    BY <2>2, <2>3, <2>4, <2>5
<1>6. ASSUME NEW c \in Call, Settle(c) \/ Resume(c)
      PROVE  RowsKept' /\ MapsAgree'
  BY <1>6 DEF Settle, Resume, RowsKept, MapsAgree, mapVars, sourceVars
<1>7. ASSUME NEW j \in Closer, CloseAll(j) \/ CloseNext(j)
      PROVE  RowsKept' /\ MapsAgree'
  <2>1. Iterate(j)
    BY <1>7 DEF CloseAll, CloseNext
  <2>2. CASE ClearMaps(j)
    BY <2>1, <2>2 DEF Iterate, ClearMaps, RowsKept, MapsAgree
  <2>3. CASE DestroyNext(j)
    <3>1. /\ UNCHANGED connections
          /\ \A e \in Call : life'[e] # "none" => life[e] # "none"
      BY <2>3 DEF DestroyNext, TypeOK
    <3> QED
      BY <2>1, <3>1 DEF Iterate, RowsKept, MapsAgree
  <2> QED
    BY <2>1, <2>2, <2>3 DEF Iterate
<1>8. ASSUME NEW j \in Closer, Destroyed(j)
      PROVE  RowsKept' /\ MapsAgree'
  <2>1. \A e \in Call : life'[e] # "none" => life[e] # "none"
    BY <1>8 DEF Destroyed, TypeOK, PoolInv, VictimsWereOpen
  <2> QED
    BY <1>8, <2>1 DEF Destroyed, RowsKept, MapsAgree, mapVars
<1>9. ASSUME UNCHANGED vars
      PROVE  RowsKept' /\ MapsAgree'
  BY <1>9 DEF vars, RowsKept, UniqueDomains, MapsAgree, mapVars, sourceVars
<1> QED
  <2>1. ASSUME NEW c \in Call, Advance(c)
        PROVE  RowsKept' /\ MapsAgree'
    BY <2>1, <1>3, <1>4, <1>5, <1>6 DEF Advance
  <2>2. Next => RowsKept' /\ MapsAgree'
    BY <2>1, <1>1, <1>2, <1>7, <1>8, Zenon DEF Next
  <2> QED
    BY <2>2, <1>9 DEF AgreeInv

\* As long as no row changes its sub-domain, a DataSource cached for a tenant
\* is the one cached for its sub-domain and the other way round, however
\* calls by id and by domain race.
THEOREM MapsAlwaysAgree ==
  ASSUME ~Renames
  PROVE  Spec => []MapsAgree
<1>1. Init => AgreeInv
  BY InitPool, NoneIsNew DEF Init, AgreeInv, RowsKept, MapsAgree
<1>2. AgreeInv /\ [Next]_vars => AgreeInv'
  BY AgreeInductive
<1>3. AgreeInv => MapsAgree
  BY DEF AgreeInv
<1> QED
  BY <1>1, <1>2, <1>3, PTL DEF Spec

-----------------------------------------------------------------------------
(* Calls by id only.  An open DataSource that was handed out stays cached:  *)
(* no other creation of its tenant can finish, and a closeAll that reaches  *)
(* the end of its loop has an initialized DataSource nowhere behind it.     *)

\* The call ran its promise to the end with a DataSource, its own.
Created(c) == pc[c] \in {"fulfilled", "returned"} /\ from[c] = c

\* Nothing is cached for a tenant while a creation for it is under way, and
\* what an earlier creation made is cached as long as it is open.
CreatedIsCached ==
  /\ \A c \in Call : pc[c] # "idle" => key[c] \in Tenant
  /\ \A c \in Call : pc[c] \in Body => connections[key[c]] = None
  /\ \A c \in Call : Created(c) => life[c] # "none" /\ home[c] \in Tenant
  /\ \A c \in Call :
       Created(c) /\ life[c] = "open" => connections[home[c]] = c
  /\ \A c \in Call : pc[c] = "returned" => Created(from[c])
  /\ \A k \in Key : connections[k] # None => Created(connections[k])

\* Map order: inserted lists the tenants that have an entry, and whatever an
\* iteration has passed is not open.
PassedIsDestroyed ==
  /\ \A t \in Tenant : connections[t] # None =>
       \E i \in 1 .. Len(inserted) : inserted[i] = t
  /\ \A i \in 1 .. Len(inserted) : connections[inserted[i]] # None
  /\ \A j \in Closer : closing[j] = "idle" => at[j] = 0
  /\ \A j \in Closer : at[j] <= Len(inserted)
  /\ \A j \in Closer : closing[j] \in {"destroying", "next"} =>
       \A i \in 1 .. at[j] : life[connections[inserted[i]]] # "open"

KeepInv == PoolInv /\ CreatedIsCached /\ PassedIsDestroyed

\* A creation by id is for the tenant it will be cached for.
LEMMA HomeIsKey ==
  ASSUME KeepInv, NEW c \in Call,
         pc[c] \in {"initialize", "migrate", "fulfilled"}
  PROVE  home[c] = key[c] /\ home[c] \in Tenant /\ alias[c] \in Domain \ Tenant
BY KeysDisjoint DEF KeepInv, PoolInv, StageOf, CreatedIsCached

LEMMA KeepGetConnection ==
  ASSUME KeepInv, Requested \subseteq Tenant,
         NEW c \in Call, NEW k \in Requested, GetConnection(c, k)
  PROVE  CreatedIsCached' /\ PassedIsDestroyed'
<1> USE NoneIsNew DEF KeepInv, PoolInv
<1>1. k \in Tenant /\ k \in Key
  BY DEF Key
<1>2. PassedIsDestroyed'
  BY DEF GetConnection, PassedIsDestroyed, sourceVars, closeVars
<1>3. CASE GetCached(c, k)
  <2>1. Created(connections[k]) /\ connections[k] \in Call \ {c}
    BY <1>1, <1>3 DEF GetConnection, GetCached, CreatedIsCached, Created,
                      CachedIsBuilt, Built
  <2>2. \A e \in Call : Created(e)' <=> Created(e)
    BY <1>3, <2>1 DEF GetConnection, GetCached, Created, TypeOK
  <2>3. \A e \in Call : e # c => from'[e] = from[e] /\ pc'[e] = pc[e]
    BY <1>3 DEF GetConnection, GetCached, TypeOK
  <2>4. pc'[c] = "returned" /\ from'[c] = connections[k]
    BY <1>3 DEF GetConnection, GetCached, TypeOK
  <2>5. \A e \in Call : pc[e] = "returned" => from[e] \in Call
    BY DEF StageOf
  <2> QED
    BY <1>1, <1>2, <1>3, <2>1, <2>2, <2>3, <2>4, <2>5
       DEF GetConnection, GetCached, CreatedIsCached, CachedIsBuilt, Built,
           TypeOK, Body, sourceVars
<1>4. CASE JoinPending(c, k) \/ StartPending(c, k)
  <2>1. \A e \in Call : Created(e)' <=> Created(e)
    BY <1>4 DEF GetConnection, JoinPending, StartPending, Created, TypeOK
  <2>2. \A e \in Call : e # c => from'[e] = from[e] /\ pc'[e] = pc[e]
    BY <1>4 DEF GetConnection, JoinPending, StartPending, TypeOK
  <2>3. pc'[c] \in {"waiting", "lookup"} /\ connections[k] = None
    BY <1>4 DEF GetConnection, JoinPending, StartPending, TypeOK
  <2>4. \A e \in Call : pc[e] = "returned" => from[e] \in Call
    BY DEF StageOf
  <2> QED
    BY <1>1, <1>2, <2>1, <2>2, <2>3, <2>4
       DEF GetConnection, CreatedIsCached, CachedIsBuilt, Built, TypeOK, Body,
           sourceVars
<1> QED
  BY <1>3, <1>4 DEF GetConnection

LEMMA KeepAdvance ==
  ASSUME KeepInv, NEW c \in Call, Advance(c)
  PROVE  CreatedIsCached' /\ PassedIsDestroyed'
<1> USE NoneIsNew DEF KeepInv, PoolInv
<1>1. \A k \in Key : connections[k] # None =>
        connections[k] \in Call /\ Created(connections[k])
  BY DEF CreatedIsCached, CachedIsBuilt, Built
<1>2. \A i \in 1 .. Len(inserted) : inserted[i] \in Tenant \cap Key
  BY DEF TypeOK, Key
<1>3. \A e \in Call : pc[e] = "returned" => from[e] \in Call
  BY DEF StageOf
<1>4. CASE LookupTenant(c)
  <2>1. \A e \in Call : Created(e)' <=> Created(e)
    BY <1>4 DEF LookupTenant, Created, TypeOK
  <2>2. \A e \in Call : Created(e) => e # c
    BY <1>4 DEF LookupTenant, Created
  <2>3. \A e \in Call : e # c => home'[e] = home[e] /\ pc'[e] = pc[e]
    BY <1>4 DEF LookupTenant, TypeOK
  <2>4. pc[c] = "lookup" /\ pc'[c] \in {"initialize", "rejected"}
    BY <1>4 DEF LookupTenant, TypeOK
  <2>5. CreatedIsCached'
    BY <1>1, <1>3, <1>4, <2>1, <2>2, <2>3, <2>4
       DEF LookupTenant, CreatedIsCached, Body, mapVars
  <2> QED
    BY <1>4, <2>5 DEF LookupTenant, PassedIsDestroyed, mapVars, closeVars
<1>5. CASE Initialize(c)
  <2>1. \A e \in Call : Created(e)' <=> Created(e)
    BY <1>5 DEF Initialize, Created, TypeOK
  <2>2. \A e \in Call : Created(e) => e # c
    BY <1>5 DEF Initialize, Created
  <2>3. \A e \in Call : e # c => life'[e] = life[e] /\ pc'[e] = pc[e]
    BY <1>5 DEF Initialize, TypeOK
  <2>4. pc[c] = "initialize" /\ pc'[c] \in {"migrate", "rejected"}
    BY <1>5 DEF Initialize, TypeOK
  <2>5. CreatedIsCached'
    BY <1>1, <1>3, <1>5, <2>1, <2>2, <2>3, <2>4
       DEF Initialize, CreatedIsCached, Body, mapVars
  <2>6. \A i \in 1 .. Len(inserted) :
          life'[connections[inserted[i]]] = life[connections[inserted[i]]]
    BY <1>1, <1>2, <2>2, <2>3 DEF PassedIsDestroyed
  <2>7. \A j \in Closer : \A i \in 1 .. at[j] : i \in 1 .. Len(inserted)
    BY DEF PassedIsDestroyed, TypeOK
  <2> QED
    BY <1>5, <2>5, <2>6, <2>7 DEF Initialize, PassedIsDestroyed, mapVars,
                                  closeVars
<1>6. CASE RunMigrations(c)
  <2>1. /\ home[c] = key[c] /\ home[c] \in Tenant
        /\ alias[c] \in Domain \ Tenant
        /\ pc[c] = "migrate" /\ from[c] = c /\ life[c] # "none"
    BY <1>6, HomeIsKey DEF RunMigrations, StageOf, Running, Body
  <2>2. connections[home[c]] = None
    BY <1>6, <2>1 DEF CreatedIsCached, Body
  <2>3. \A e \in Call : e # c => pc'[e] = pc[e]
    BY <1>6 DEF RunMigrations, TypeOK
  <2>4. ASSUME pc' = [pc EXCEPT ![c] = "rejected"],
               UNCHANGED <<connections, inserted>>
        PROVE  CreatedIsCached' /\ PassedIsDestroyed'
    <3>1. \A e \in Call : Created(e)' <=> Created(e)
      BY <1>6, <2>1, <2>4 DEF RunMigrations, Created, TypeOK
    <3>2. CreatedIsCached'
      BY <1>1, <1>3, <1>6, <2>1, <2>3, <2>4, <3>1
         DEF RunMigrations, CreatedIsCached, Body, TypeOK, sourceVars
    <3> QED
      BY <1>6, <2>4, <3>2 DEF RunMigrations, PassedIsDestroyed, sourceVars,
                              closeVars
  <2>5. ASSUME pc' = [pc EXCEPT ![c] = "fulfilled"],
               connections' =
                 [connections EXCEPT ![home[c]] = c, ![alias[c]] = c],
               inserted' = Append(inserted, home[c])
        PROVE  CreatedIsCached' /\ PassedIsDestroyed'
    <3>1. \A x \in Key : connections'[x] =
            IF x \in {home[c], alias[c]} THEN c ELSE connections[x]
      BY <2>1, <2>5 DEF TypeOK, Key
    <3>2. \A e \in Call : Created(e)' <=> Created(e) \/ e = c
      BY <1>6, <2>1, <2>5 DEF RunMigrations, Created, TypeOK
    <3>3. UNCHANGED <<key, from, life, home, at, closing>>
      BY <1>6 DEF RunMigrations, sourceVars, closeVars
    <3>4. \A x \in Tenant :
            connections'[x] = IF x = home[c] THEN c ELSE connections[x]
      BY <3>1, <2>1 DEF Key
    <3>5. \A e \in Call : e # c /\ pc[e] \in Body => key[e] # key[c]
      BY <2>1 DEF PendingIsRunning, Running, Body, StageOf
    <3>6. CreatedIsCached'
      <4>1. \A e \in Call : pc'[e] # "idle" => key'[e] \in Tenant
        BY <2>1, <2>3, <3>3 DEF CreatedIsCached
      <4>2. \A e \in Call : pc'[e] \in Body => connections'[key'[e]] = None
        <5> SUFFICES ASSUME NEW e \in Call, pc'[e] \in Body
                     PROVE  connections'[key[e]] = None
          BY <3>3
        <5>1. pc'[c] = "fulfilled"
          BY <2>5 DEF TypeOK
        <5>2. e # c /\ pc[e] \in Body
          BY <5>1, <2>3 DEF Body
        <5>3. key[e] \in Tenant /\ connections[key[e]] = None
          BY <5>2 DEF CreatedIsCached, Body
        <5> QED
          BY <2>1, <3>4, <3>5, <5>2, <5>3
      <4>3. \A e \in Call :
              Created(e)' => life'[e] # "none" /\ home'[e] \in Tenant
        BY <2>1, <3>2, <3>3 DEF CreatedIsCached
      <4>4. \A e \in Call :
              Created(e)' /\ life'[e] = "open" => connections'[home'[e]] = e
        BY <2>2, <2>1, <3>2, <3>3, <3>4 DEF CreatedIsCached
      <4>5. (\A e \in Call : pc[e] = "returned" => Created(from[e]))'
        <5>1. pc'[c] = "fulfilled"
          BY <2>5 DEF TypeOK
        <5> QED
          BY <1>3, <2>3, <3>2, <3>3, <5>1 DEF CreatedIsCached
      <4>6. (\A x \in Key : connections[x] # None => Created(connections[x]))'
        BY <1>1, <3>1, <3>2
      <4> QED
        BY <4>1, <4>2, <4>3, <4>4, <4>5, <4>6 DEF CreatedIsCached
    <3>7. PassedIsDestroyed'
      <4>1. inserted \in Seq(Tenant) /\ \A j \in Closer : at[j] \in Nat
        BY DEF TypeOK
      <4>2. /\ Len(inserted') = Len(inserted) + 1
            /\ \A i \in 1 .. Len(inserted) : inserted'[i] = inserted[i]
            /\ inserted'[Len(inserted) + 1] = home[c]
        BY <4>1, <2>1, <2>5
      <4>3. \A i \in 1 .. Len(inserted) :
              connections'[inserted'[i]] = connections[inserted[i]]
        BY <1>2, <2>2, <3>4, <4>2 DEF PassedIsDestroyed
      <4>4. \A t \in Tenant : connections'[t] # None =>
              \E i \in 1 .. Len(inserted') : inserted'[i] = t
        <5> TAKE t \in Tenant
        <5>1. CASE t = home[c]
          BY <4>1, <4>2, <5>1
        <5>2. CASE t # home[c]
          BY <3>4, <4>1, <4>2, <5>2 DEF PassedIsDestroyed
        <5> QED
          BY <5>1, <5>2
      <4>5. \A i \in 1 .. Len(inserted') : connections'[inserted'[i]] # None
        BY <2>1, <3>4, <4>1, <4>2, <4>3 DEF PassedIsDestroyed
      <4>6. \A j \in Closer : closing[j] \in {"destroying", "next"} =>
              \A i \in 1 .. at[j] : life[connections'[inserted'[i]]] # "open"
        BY <4>1, <4>3 DEF PassedIsDestroyed
      <4> QED
        BY <3>3, <4>1, <4>2, <4>4, <4>5, <4>6 DEF PassedIsDestroyed
    <3> QED
      BY <3>6, <3>7
  <2> QED
    BY <1>6, <2>2, <2>4, <2>5 DEF RunMigrations
<1>7. CASE Settle(c)
  <2>1. pc[c] \in Running => from[c] = c
    BY DEF StageOf
  <2>2. \A e \in Call : Created(e)' <=> Created(e)
    BY <1>7, <2>1 DEF Settle, Created, TypeOK, Running, Settled
  <2>3. \A e \in Call : e # c => pc'[e] = pc[e]
    BY <1>7 DEF Settle, TypeOK
  <2>4. /\ pc[c] \in Settled
        /\ pc'[c] = IF pc[c] = "fulfilled" THEN "returned" ELSE "threw"
    BY <1>7 DEF Settle, TypeOK
  <2>5. CreatedIsCached'
    BY <1>1, <1>3, <1>7, <2>1, <2>2, <2>3, <2>4
       DEF Settle, CreatedIsCached, Created, Running, Body, Settled, sourceVars
  <2> QED
    BY <1>7, <2>5 DEF Settle, PassedIsDestroyed, sourceVars, closeVars
<1>8. CASE Resume(c)
  <2>1. /\ pc[c] = "waiting" /\ from[c] \in Call /\ from[c] # c
        /\ from[from[c]] = from[c]
    BY <1>8 DEF Resume, StageOf, AnswerOf
  <2>2. \A e \in Call : Created(e)' <=> Created(e)
    BY <1>8, <2>1 DEF Resume, Created, TypeOK
  <2>3. \A e \in Call : e # c => pc'[e] = pc[e]
    BY <1>8 DEF Resume, TypeOK
  <2>4. \/ pc'[c] = "returned" /\ Created(from[c])
        \/ pc'[c] = "threw"
    BY <1>8, <2>1 DEF Resume, Created, TypeOK
  <2>5. CreatedIsCached'
    BY <1>1, <1>3, <1>8, <2>1, <2>2, <2>3, <2>4
       DEF Resume, CreatedIsCached, Body, mapVars, sourceVars
  <2> QED
    BY <1>8, <2>5 DEF Resume, PassedIsDestroyed, mapVars, sourceVars, closeVars
<1> QED
  BY <1>4, <1>5, <1>6, <1>7, <1>8 DEF Advance

\* closeAll reaches the end of its loop only when nothing cached is open.
LEMMA KeepIterate ==
  ASSUME KeepInv, NEW k \in Closer, closing[k] \in {"idle", "next"}, Iterate(k)
  PROVE  CreatedIsCached' /\ PassedIsDestroyed'
<1> USE NoneIsNew DEF KeepInv, PoolInv
<1>1. \A x \in Key : connections[x] # None =>
        connections[x] \in Call /\ Created(connections[x])
  BY DEF CreatedIsCached, CachedIsBuilt, Built
<1>2. /\ inserted \in Seq(Tenant)
      /\ \A i \in 1 .. Len(inserted) : inserted[i] \in Tenant \cap Key
      /\ at \in [Closer -> Nat]
  BY DEF TypeOK, Key
<1>3. \A e \in Call : pc[e] = "returned" => from[e] \in Call
  BY DEF StageOf
<1>4. \A i \in 1 .. at[k] : life[connections[inserted[i]]] # "open"
  BY DEF PassedIsDestroyed
<1>5. \A e \in Call : Created(e)' <=> Created(e)
  BY DEF Iterate, Created, callVars
<1>6. CASE ClearMaps(k)
  <2>1. \A e \in Call : Created(e) => life[e] # "open"
    <3> SUFFICES ASSUME NEW e \in Call, Created(e), life[e] = "open"
                 PROVE  FALSE
      OBVIOUS
    <3>1. home[e] \in Tenant /\ connections[home[e]] = e
      BY DEF CreatedIsCached
    <3>2. PICK i \in 1 .. Len(inserted) : inserted[i] = home[e]
      BY <3>1 DEF PassedIsDestroyed, Key
    <3>3. i \notin 1 .. at[k]
      BY <1>4, <3>1, <3>2
    <3>4. i \in Ahead(k)
      BY <1>2, <3>1, <3>2, <3>3 DEF Ahead, IsInitialized
    <3> QED
      BY <1>6, <3>4 DEF ClearMaps
  <2>2. /\ \A x \in Key : connections'[x] = None
        /\ inserted' = << >> /\ at' = [j \in Closer |-> 0]
        /\ UNCHANGED <<pc, key, from, home, life>>
    BY <1>6 DEF Iterate, ClearMaps, callVars
  <2>3. CreatedIsCached'
    BY <1>3, <1>5, <2>1, <2>2 DEF CreatedIsCached, Key, Body
  <2>4. PassedIsDestroyed'
    BY <2>2 DEF PassedIsDestroyed, Key
  <2> QED
    BY <2>3, <2>4
<1>7. CASE DestroyNext(k)
  <2>1. PICK i \in Ahead(k) :
          LET s == connections[inserted[i]]
          IN  /\ \A j \in Ahead(k) : i <= j
              /\ at' = [at EXCEPT ![k] = i]
              /\ \/ /\ life[s] = "open"
                    /\ life' = [life EXCEPT ![s] = "closing"]
                    /\ victim' = [victim EXCEPT ![k] = s]
                    /\ closing' = [closing EXCEPT ![k] = "destroying"]
                 \/ /\ life[s] = "closing"
                    /\ closing' = [closing EXCEPT ![k] = "threw"]
                    /\ UNCHANGED <<life, victim>>
              /\ UNCHANGED <<connections, inserted>>
    BY <1>7 DEF DestroyNext
  <2>2. i \in 1 .. Len(inserted) /\ i \in Nat /\ at[k] < i
    BY <1>2 DEF Ahead
  <2>3. connections[inserted[i]] \in Call
    BY <1>1, <1>2, <2>2 DEF PassedIsDestroyed
  <2>4. \A e \in Call : life'[e] = "open" => life[e] = "open"
    BY <2>1 DEF TypeOK
  <2>5. \A e \in Call : life'[e] = "none" => life[e] = "none"
    BY <2>1 DEF TypeOK
  <2>6. UNCHANGED <<pc, key, from, home, connections, inserted>>
    BY <2>1 DEF Iterate, callVars
  <2>7. CreatedIsCached'
    BY <1>1, <1>3, <1>5, <2>4, <2>5, <2>6 DEF CreatedIsCached, TypeOK
  <2>8. \A j \in 1 .. i : life'[connections[inserted[j]]] # "open"
    <3> SUFFICES ASSUME NEW j \in 1 .. i
                 PROVE  life'[connections[inserted[j]]] # "open"
      OBVIOUS
    <3>1. j \in 1 .. Len(inserted) /\ connections[inserted[j]] \in Call
      BY <1>1, <1>2, <2>2 DEF PassedIsDestroyed
    <3>2. CASE j = i
      BY <2>1, <2>3, <3>2 DEF TypeOK
    <3>3. CASE j \in 1 .. at[k]
      BY <1>4, <2>4, <3>1, <3>3
    <3>4. CASE j \in (at[k] + 1) .. (i - 1)
      <4>1. j \notin Ahead(k)
        BY <1>2, <2>1, <2>2, <3>4
      <4>2. life[connections[inserted[j]]] # "open"
        BY <1>2, <3>1, <3>4, <4>1 DEF Ahead, IsInitialized
      <4> QED
        BY <2>4, <3>1, <4>2
    <3> QED
      BY <1>2, <2>2, <3>2, <3>3, <3>4
  <2>9. ASSUME NEW j \in Closer, j # k, closing'[j] \in {"destroying", "next"},
               NEW n \in 1 .. at'[j]
        PROVE  life'[connections[inserted[n]]] # "open"
    <3>1. at'[j] = at[j] /\ closing'[j] = closing[j]
      BY <1>2, <2>1, <2>9 DEF TypeOK
    <3>2. n \in 1 .. Len(inserted) /\ life[connections[inserted[n]]] # "open"
      BY <1>2, <2>9, <3>1 DEF PassedIsDestroyed
    <3> QED
      BY <1>1, <1>2, <2>4, <3>2 DEF PassedIsDestroyed
  <2>10. at'[k] = i /\ closing'[k] \in {"destroying", "threw"}
    BY <1>2, <2>1 DEF TypeOK
  <2>11. \A j \in Closer : j # k => at'[j] = at[j] /\ closing'[j] = closing[j]
    BY <1>2, <2>1 DEF TypeOK
  <2>12. PassedIsDestroyed'
    BY <2>2, <2>6, <2>8, <2>9, <2>10, <2>11 DEF PassedIsDestroyed
  <2> QED
    BY <2>7, <2>12
<1> QED
  BY <1>6, <1>7 DEF Iterate

LEMMA KeepDestroyed ==
  ASSUME KeepInv, NEW k \in Closer, Destroyed(k)
  PROVE  CreatedIsCached' /\ PassedIsDestroyed'
<1> USE NoneIsNew DEF KeepInv, PoolInv
<1>1. /\ \A e \in Call : life'[e] = "open" => life[e] = "open"
      /\ \A e \in Call : life'[e] = "none" => life[e] = "none"
  BY DEF Destroyed, TypeOK
<1>2. UNCHANGED <<pc, key, from, home, connections, inserted, at>>
  BY DEF Destroyed, callVars, mapVars
<1>3. \A e \in Call : Created(e)' <=> Created(e)
  BY <1>2 DEF Created
<1>4. \A e \in Call : pc[e] = "returned" => from[e] \in Call
  BY DEF StageOf
<1>5. \A x \in Key : connections[x] # None => connections[x] \in Call
  BY DEF CachedIsBuilt, Built
<1>6. CreatedIsCached'
  BY <1>1, <1>2, <1>3, <1>4, <1>5 DEF CreatedIsCached
<1>7. ASSUME NEW j \in Closer, closing'[j] \in {"destroying", "next"},
             NEW i \in 1 .. at[j]
      PROVE  life'[connections[inserted[i]]] # "open"
  <2>1. closing[j] \in {"destroying", "next"}
    BY <1>7 DEF Destroyed, TypeOK
  <2>2. i \in 1 .. Len(inserted) /\ life[connections[inserted[i]]] # "open"
    BY <1>7, <2>1 DEF PassedIsDestroyed, TypeOK
  <2>3. connections[inserted[i]] \in Call
    BY <1>5, <2>2 DEF PassedIsDestroyed, TypeOK, Key
  <2> QED
    BY <1>1, <2>2, <2>3
<1>8. \A j \in Closer : closing'[j] = "idle" => closing[j] = "idle"
  BY DEF Destroyed, TypeOK
<1>9. PassedIsDestroyed'
  BY <1>2, <1>7, <1>8 DEF PassedIsDestroyed
<1> QED
  BY <1>6, <1>9

LEMMA KeepInductive ==
  ASSUME Requested \subseteq Tenant, KeepInv, [Next]_vars
  PROVE  KeepInv'
<1>1. PoolInv'
  BY PoolInductive DEF KeepInv
<1>2. ASSUME NEW t \in Tenant, NEW d \in Domain,
             InsertTenant(t, d) \/ RenameTenant(t, d)
      PROVE  CreatedIsCached' /\ PassedIsDestroyed'
  BY <1>2 DEF InsertTenant, RenameTenant, KeepInv, CreatedIsCached, Created,
              PassedIsDestroyed, mapVars, callVars, sourceVars, closeVars
<1>3. ASSUME NEW c \in Call, NEW k \in Requested, GetConnection(c, k)
      PROVE  CreatedIsCached' /\ PassedIsDestroyed'
  BY <1>3, KeepGetConnection
<1>4. ASSUME NEW c \in Call, Advance(c)
      PROVE  CreatedIsCached' /\ PassedIsDestroyed'
  BY <1>4, KeepAdvance
<1>5. ASSUME NEW k \in Closer, CloseAll(k) \/ CloseNext(k) \/ Destroyed(k)
      PROVE  CreatedIsCached' /\ PassedIsDestroyed'
  BY <1>5, KeepIterate, KeepDestroyed DEF CloseAll, CloseNext
<1>6. ASSUME UNCHANGED vars
      PROVE  CreatedIsCached' /\ PassedIsDestroyed'
  BY <1>6 DEF vars, KeepInv, CreatedIsCached, Created, PassedIsDestroyed,
              mapVars, callVars, sourceVars, closeVars
<1>7. Next => CreatedIsCached' /\ PassedIsDestroyed'
  BY <1>2, <1>3, <1>4, <1>5, Zenon DEF Next
<1> QED
  BY <1>1, <1>6, <1>7 DEF KeepInv

LEMMA KeepInit == Init => KeepInv
<1> SUFFICES ASSUME Init
             PROVE  CreatedIsCached /\ PassedIsDestroyed
  BY InitPool DEF KeepInv
<1>1. CreatedIsCached
  BY DEF Init, CreatedIsCached, Created, Body
<1>2. PassedIsDestroyed
  BY DEF Init, PassedIsDestroyed, Key
<1> QED
  BY <1>1, <1>2

\* While callers ask by id, a DataSource that was handed out and is open is
\* the one cached for its tenant: it is never displaced, and no closeAll,
\* however many overlap, clears an entry it has not destroyed.
THEOREM OpenAlwaysCached ==
  ASSUME Requested \subseteq Tenant
  PROVE  Spec => []OpenIsCached
<1>1. Init => KeepInv
  BY KeepInit
<1>2. KeepInv /\ [Next]_vars => KeepInv'
  BY KeepInductive
<1>3. KeepInv => OpenIsCached
  BY DEF KeepInv, PoolInv, StageOf, CreatedIsCached, OpenIsCached
<1> QED
  BY <1>1, <1>2, <1>3, PTL DEF Spec

-----------------------------------------------------------------------------
(* Refinement of SharedConnection: calls by id and no closeAll.             *)

\* The answer of SharedConnection, as the INSTANCE in TenantDbManager reads it.
Answer == [c \in Call |-> CASE pc[c] = "returned" -> from[c]
                            [] pc[c] = "threw" -> "failed"
                            [] OTHER -> None]

\* The DataSource a call has made is the one its tenant shares.
LEMMA CreatedIsShared ==
  ASSUME KeepInv, Closer = {}, NEW c \in Call, Created(c)
  PROVE  key[c] \in Tenant /\ connections[key[c]] = c
<1> USE NoneIsNew, KeysDisjoint DEF KeepInv, PoolInv
<1>1. life[c] = "open"
  BY DEF CreatedIsCached, OnlyClosersClose, TypeOK
<1>2. key[c] \in Tenant /\ key[c] \in {home[c], alias[c]}
  BY DEF CreatedIsCached, StageOf, AnswerOf, Built, Created, TypeOK
<1>3. key[c] = home[c]
  BY <1>2 DEF TypeOK, Key
<1> QED
  BY <1>1, <1>2, <1>3 DEF CreatedIsCached

LEMMA StepRefines ==
  ASSUME Requested \subseteq Tenant, Closer = {}, KeepInv, [Next]_vars
  PROVE  [Shared!Next]_(Shared!sharedVars)
<1> USE NoneIsNew DEF KeepInv, PoolInv
<1> DEFINE shared == [t \in Tenant |-> connections[t]]
<1>1. ASSUME NEW c \in Call, NEW k \in Requested, GetConnection(c, k)
      PROVE  Shared!Ask(c, k) \/ Shared!AskConnected(c, k)
  <2>1. k \in Tenant /\ key[c] = None /\ key' = [key EXCEPT ![c] = k]
    BY <1>1 DEF GetConnection, StageOf
  <2>2. shared' = shared
    BY <1>1 DEF GetConnection
  <2>3. CASE GetCached(c, k)
    <3>1. /\ Answer' = [Answer EXCEPT ![c] = connections[k]]
          /\ connections[k] # None
      BY <1>1, <2>3 DEF GetConnection, GetCached, Answer, TypeOK
    <3> QED
      BY <2>1, <2>2, <3>1 DEF Shared!AskConnected, Answer
  <2>4. CASE JoinPending(c, k) \/ StartPending(c, k)
    <3>1. Answer' = Answer
      BY <1>1, <2>4 DEF GetConnection, JoinPending, StartPending, Answer,
                        TypeOK
    <3> QED
      BY <2>1, <2>2, <3>1 DEF Shared!Ask, Answer
  <2> QED
    BY <1>1, <2>3, <2>4 DEF GetConnection
<1>2. ASSUME NEW c \in Call, LookupTenant(c) \/ Initialize(c)
      PROVE  UNCHANGED <<shared, key, Answer>>
  <2>1. /\ pc[c] \notin {"returned", "threw"}
        /\ pc'[c] \notin {"returned", "threw"}
        /\ \A e \in Call : e # c => pc'[e] = pc[e]
        /\ UNCHANGED <<connections, key, from>>
    BY <1>2 DEF LookupTenant, Initialize, TypeOK, mapVars
  <2> QED
    BY <2>1 DEF Answer
<1>3. ASSUME NEW c \in Call, RunMigrations(c)
      PROVE  Shared!Connect(home[c], c) \/ UNCHANGED <<shared, key, Answer>>
  <2>1. /\ home[c] = key[c] /\ home[c] \in Tenant
        /\ alias[c] \in Domain \ Tenant
        /\ pc[c] = "migrate"
    BY <1>3, HomeIsKey DEF RunMigrations
  <2>2. connections[home[c]] = None
    BY <2>1 DEF CreatedIsCached, Body
  <2>3. UNCHANGED key /\ Answer' = Answer
    BY <1>3 DEF RunMigrations, Answer, TypeOK
  <2>4. Answer[c] = None
    BY <2>1 DEF Answer
  <2>5. \A u \in Tenant : connections[u] # c
    BY <2>1 DEF CreatedIsCached, Created, Key
  <2>6. ASSUME connections' =
                 [connections EXCEPT ![home[c]] = c, ![alias[c]] = c]
        PROVE  shared' = [shared EXCEPT ![home[c]] = c]
    BY <2>1, <2>6 DEF TypeOK, Key
  <2>7. ASSUME shared' = [shared EXCEPT ![home[c]] = c]
        PROVE  Shared!Connect(home[c], c)
    BY <2>1, <2>2, <2>3, <2>4, <2>5, <2>7 DEF Shared!Connect, Answer
  <2>8. \/ connections' = [connections EXCEPT ![home[c]] = c, ![alias[c]] = c]
        \/ UNCHANGED connections
    BY <1>3 DEF RunMigrations
  <2> QED
    BY <2>3, <2>6, <2>7, <2>8
<1>4. ASSUME NEW c \in Call, Settle(c) \/ Resume(c)
      PROVE  Shared!Serve(c) \/ Shared!Fail(c)
  <2>1. UNCHANGED <<shared, key, from>>
    BY <1>4 DEF Settle, Resume, mapVars
  <2>2. key[c] \in Tenant /\ key[c] # None /\ Answer[c] = None
    BY <1>4 DEF Settle, Resume, Settled, CreatedIsCached, Answer, Key
  <2>3. CASE pc' = [pc EXCEPT ![c] = "threw"]
    <3>1. Answer' = [Answer EXCEPT ![c] = "failed"]
      BY <2>1, <2>3 DEF Answer, TypeOK
    <3> QED
      BY <2>1, <2>2, <3>1 DEF Shared!Fail, Answer
  <2>4. CASE pc' = [pc EXCEPT ![c] = "returned"] /\ Created(from[c])
    <3>1. Answer' = [Answer EXCEPT ![c] = from[c]]
      BY <2>1, <2>4 DEF Answer, TypeOK
    <3>2. from[c] \in Call /\ key[from[c]] = key[c]
      BY <1>4 DEF Settle, Resume, StageOf, AnswerOf, Running
    <3>3. shared[key[c]] = from[c] /\ from[c] # None
      BY <2>2, <2>4, <3>2, CreatedIsShared DEF Key
    <3> QED
      BY <2>1, <2>2, <3>1, <3>3 DEF Shared!Serve, Answer
  <2>5. CASE Settle(c)
    <3>1. from[c] = c
      BY <2>5 DEF Settle, StageOf, Running
    <3>2. \/ pc' = [pc EXCEPT ![c] = "threw"]
          \/ pc' = [pc EXCEPT ![c] = "returned"] /\ pc[c] = "fulfilled"
      BY <2>5 DEF Settle, Settled, TypeOK
    <3> QED
      BY <2>3, <2>4, <3>1, <3>2 DEF Created
  <2>6. CASE Resume(c)
    BY <2>3, <2>4, <2>6 DEF Resume, AnswerOf, Created
  <2> QED
    BY <1>4, <2>5, <2>6
<1>5. ASSUME NEW t \in Tenant, NEW d \in Domain,
             InsertTenant(t, d) \/ RenameTenant(t, d)
      PROVE  UNCHANGED <<shared, key, Answer>>
  BY <1>5 DEF InsertTenant, RenameTenant, mapVars, callVars, Answer
<1>6. ASSUME UNCHANGED vars
      PROVE  UNCHANGED <<shared, key, Answer>>
  BY <1>6 DEF vars, mapVars, callVars, Answer
<1>7. UNCHANGED <<shared, key, Answer>> => UNCHANGED Shared!sharedVars
  BY DEF Shared!sharedVars, Answer
<1>8. ASSUME NEW c \in Call, Advance(c)
      PROVE  [Shared!Next]_(Shared!sharedVars)
  <2>1. CASE LookupTenant(c) \/ Initialize(c)
    BY <2>1, <1>2, <1>7
  <2>2. CASE RunMigrations(c)
    <3>1. home[c] \in Tenant
      BY <2>2, HomeIsKey DEF RunMigrations
    <3> QED
      BY <2>2, <3>1, <1>3, <1>7 DEF Shared!Next
  <2>3. CASE Settle(c) \/ Resume(c)
    BY <2>3, <1>4 DEF Shared!Next
  <2> QED
    BY <1>8, <2>1, <2>2, <2>3 DEF Advance
<1>9. ASSUME NEW c \in Call, NEW k \in Requested, GetConnection(c, k)
      PROVE  Shared!Next
  BY <1>1, <1>9 DEF Shared!Next
<1>10. Next => [Shared!Next]_(Shared!sharedVars)
  BY <1>5, <1>7, <1>8, <1>9 DEF Next
<1> QED
  BY <1>6, <1>7, <1>10

\* Asked by id, and until the first closeAll, the pool keeps the promise of
\* SharedConnection whatever fails and however calls interleave: a tenant has
\* one connection and every call that is served gets that one.
THEOREM PoolRefines ==
  ASSUME Requested \subseteq Tenant, Closer = {}
  PROVE  Spec => ImplementsSharedConnection
<1>1. Init => Shared!Init
  BY DEF Init, Shared!Init, Key
<1>2. Init => KeepInv
  BY KeepInit
<1>3. KeepInv /\ [Next]_vars => KeepInv'
  BY KeepInductive
<1>4. KeepInv /\ [Next]_vars => [Shared!Next]_(Shared!sharedVars)
  BY StepRefines
<1> QED
  BY <1>1, <1>2, <1>3, <1>4, PTL
     DEF Spec, ImplementsSharedConnection, Shared!Spec

=============================================================================
