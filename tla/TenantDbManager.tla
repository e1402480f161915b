-------------------------- MODULE TenantDbManager --------------------------
(***************************************************************************)
(* The pool of per-tenant DataSources, src/src/infrastructure/database/    *)
(* tenant-db.manager.ts.  It is a singleton of one Node process: a step    *)
(* runs from one await to the next and nothing interrupts it, and every    *)
(* await lets any other call take its step first.                          *)
(*                                                                         *)
(* The code keeps its maps in pairs, by tenant id and by sub-domain, and   *)
(* getConnection and getConnectionByDomain are the same program over one   *)
(* pair or the other.  Here a key is a tenant id or a domain:              *)
(*   connections[t], connections[d]   this.connections,                    *)
(*                                    this.connectionsByDomain             *)
(*   pending[t], pending[d]           this.pendingById,                    *)
(*                                    this.pendingByDomain                 *)
(*                                                                         *)
(* A call that finds neither a connection nor a pending promise runs the   *)
(* promise's async body itself and creates at most one DataSource, so both *)
(* the promise and the DataSource go by the name of that call.             *)
(***************************************************************************)
EXTENDS Integers, Sequences

CONSTANTS
  Tenant,     \* ids of tenants
  Domain,     \* sub-domains
  Requested,  \* the keys calls ask for: Tenant for what the routes do today
  Call,       \* calls of getConnection and getConnectionByDomain
  Closer,     \* calls of closeAll
  Renames,    \* whether a row's sub_domain may be changed under the server
  None        \* no row, no promise, no DataSource

Key == Tenant \cup Domain

ASSUME KeysDisjoint == Tenant \cap Domain = {}
ASSUME RequestedAreKeys == Requested \subseteq Key
ASSUME NoneIsNew == None \notin Key \cup Call
ASSUME RenamesIsBoolean == Renames \in BOOLEAN

VARIABLES
  registry,     \* registry[t]: subDomain of tenant t's row, None without one
  connections,  \* connections[k]: the call whose DataSource is cached for k
  inserted,     \* the tenants in the order of the Map connections
  pending,      \* pending[k]: the call whose promise is pending for k
  pc,           \* where each call is
  key,          \* the key each call asks for
  from,         \* the call whose promise or DataSource serves this call
  life,         \* life of the DataSource each call created
  home,         \* the tenant whose dbUrl that DataSource was built with
  alias,        \* the sub-domain it is cached under
  closing,      \* where each closeAll is
  at,           \* its position in the iteration over connections
  victim        \* the DataSource it is awaiting the destruction of

callVars   == <<pc, key, from>>
sourceVars == <<life, home, alias>>
mapVars    == <<connections, inserted, pending>>
closeVars  == <<closing, at, victim>>
vars == <<registry, mapVars, callVars, sourceVars, closeVars>>

\* A call in the async body of its own promise: awaiting the row, awaiting
\* initialize, awaiting runMigrations, or settled but not yet past finally.
Body    == {"lookup", "initialize", "migrate"}
Settled == {"fulfilled", "rejected"}
Running == Body \cup Settled

TypeOK ==
  /\ registry \in [Tenant -> Domain \cup {None}]
  /\ connections \in [Key -> Call \cup {None}]
  /\ inserted \in Seq(Tenant)
  /\ pending \in [Key -> Call \cup {None}]
  /\ pc \in [Call -> {"idle", "waiting", "returned", "threw"} \cup Running]
  /\ key \in [Call -> Key \cup {None}]
  /\ from \in [Call -> Call \cup {None}]
  /\ life \in [Call -> {"none", "open", "closing", "closed"}]
  /\ home \in [Call -> Tenant \cup {None}]
  /\ alias \in [Call -> Domain \cup {None}]
  /\ closing \in [Closer -> {"idle", "destroying", "next", "done", "threw"}]
  /\ at \in [Closer -> Nat]
  /\ victim \in [Closer -> Call \cup {None}]

-----------------------------------------------------------------------------
(* The admin database, which the code only reads.  UNIQUE ("subDomain").    *)

UniqueDomains(reg) ==
  \A t, u \in Tenant : t # u /\ reg[t] # None => reg[t] # reg[u]

\* An operator inserts a tenant row by hand.
InsertTenant(t, d) ==
  /\ registry[t] = None
  /\ registry' = [registry EXCEPT ![t] = d]
  /\ UniqueDomains(registry')
  /\ UNCHANGED <<mapVars, callVars, sourceVars, closeVars>>

\* An operator gives a tenant another sub-domain.
RenameTenant(t, d) ==
  /\ Renames
  /\ registry[t] \notin {None, d}
  /\ registry' = [registry EXCEPT ![t] = d]
  /\ UniqueDomains(registry')
  /\ UNCHANGED <<mapVars, callVars, sourceVars, closeVars>>

\* Mutant of RowsFor: the where clause is lost.
AnyRow(k) == {t \in Tenant : registry[t] # None /\ k \in Key}

\* The rows findOneBy({ id }) or findOneBy({ subDomain }) can return for k.
RowsFor(k) == {t \in Tenant : registry[t] # None /\ k \in {t, registry[t]}}

-----------------------------------------------------------------------------
(* getConnection and getConnectionByDomain                                  *)

\* connections.has(k): return the cached DataSource.
GetCached(c, k) ==
  /\ connections[k] # None
  /\ pc' = [pc EXCEPT ![c] = "returned"]
  /\ from' = [from EXCEPT ![c] = connections[k]]
  /\ UNCHANGED pending

\* pending.has(k): await the promise of the call that is creating it.
JoinPending(c, k) ==
  /\ connections[k] = None
  /\ pending[k] # None
  /\ pc' = [pc EXCEPT ![c] = "waiting"]
  /\ from' = [from EXCEPT ![c] = pending[k]]
  /\ UNCHANGED pending

\* Mutant of StartPending: nobody looks whether a promise is pending.
StartUnasked(c, k) ==
  /\ connections[k] = None
  /\ pc' = [pc EXCEPT ![c] = "lookup"]
  /\ from' = [from EXCEPT ![c] = c]
  /\ pending' = [pending EXCEPT ![k] = c]

\* Start the async body, which runs up to its first await, and remember its
\* promise.
StartPending(c, k) ==
  /\ connections[k] = None
  /\ pending[k] = None
  /\ pc' = [pc EXCEPT ![c] = "lookup"]
  /\ from' = [from EXCEPT ![c] = c]
  /\ pending' = [pending EXCEPT ![k] = c]

GetConnection(c, k) ==
  /\ pc[c] = "idle"
  /\ key' = [key EXCEPT ![c] = k]
  /\ GetCached(c, k) \/ JoinPending(c, k) \/ StartPending(c, k)
  /\ UNCHANGED <<registry, connections, inserted, sourceVars, closeVars>>

\* findOneBy answers: a row, or none or an error and the body throws.
LookupTenant(c) ==
  /\ pc[c] = "lookup"
  /\ \/ \E t \in RowsFor(key[c]) :
          /\ home' = [home EXCEPT ![c] = t]
          /\ alias' = [alias EXCEPT ![c] = registry[t]]
          /\ pc' = [pc EXCEPT ![c] = "initialize"]
     \/ /\ pc' = [pc EXCEPT ![c] = "rejected"]
        /\ UNCHANGED <<home, alias>>
  /\ UNCHANGED <<registry, mapVars, key, from, life, closeVars>>

\* ds.initialize() connects, or rejects and leaves nothing connected.
Initialize(c) ==
  /\ pc[c] = "initialize"
  /\ \/ /\ pc' = [pc EXCEPT ![c] = "migrate"]
        /\ life' = [life EXCEPT ![c] = "open"]
     \/ /\ pc' = [pc EXCEPT ![c] = "rejected"]
        /\ UNCHANGED life
  /\ UNCHANGED <<registry, mapVars, key, from, home, alias, closeVars>>

\* Mutant of RunMigrations: the arguments of the two set calls are swapped.
CacheSwapped(c) ==
  /\ pc[c] = "migrate"
  /\ pc' = [pc EXCEPT ![c] = "fulfilled"]
  /\ connections' = [connections EXCEPT ![home[c]] = c, ![alias[c]] = c]
  /\ inserted' = Append(inserted, alias[c])
  /\ UNCHANGED <<registry, pending, key, from, sourceVars, closeVars>>

\* Mutant of RunMigrations: the domain map keeps the entry it has.
CacheDomainOnce(c) ==
  /\ pc[c] = "migrate"
  /\ pc' = [pc EXCEPT ![c] = "fulfilled"]
  /\ connections' = [connections EXCEPT
                        ![home[c]] = c,
                        ![alias[c]] = IF @ = None THEN c ELSE @]
  /\ inserted' = IF connections[home[c]] = None
                   THEN Append(inserted, home[c]) ELSE inserted
  /\ UNCHANGED <<registry, pending, key, from, sourceVars, closeVars>>

\* ds.runMigrations() succeeds and the DataSource is cached under both keys
\* before the promise is fulfilled, or it rejects and ds is left as it is.
RunMigrations(c) ==
  /\ pc[c] = "migrate"
  /\ \/ /\ pc' = [pc EXCEPT ![c] = "fulfilled"]
        /\ connections' = [connections EXCEPT ![home[c]] = c, ![alias[c]] = c]
        /\ inserted' = IF connections[home[c]] = None
                         THEN Append(inserted, home[c]) ELSE inserted
     \/ /\ pc' = [pc EXCEPT ![c] = "rejected"]
        /\ UNCHANGED <<connections, inserted>>
  /\ UNCHANGED <<registry, pending, key, from, sourceVars, closeVars>>

\* Mutant of Settle: the promise is forgotten only when it was fulfilled.
SettleWithoutFinally(c) ==
  /\ pc[c] \in Settled
  /\ pending' = IF pc[c] = "fulfilled"
                  THEN [pending EXCEPT ![key[c]] = None] ELSE pending
  /\ pc' = [pc EXCEPT ![c] = IF @ = "fulfilled" THEN "returned" ELSE "threw"]
  /\ UNCHANGED <<registry, connections, inserted, key, from, sourceVars,
                 closeVars>>

\* The creating call resumes: finally forgets the promise, whatever became
\* of it, and the call returns or rethrows.
Settle(c) ==
  /\ pc[c] \in Settled
  /\ pending' = [pending EXCEPT ![key[c]] = None]
  /\ pc' = [pc EXCEPT ![c] = IF @ = "fulfilled" THEN "returned" ELSE "threw"]
  /\ UNCHANGED <<registry, connections, inserted, key, from, sourceVars,
                 closeVars>>

\* Mutant of Resume: only success reaches the calls that joined.
ResumeOnSuccess(c) ==
  /\ pc[c] = "waiting"
  /\ pc[from[c]] \in {"fulfilled", "returned"}
  /\ pc' = [pc EXCEPT ![c] = "returned"]
  /\ UNCHANGED <<registry, mapVars, key, from, sourceVars, closeVars>>

\* A call that joined resumes with the outcome of the promise it joined.
Resume(c) ==
  /\ pc[c] = "waiting"
  /\ \/ /\ pc[from[c]] \in {"fulfilled", "returned"}
        /\ pc' = [pc EXCEPT ![c] = "returned"]
     \/ /\ pc[from[c]] \in {"rejected", "threw"}
        /\ pc' = [pc EXCEPT ![c] = "threw"]
  /\ UNCHANGED <<registry, mapVars, key, from, sourceVars, closeVars>>

-----------------------------------------------------------------------------
(* closeAll.  A for-of over a Map is live: entries added while it awaits    *)
(* are reached, an entry whose value is replaced after its turn is not.     *)

\* isInitialized turns false only when destroy() is through.
IsInitialized(s) == life[s] \in {"open", "closing"}

\* The positions still ahead of k whose DataSource it will try to destroy.
Ahead(k) ==
  {i \in (at[k] + 1) .. Len(inserted) :
     IsInitialized(connections[inserted[i]])}

\* Mutant of ClearMaps: the maps are cleared before the loop is through.
ClearMapsFirst(k) ==
  /\ connections' = [x \in Key |-> None]
  /\ inserted' = << >>
  /\ at' = [j \in Closer |-> 0]
  /\ closing' = [closing EXCEPT ![k] = "done"]
  /\ UNCHANGED <<life, victim>>

\* The end of the loop: both maps are cleared in the same step.  A closeAll
\* that is still iterating goes on with what is inserted afterwards.
ClearMaps(k) ==
  /\ Ahead(k) = {}
  /\ connections' = [x \in Key |-> None]
  /\ inserted' = << >>
  /\ at' = [j \in Closer |-> 0]
  /\ closing' = [closing EXCEPT ![k] = "done"]
  /\ UNCHANGED <<life, victim>>

\* The next initialized DataSource: destroy() ends its pool and is awaited.
\* A pool that is already ending refuses a second end, and closeAll throws.
DestroyNext(k) ==
  \E i \in Ahead(k) :
    LET s == connections[inserted[i]]
    IN  /\ \A j \in Ahead(k) : i <= j
        /\ at' = [at EXCEPT ![k] = i]
        /\ \/ /\ life[s] = "open"
              /\ life' = [life EXCEPT ![s] = "closing"]
              /\ victim' = [victim EXCEPT ![k] = s]
              /\ closing' = [closing EXCEPT ![k] = "destroying"]
           \/ /\ life[s] = "closing"
              /\ closing' = [closing EXCEPT ![k] = "threw"]
              /\ UNCHANGED <<life, victim>>
        /\ UNCHANGED <<connections, inserted>>

Iterate(k) ==
  /\ ClearMaps(k) \/ DestroyNext(k)
  /\ UNCHANGED <<registry, pending, callVars, home, alias>>

CloseAll(k) == closing[k] = "idle" /\ Iterate(k)

CloseNext(k) == closing[k] = "next" /\ Iterate(k)

\* destroy() resolves.
Destroyed(k) ==
  /\ closing[k] = "destroying"
  /\ life' = [life EXCEPT ![victim[k]] = "closed"]
  /\ closing' = [closing EXCEPT ![k] = "next"]
  /\ UNCHANGED <<registry, mapVars, callVars, home, alias, at, victim>>

-----------------------------------------------------------------------------
Init ==
  /\ registry \in [Tenant -> Domain \cup {None}]
  /\ UniqueDomains(registry)
  /\ connections = [k \in Key |-> None]
  /\ inserted = << >>
  /\ pending = [k \in Key |-> None]
  /\ pc = [c \in Call |-> "idle"]
  /\ key = [c \in Call |-> None]
  /\ from = [c \in Call |-> None]
  /\ life = [c \in Call |-> "none"]
  /\ home = [c \in Call |-> None]
  /\ alias = [c \in Call |-> None]
  /\ closing = [k \in Closer |-> "idle"]
  /\ at = [k \in Closer |-> 0]
  /\ victim = [k \in Closer |-> None]

\* The steps the event loop takes once their await has been answered.
Advance(c) ==
  \/ LookupTenant(c) \/ Initialize(c) \/ RunMigrations(c)
  \/ Settle(c) \/ Resume(c)

Next ==
  \/ \E t \in Tenant, d \in Domain : InsertTenant(t, d) \/ RenameTenant(t, d)
  \/ \E c \in Call, k \in Requested : GetConnection(c, k)
  \/ \E c \in Call : Advance(c)
  \/ \E k \in Closer : CloseAll(k) \/ CloseNext(k) \/ Destroyed(k)

Spec == Init /\ [][Next]_vars

\* The database answers every statement, with a result or an error, and the
\* event loop runs every continuation that is due.
Fairness == \A c \in Call : WF_vars(Advance(c))

FairSpec == Spec /\ Fairness

-----------------------------------------------------------------------------
(* Properties                                                               *)

\* A promise is in a pending map exactly while the body that made it runs or
\* its finally block is due, and under the key that was asked for.  So one
\* key never has two creations at once, and a promise that was rejected does
\* not stay behind to fail the calls that come later (lines 29-46, 53-70).
PendingIsRunning ==
  \A k \in Key, c \in Call :
    pending[k] = c <=> pc[c] \in Running /\ key[c] = k

\* A call that returns has a DataSource that was built for the tenant, or for
\* the holder of the sub-domain, it asked for, whichever call created it; and
\* unless a closeAll has begun that DataSource is open: tenants never see one
\* another's database (the README's "own isolated PostgreSQL database").
ServedByOwnTenant ==
  \A c \in Call : pc[c] = "returned" =>
    /\ key[c] \in {home[from[c]], alias[from[c]]}
    /\ life[from[c]] # "none"
    /\ (\A k \in Closer : closing[k] = "idle") => life[from[c]] = "open"

\* The two maps tell the same story: whatever is cached for a tenant is also
\* cached for its sub-domain and the other way round, although calls by id
\* and calls by domain race and overwrite each other's entries (lines
\* 113-114).  Meant for rows whose sub-domain does not change.
MapsAgree ==
  \A k \in Key : connections[k] # None =>
    LET s == connections[k]
    IN  connections[home[s]] = s /\ connections[alias[s]] = s

\* As long as callers ask by id, a DataSource that was handed out is either
\* still cached or no longer open: it is never replaced by another one, and
\* closeAll never clears an entry whose DataSource it has not destroyed,
\* however many creations finish and closeAlls overlap while it awaits.
OpenIsCached ==
  \A c \in Call :
    pc[c] = "returned" /\ life[from[c]] = "open" =>
      connections[home[from[c]]] = from[c]

\* No tenant ever has two open DataSources (README, line 22: the manager
\* "lazily creates and caches a DataSource per tenant on first request").
OneOpenSourcePerTenant ==
  \A c, e \in Call :
    life[c] = "open" /\ life[e] = "open" /\ home[c] = home[e] => c = e

\* Every call returns or throws, the ones that joined a promise of another
\* call included (lines 29-31, 40-45).
EveryCallSettles ==
  \A c \in Call : (pc[c] # "idle") ~> (pc[c] \in {"returned", "threw"})

\* Asked by id, and while nothing is shut down, the pool keeps the promise of
\* SharedConnection: one connection per tenant, the same for every caller.
Shared == INSTANCE SharedConnection WITH
  Connection <- Call,
  shared <- [t \in Tenant |-> connections[t]],
  asked <- key,
  answer <- [c \in Call |-> CASE pc[c] = "returned" -> from[c]
                              [] pc[c] = "threw" -> "failed"
                              [] OTHER -> None]

ImplementsSharedConnection == Shared!Spec
=============================================================================
