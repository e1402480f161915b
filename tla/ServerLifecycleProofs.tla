----------------------- MODULE ServerLifecycleProofs -----------------------
(* Theorems about ServerLifecycle: under the server the pool is still the   *)
(* pool, so that what is proved of it holds here; and no shutdown cuts off  *)
(* a request.                                                               *)
EXTENDS ServerLifecycle, TenantDbManagerProofs

\* Every step of the server is a step of the pool or leaves the pool alone.
LEMMA StepIsPoolStep == [NextServer]_serverVars => [Next]_vars
<1> SUFFICES ASSUME [NextServer]_serverVars
             PROVE  [Next]_vars
  OBVIOUS
<1>1. CASE InitializeAdmin \/ InitializeApiRoutes \/ KilledEarly \/ ServerClosed
  BY <1>1 DEF InitializeAdmin, InitializeApiRoutes, KilledEarly, ServerClosed
<1>2. ASSUME NEW c \in Call, NEW t \in Requested, Arrive(c, t)
      PROVE  Next
  BY <1>2 DEF Arrive, Next
<1>3. ASSUME NEW c \in Call,
             Handle(c) \/ Respond(c) \/ Abort(c) \/ EndIdle(c)
      PROVE  [Next]_vars
  <2>1. CASE Handle(c)
    BY <2>1 DEF Handle, Next
  <2>2. CASE Respond(c) \/ Abort(c) \/ EndIdle(c)
    BY <2>2 DEF Respond, Abort, EndIdle
  <2> QED
    BY <1>3, <2>1, <2>2
<1>4. ASSUME NEW k \in Closer, Shutdown(k) \/ Callback(k)
      PROVE  [Next]_vars
  <2>1. CASE CloseTenants(k)
    BY <2>1 DEF CloseTenants, Next
  <2>2. CASE Shutdown(k) \/ DestroyAdmin(k) \/ Exit(k)
    BY <2>2 DEF Shutdown, DestroyAdmin, Exit
  <2> QED
    BY <1>4, <2>1, <2>2 DEF Callback
<1>5. ASSUME NEW t \in Tenant, NEW d \in Domain, Registry(t, d)
      PROVE  Next
  BY <1>5 DEF Registry, Next
<1>6. CASE UNCHANGED serverVars
  BY <1>6 DEF serverVars
<1> QED
  BY <1>1, <1>2, <1>3, <1>4, <1>5, <1>6 DEF NextServer

\* The composition implements the pool: whatever the server, its clients and
\* the signals do, they drive the pool only as TenantDbManager says.
THEOREM ServerRunsPool == SpecServer => Spec
<1>1. InitServer => Init
  BY DEF InitServer
<1> QED
  BY <1>1, StepIsPoolStep, PTL DEF SpecServer, Spec

-----------------------------------------------------------------------------
(* Types                                                                    *)

LEMMA TypeStep ==
  ASSUME ServerTypeOK, TypeOK', [NextServer]_serverVars
  PROVE  ServerTypeOK'
<1> USE DEF ServerTypeOK, Ended
<1>1. CASE InitializeAdmin \/ InitializeApiRoutes \/ KilledEarly \/ ServerClosed
  BY <1>1 DEF InitializeAdmin, InitializeApiRoutes, Listen, KilledEarly,
              ServerClosed
<1>2. ASSUME NEW c \in Call,
             \/ \E t \in Requested : Arrive(c, t)
             \/ Handle(c) \/ Respond(c) \/ Abort(c) \/ EndIdle(c)
      PROVE  ServerTypeOK'
  BY <1>2 DEF Arrive, Handle, Respond, Abort, EndIdle, lifeVars
<1>3. ASSUME NEW k \in Closer, Shutdown(k) \/ Callback(k)
      PROVE  ServerTypeOK'
  BY <1>3 DEF Shutdown, Callback, CloseTenants, DestroyAdmin, Exit
<1>4. CASE UNCHANGED lifeVars
  BY <1>4 DEF lifeVars
<1> QED
  BY <1>1, <1>2, <1>3, <1>4 DEF NextServer, Registry, serverVars

\* Every variable of the server and of the pool under it keeps its type.
THEOREM ServerTypeCorrect == SpecServer => []ServerTypeOK
<1>1. InitServer /\ TypeOK => ServerTypeOK
  BY DEF InitServer, ServerTypeOK
<1> QED
  BY <1>1, TypeStep, ServerRunsPool, TypeCorrect, PTL DEF SpecServer

-----------------------------------------------------------------------------
(* No request is cut off                                                    *)

\* The port is given back, or was never had.
Unbound == server \in {"closed", "refused"}

\* A callback of server.close runs only when no client is connected, and only
\* these callbacks touch what requests use.
LifeInv ==
  /\ socket \in [Call -> {"none", "open", "idle", "ended", "aborted"}]
  /\ shutdown \in [Closer -> {"none", "registered", "tenants", "admin"}]
  /\ proc # "serving" => server \in {"none", "closed", "refused"}
  /\ proc \in {"starting", "routing"} => server = "none"
  /\ proc = "serving" => admin \in {"open", "closing"}
  /\ proc = "serving" /\ admin = "closing" => Unbound
  /\ proc = "routing" => admin = "open"
  /\ server \in {"none", "closed", "refused"} =>
       \A c \in Call : socket[c] \notin {"open", "idle"}
  /\ \A k \in Closer :
       /\ shutdown[k] \in {"tenants", "admin"} => Unbound
       /\ shutdown[k] \notin {"tenants", "admin"} => closing[k] = "idle"

LEMMA LifeInit == InitServer => LifeInv
BY DEF InitServer, Init, LifeInv, Ended

\* Starting.
LEMMA LifeStart ==
  ASSUME LifeInv, InitializeAdmin \/ InitializeApiRoutes \/ KilledEarly
  PROVE  LifeInv'
<1> USE DEF LifeInv, Unbound, Ended, vars, closeVars
<1>1. CASE InitializeAdmin
  BY <1>1 DEF InitializeAdmin
<1>2. CASE InitializeApiRoutes
  BY <1>2 DEF InitializeApiRoutes, Listen
<1>3. CASE KilledEarly
  BY <1>3 DEF KilledEarly
<1> QED
  BY <1>1, <1>2, <1>3

\* Requests and their connections.
LEMMA LifeRequest ==
  ASSUME LifeInv, NEW c \in Call,
         \/ \E t \in Requested : Arrive(c, t)
         \/ Handle(c) \/ Respond(c) \/ Abort(c) \/ EndIdle(c)
  PROVE  LifeInv'
<1> USE DEF LifeInv, Unbound, Ended
<1>1. ASSUME NEW t \in Requested, Arrive(c, t)
      PROVE  LifeInv'
  <2> USE <1>1 DEF Arrive, GetConnection, closeVars
  <2>1. CASE server = "listening"
    BY <2>1
  <2>2. CASE server # "listening"
    <3>1. PICK e \in Call : /\ socket[e] = "idle"
                            /\ socket' = [socket EXCEPT ![c] = "open", ![e] = "ended"]
      BY <2>2
    <3>2. server \notin {"none", "closed", "refused"}
      BY <3>1
    <3> QED
      BY <3>1, <3>2
  <2> QED
    BY <2>1, <2>2
<1>2. CASE Handle(c)
  BY <1>2 DEF Handle, Advance, LookupTenant, Initialize, RunMigrations, Settle,
              Resume, closeVars, lifeVars
<1>3. CASE Respond(c)
  BY <1>3 DEF Respond, vars, closeVars
<1>4. CASE Abort(c)
  BY <1>4 DEF Abort, vars, closeVars
<1>5. CASE EndIdle(c)
  BY <1>5 DEF EndIdle, vars, closeVars
<1> QED
  BY <1>1, <1>2, <1>3, <1>4, <1>5

\* Signals.
LEMMA LifeShutdown ==
  ASSUME LifeInv, TypeOK, NEW k \in Closer, Shutdown(k) \/ Callback(k)
  PROVE  LifeInv'
<1> USE DEF LifeInv, Unbound, Ended
<1>1. CASE Shutdown(k)
  BY <1>1 DEF Shutdown, vars, closeVars
<1>2. CASE CloseTenants(k)
  <2>1. Unbound
    BY <1>2 DEF CloseTenants
  <2>2. \A j \in Closer : j # k => closing'[j] = closing[j]
    BY <1>2 DEF CloseTenants, CloseAll, CloseNext, Iterate, ClearMaps,
                DestroyNext, Destroyed, TypeOK
  <2>3. shutdown' = [shutdown EXCEPT ![k] = "tenants"]
    BY <1>2 DEF CloseTenants
  <2>4. proc = "serving" /\ proc' \in {"serving", "crashed"}
    BY <1>2 DEF CloseTenants
  <2>5. UNCHANGED <<admin, server, socket>>
    BY <1>2 DEF CloseTenants
  <2> QED
    BY <2>1, <2>2, <2>3, <2>4, <2>5
<1>3. CASE DestroyAdmin(k)
  BY <1>3 DEF DestroyAdmin, vars, closeVars
<1>4. CASE Exit(k)
  BY <1>4 DEF Exit, vars, closeVars
<1> QED
  BY <1>1, <1>2, <1>3, <1>4 DEF Callback

LEMMA LifeInductive ==
  LifeInv /\ TypeOK /\ [NextServer]_serverVars => LifeInv'
<1> SUFFICES ASSUME LifeInv, TypeOK, [NextServer]_serverVars
             PROVE  LifeInv'
  OBVIOUS
<1>1. CASE ServerClosed
  BY <1>1 DEF ServerClosed, LifeInv, Unbound, Ended, vars, closeVars
<1>2. ASSUME NEW t \in Tenant, NEW d \in Domain, Registry(t, d)
      PROVE  LifeInv'
  BY <1>2 DEF Registry, InsertTenant, RenameTenant, LifeInv, Unbound, Ended,
              lifeVars, closeVars
<1>3. CASE UNCHANGED serverVars
  BY <1>3 DEF serverVars, lifeVars, vars, closeVars, LifeInv, Unbound, Ended
<1> QED
  BY <1>1, <1>2, <1>3, LifeStart, LifeRequest, LifeShutdown DEF NextServer

\* A client that waits has a running process, the admin database and an open
\* DataSource, for any number of requests, signals and tenants.
THEOREM RequestsNeverCutOff == SpecServer => []NoRequestCutOff
<1>1. LifeInv /\ ServedByOwnTenant /\ TypeOK => NoRequestCutOff
  <2> SUFFICES ASSUME LifeInv, ServedByOwnTenant, NEW c \in Call,
                      socket[c] = "open"
               PROVE  /\ proc = "serving"
                      /\ admin = "open"
                      /\ pc[c] = "returned" => life[from[c]] = "open"
    BY DEF NoRequestCutOff
  <2>1. server \notin {"none", "closed", "refused"}
    BY DEF LifeInv
  <2> QED
    BY <2>1 DEF LifeInv, Unbound, ServedByOwnTenant
<1>2. SpecServer => []LifeInv
  BY LifeInit, LifeInductive, ServerRunsPool, TypeCorrect, PTL DEF SpecServer
<1> QED
  BY <1>1, <1>2, ServerRunsPool, TypeCorrect, OwnTenantOnly, PTL

-----------------------------------------------------------------------------
(* One signal is safe                                                       *)

\* The tenants closeAll iterates over have something cached.
InsertedAreCached ==
  \A i \in 1 .. Len(inserted) : connections[inserted[i]] # None

LEMMA InsertedInductive ==
  ASSUME PoolInv, InsertedAreCached, [Next]_vars
  PROVE  InsertedAreCached'
<1> USE NoneIsNew DEF PoolInv, TypeOK, InsertedAreCached
<1>1. CASE UNCHANGED mapVars
  BY <1>1 DEF mapVars
<1>2. ASSUME NEW c \in Call, NEW k \in Requested, GetConnection(c, k)
      PROVE  InsertedAreCached'
  BY <1>2 DEF GetConnection
<1>3. ASSUME NEW c \in Call, Advance(c)
      PROVE  InsertedAreCached'
  <2>1. CASE LookupTenant(c) \/ Initialize(c) \/ Resume(c)
    BY <2>1, <1>1 DEF LookupTenant, Initialize, Resume
  <2>2. CASE Settle(c)
    BY <2>2 DEF Settle
  <2>3. CASE RunMigrations(c)
    <3>1. home[c] \in Tenant /\ alias[c] \in Domain
      BY <2>3 DEF RunMigrations, StageOf
    <3>2. CASE UNCHANGED <<connections, inserted>>
      BY <3>2
    <3>3. CASE connections' = [connections EXCEPT ![home[c]] = c, ![alias[c]] = c]
      <4>1. \A x \in Key : connections[x] # None => connections'[x] # None
        BY <3>3
      <4>2. connections'[home[c]] # None
        BY <3>1, <3>3 DEF Key
      <4>3. \A i \in 1 .. Len(inserted) : inserted[i] \in Key
        BY DEF Key
      <4>4. CASE inserted' = inserted
        BY <4>1, <4>3, <4>4
      <4>5. CASE inserted' = Append(inserted, home[c])
        <5>1. Len(inserted') = Len(inserted) + 1
          BY <4>5
        <5>2. \A i \in 1 .. Len(inserted') :
                inserted'[i] = IF i <= Len(inserted) THEN inserted[i] ELSE home[c]
          BY <4>5, <3>1
        <5>3. Len(inserted) \in Nat
          OBVIOUS
        <5>4. ASSUME NEW i \in 1 .. Len(inserted')
              PROVE  connections'[inserted'[i]] # None
          <6>1. CASE i <= Len(inserted)
            <7>1. i \in 1 .. Len(inserted) /\ inserted'[i] = inserted[i]
              BY <5>1, <5>2, <5>3, <6>1
            <7> QED
              BY <4>1, <4>3, <7>1
          <6>2. CASE ~(i <= Len(inserted))
            BY <4>2, <5>2, <6>2
          <6> QED
            BY <6>1, <6>2
        <5> QED
          BY <5>4
      <4> QED
        BY <2>3, <3>2, <4>4, <4>5 DEF RunMigrations
    <3> QED
      BY <2>3, <3>2, <3>3 DEF RunMigrations
  <2> QED
    BY <1>3, <2>1, <2>2, <2>3 DEF Advance
<1>4. ASSUME NEW k \in Closer, CloseAll(k) \/ CloseNext(k) \/ Destroyed(k)
      PROVE  InsertedAreCached'
  BY <1>4, <1>1 DEF CloseAll, CloseNext, Iterate, ClearMaps, DestroyNext,
                    Destroyed, mapVars
<1> QED
  BY <1>1, <1>2, <1>3, <1>4 DEF Next, InsertTenant, RenameTenant, vars

\* A DataSource on its way down has a closeAll that awaits it, the admin
\* database a callback past its closeAll.
SignalInv ==
  /\ \A s \in Call : life[s] = "closing" =>
       \E k \in Closer : closing[k] = "destroying" /\ victim[k] = s
  /\ proc = "serving" /\ admin = "closing" =>
       \E k \in Closer : shutdown[k] = "admin"
  /\ OneSignalIsSafe

LEMMA SignalInit == InitServer => SignalInv
BY DEF InitServer, Init, SignalInv, OneSignalIsSafe

\* The steps of the pool that are not closeAll's.
LEMMA SignalPool ==
  ASSUME SignalInv, TypeOK,
         UNCHANGED <<proc, admin, shutdown>>,
         \/ \E c \in Call, t \in Requested : GetConnection(c, t)
         \/ \E c \in Call : Advance(c)
         \/ \E t \in Tenant, d \in Domain : InsertTenant(t, d) \/ RenameTenant(t, d)
         \/ UNCHANGED vars
  PROVE  SignalInv'
<1>1. UNCHANGED <<closing, victim>>
  BY DEF GetConnection, Advance, LookupTenant, Initialize, RunMigrations, Settle,
         Resume, InsertTenant, RenameTenant, vars, closeVars
<1>2. \A s \in Call : life'[s] = "closing" => life[s] = "closing"
  BY DEF GetConnection, Advance, LookupTenant, Initialize, RunMigrations, Settle,
         Resume, InsertTenant, RenameTenant, vars, sourceVars, TypeOK
<1> QED
  BY <1>1, <1>2 DEF SignalInv, OneSignalIsSafe

\* closeAll throws only over what another one is destroying.
LEMMA SignalCloseTenants ==
  ASSUME SignalInv, PoolInv, InsertedAreCached, LifeInv, NEW k \in Closer,
         CloseTenants(k)
  PROVE  SignalInv'
<1> USE DEF PoolInv, TypeOK, LifeInv
<1>1. /\ shutdown' = [shutdown EXCEPT ![k] = "tenants"]
      /\ proc = "serving"
      /\ proc' = IF closing'[k] = "threw" THEN "crashed" ELSE proc
      /\ admin' = admin
      /\ shutdown[k] \in {"registered", "tenants"}
  BY DEF CloseTenants
<1>2. proc' = "serving" /\ admin' = "closing" =>
        \E j \in Closer : shutdown'[j] = "admin"
  BY <1>1 DEF SignalInv
<1>3. CASE Destroyed(k)
  <2>1. \A s \in Call : life'[s] = "closing" => life[s] = "closing" /\ s # victim[k]
    BY <1>3 DEF Destroyed
  <2>2. closing' = [closing EXCEPT ![k] = "next"] /\ victim' = victim
    BY <1>3 DEF Destroyed
  <2> QED
    BY <1>1, <1>2, <2>1, <2>2 DEF SignalInv, OneSignalIsSafe
<1>4. CASE ClearMaps(k) /\ closing[k] \in {"idle", "next"}
  <2>1. /\ closing' = [closing EXCEPT ![k] = "done"]
        /\ UNCHANGED <<life, victim>>
    BY <1>4 DEF ClearMaps
  <2> QED
    BY <1>1, <1>2, <1>4, <2>1 DEF SignalInv, OneSignalIsSafe
<1>5. CASE DestroyNext(k) /\ closing[k] \in {"idle", "next"}
  <2>1. PICK i \in Ahead(k) :
          LET s == connections[inserted[i]]
          IN  \/ /\ life[s] = "open"
                 /\ life' = [life EXCEPT ![s] = "closing"]
                 /\ victim' = [victim EXCEPT ![k] = s]
                 /\ closing' = [closing EXCEPT ![k] = "destroying"]
              \/ /\ life[s] = "closing"
                 /\ closing' = [closing EXCEPT ![k] = "threw"]
                 /\ UNCHANGED <<life, victim>>
    BY <1>5 DEF DestroyNext
  <2> DEFINE s == connections[inserted[i]]
  <2>2. s \in Call
    <3>1. i \in 1 .. Len(inserted)
      BY DEF Ahead
    <3>2. inserted[i] \in Key
      BY <3>1 DEF Key
    <3>3. s \in Call \cup {None}
      BY <3>2
    <3>4. connections[inserted[i]] # None
      BY <3>1 DEF InsertedAreCached
    <3> QED
      BY <3>3, <3>4
  <2>3. CASE life[s] = "open"
    BY <1>1, <1>2, <1>5, <2>1, <2>2, <2>3 DEF SignalInv, OneSignalIsSafe
  <2>4. CASE life[s] = "closing"
    <3>1. PICK j \in Closer : closing[j] = "destroying" /\ victim[j] = s
      BY <2>2, <2>4 DEF SignalInv
    <3>2. j # k /\ shutdown[j] \in {"tenants", "admin"}
      BY <3>1, <1>5
    <3> QED
      BY <1>1, <1>2, <1>5, <2>1, <2>4, <3>1, <3>2 DEF SignalInv, OneSignalIsSafe
  <2> QED
    BY <2>1, <2>3, <2>4
<1> QED
  BY <1>3, <1>4, <1>5 DEF CloseTenants, CloseAll, CloseNext, Iterate

\* The admin database is asked to end twice only by two callbacks.
LEMMA SignalDestroyAdmin ==
  ASSUME SignalInv, LifeInv, NEW k \in Closer, DestroyAdmin(k)
  PROVE  SignalInv'
<1>1. UNCHANGED <<life, closing, victim>> /\ proc = "serving" /\ shutdown[k] = "tenants"
  BY DEF DestroyAdmin, vars, sourceVars, closeVars
<1>2. CASE admin = "open"
  BY <1>1, <1>2 DEF DestroyAdmin, LifeInv, SignalInv, OneSignalIsSafe
<1>3. CASE admin = "closing"
  <2>1. PICK j \in Closer : shutdown[j] = "admin"
    BY <1>1, <1>3 DEF SignalInv
  <2>2. j # k /\ shutdown' = shutdown /\ admin' = admin
    BY <1>1, <1>3, <2>1 DEF DestroyAdmin
  <2> QED
    BY <1>1, <2>1, <2>2 DEF SignalInv, OneSignalIsSafe
<1> QED
  BY <1>2, <1>3 DEF DestroyAdmin

LEMMA SignalInductive ==
  ASSUME SignalInv, PoolInv, InsertedAreCached, LifeInv,
         [NextServer]_serverVars
  PROVE  SignalInv'
<1>0. TypeOK
  BY DEF PoolInv
<1>1. CASE InitializeAdmin \/ InitializeApiRoutes \/ KilledEarly \/ ServerClosed
  <2>1. UNCHANGED <<vars, shutdown>> /\ proc' # "crashed"
    BY <1>1 DEF InitializeAdmin, InitializeApiRoutes, KilledEarly, ServerClosed
  <2>2. proc' = "serving" /\ admin' = "closing" =>
          proc = "serving" /\ admin = "closing"
    BY <1>1 DEF InitializeAdmin, InitializeApiRoutes, KilledEarly, ServerClosed,
                LifeInv
  <2> QED
    BY <2>1, <2>2 DEF SignalInv, OneSignalIsSafe, vars, sourceVars, closeVars
<1>2. ASSUME NEW c \in Call, NEW t \in Requested, Arrive(c, t)
      PROVE  SignalInv'
  BY <1>0, <1>2, SignalPool DEF Arrive
<1>3. ASSUME NEW c \in Call,
             Handle(c) \/ Respond(c) \/ Abort(c) \/ EndIdle(c)
      PROVE  SignalInv'
  BY <1>0, <1>3, SignalPool DEF Handle, Respond, Abort, EndIdle, lifeVars
<1>4. ASSUME NEW k \in Closer, Shutdown(k)
      PROVE  SignalInv'
  BY <1>4 DEF Shutdown, LifeInv, SignalInv, OneSignalIsSafe, vars, sourceVars,
              closeVars
<1>5. ASSUME NEW k \in Closer, Exit(k)
      PROVE  SignalInv'
  BY <1>5 DEF Exit, SignalInv, OneSignalIsSafe, vars, sourceVars, closeVars
<1>6. ASSUME NEW t \in Tenant, NEW d \in Domain, Registry(t, d)
      PROVE  SignalInv'
  BY <1>0, <1>6, SignalPool DEF Registry, lifeVars
<1>7. CASE UNCHANGED serverVars
  BY <1>0, <1>7, SignalPool DEF serverVars, lifeVars
<1> QED
  BY <1>1, <1>2, <1>3, <1>4, <1>5, <1>6, <1>7, SignalCloseTenants,
     SignalDestroyAdmin DEF NextServer, Callback

\* However many tenants, requests and closings there are, one callback of
\* server.close never makes the process fail.
THEOREM OneSignalAlwaysSafe == SpecServer => []OneSignalIsSafe
<1>1. SpecServer => []LifeInv
  BY LifeInit, LifeInductive, ServerRunsPool, TypeCorrect, PTL DEF SpecServer
<1>2. Init => InsertedAreCached
  BY DEF Init, InsertedAreCached
<1>3. Spec => []InsertedAreCached
  BY <1>2, InsertedInductive, PoolAlways, PTL DEF Spec
<1>4. SpecServer => []SignalInv
  BY <1>1, <1>3, SignalInit, SignalInductive, ServerRunsPool, PoolAlways, PTL
     DEF SpecServer
<1>5. SignalInv => OneSignalIsSafe
  BY DEF SignalInv
<1> QED
  BY <1>4, <1>5, PTL

-----------------------------------------------------------------------------
(* A graceful end.  As long as callers ask by id, a closeAll that reaches   *)
(* the end of its loop leaves no DataSource behind that was handed out.     *)

\* What a closeAll is destroying is where its iteration stands, nobody else
\* destroys it, and whatever is behind is destroyed.
DestroyInv ==
  /\ \A s \in Call : life[s] = "closing" =>
       \E j \in Closer : closing[j] = "destroying" /\ victim[j] = s
  /\ \A j \in Closer : closing[j] = "destroying" =>
       /\ at[j] \in 1 .. Len(inserted)
       /\ connections[inserted[at[j]]] = victim[j] /\ life[victim[j]] = "closing"
       /\ \A i \in 1 .. (at[j] - 1) : ~IsInitialized(connections[inserted[i]])
  /\ \A j \in Closer : closing[j] = "next" =>
       \A i \in 1 .. at[j] : ~IsInitialized(connections[inserted[i]])
  /\ \A j, k \in Closer :
       (closing[j] = "destroying" /\ closing[k] = "destroying"
        /\ victim[j] = victim[k]) => j = k

LEMMA DestroyInit == Init => DestroyInv
<1> SUFFICES ASSUME Init PROVE DestroyInv
  OBVIOUS
<1>1. /\ \A s \in Call : life[s] = "none"
      /\ \A j \in Closer : closing[j] = "idle"
  BY DEF Init
<1> QED
  BY <1>1 DEF DestroyInv

LEMMA DestroyFrame ==
  ASSUME DestroyInv, UNCHANGED <<life, connections, inserted, closeVars>>
  PROVE  DestroyInv'
BY DEF DestroyInv, closeVars, IsInitialized

\* The steps of calls leave what is being destroyed alone.
LEMMA DestroyAdvance ==
  ASSUME KeepInv, DestroyInv, NEW c \in Call, Advance(c)
  PROVE  DestroyInv'
<1> USE NoneIsNew DEF KeepInv, PoolInv, TypeOK
<1>1. UNCHANGED closeVars
  BY DEF Advance, LookupTenant, Initialize, RunMigrations, Settle, Resume
<1>2. \A i \in 1 .. Len(inserted) :
        connections[inserted[i]] \in Call /\ Created(connections[inserted[i]])
  BY DEF PassedIsDestroyed, CreatedIsCached, CachedIsBuilt, Built, Key
<1>3. CASE LookupTenant(c) \/ Settle(c) \/ Resume(c)
  <2>1. UNCHANGED <<life, connections, inserted>>
    BY <1>3 DEF LookupTenant, Settle, Resume, mapVars, sourceVars
  <2> QED
    BY <1>1, <2>1, DestroyFrame
<1>4. CASE Initialize(c)
  <2>1. /\ UNCHANGED <<connections, inserted>> /\ pc[c] = "initialize"
        /\ life[c] = "none"
        /\ \A s \in Call : s # c => life'[s] = life[s]
        /\ life'[c] \in {"none", "open"}
    BY <1>4 DEF Initialize, mapVars, StageOf
  <2>2. \A i \in 1 .. Len(inserted) : connections[inserted[i]] # c
    BY <1>2, <2>1 DEF Created
  <2>3. \A i \in 1 .. Len(inserted) :
          life'[connections[inserted[i]]] = life[connections[inserted[i]]]
    BY <1>2, <2>1, <2>2
  <2>4. \A j \in Closer : at[j] \in Nat /\ at[j] <= Len(inserted)
    BY DEF PassedIsDestroyed
  <2>5. \A j \in Closer : closing[j] = "destroying" => life'[victim[j]] = "closing"
    BY <2>3 DEF DestroyInv
  <2> HIDE DEF KeepInv, PoolInv, TypeOK
  <2>6. UNCHANGED <<closing, at, victim>>
    BY <1>1 DEF closeVars
  <2>7. \A s \in Call : life'[s] = "closing" => life[s] = "closing"
    BY <2>1
  <2>8. \A i \in 1 .. Len(inserted) : ~IsInitialized(connections[inserted[i]]) =>
          life'[connections[inserted[i]]] \notin {"open", "closing"}
    BY <2>3 DEF IsInitialized
  <2>9. ASSUME NEW j \in Closer, closing[j] = "destroying"
        PROVE  \A i \in 1 .. (at[j] - 1) :
                 life'[connections[inserted[i]]] \notin {"open", "closing"}
    BY <2>4, <2>8, <2>9 DEF DestroyInv
  <2>10. ASSUME NEW j \in Closer, closing[j] = "next"
         PROVE  \A i \in 1 .. at[j] :
                  life'[connections[inserted[i]]] \notin {"open", "closing"}
    BY <2>4, <2>8, <2>10 DEF DestroyInv
  <2> QED
    BY <2>1, <2>5, <2>6, <2>7, <2>9, <2>10 DEF DestroyInv, IsInitialized
<1>5. CASE RunMigrations(c)
  <2>1. UNCHANGED life /\ pc[c] = "migrate"
    BY <1>5 DEF RunMigrations, sourceVars
  <2>2. /\ home[c] \in Tenant /\ alias[c] \in Domain \ Tenant
        /\ connections[home[c]] = None
    BY <2>1, HomeIsKey DEF CreatedIsCached, Body
  <2>3. \/ UNCHANGED <<connections, inserted>>
        \/ /\ connections' = [connections EXCEPT ![home[c]] = c, ![alias[c]] = c]
           /\ inserted' = Append(inserted, home[c])
    BY <1>5, <2>2 DEF RunMigrations
  <2>4. \A i \in 1 .. Len(inserted) : /\ inserted'[i] = inserted[i]
                                      /\ connections'[inserted'[i]] = connections[inserted[i]]
    <3>1. CASE UNCHANGED <<connections, inserted>>
      BY <3>1
    <3>2. CASE /\ connections' = [connections EXCEPT ![home[c]] = c, ![alias[c]] = c]
               /\ inserted' = Append(inserted, home[c])
      <4>1. \A i \in 1 .. Len(inserted) : inserted[i] \in Tenant /\ inserted[i] # home[c]
        BY <2>2 DEF PassedIsDestroyed
      <4>2. \A i \in 1 .. Len(inserted) : inserted'[i] = inserted[i]
        BY <2>2, <3>2
      <4> QED
        BY <2>2, <3>2, <4>1, <4>2 DEF Key
    <3> QED
      BY <2>3, <3>1, <3>2
  <2>5. Len(inserted') \in Nat /\ Len(inserted) \in Nat /\ Len(inserted) <= Len(inserted')
    BY <2>2, <2>3
  <2>6. \A j \in Closer : at[j] \in Nat /\ at[j] <= Len(inserted)
    BY DEF PassedIsDestroyed
  <2> HIDE DEF KeepInv, PoolInv, TypeOK
  <2>7. ASSUME NEW j \in Closer, closing[j] = "destroying"
        PROVE  /\ at[j] \in 1 .. Len(inserted')
               /\ connections'[inserted'[at[j]]] = victim[j]
               /\ life[victim[j]] = "closing"
               /\ \A i \in 1 .. (at[j] - 1) :
                    life[connections'[inserted'[i]]] \notin {"open", "closing"}
    <3>1. /\ at[j] \in 1 .. Len(inserted)
          /\ connections[inserted[at[j]]] = victim[j] /\ life[victim[j]] = "closing"
          /\ \A i \in 1 .. (at[j] - 1) :
               life[connections[inserted[i]]] \notin {"open", "closing"}
      BY <2>7 DEF DestroyInv, IsInitialized
    <3>2. \A i \in 1 .. (at[j] - 1) : i \in 1 .. Len(inserted)
      BY <2>5, <2>6
    <3>3. at[j] \in 1 .. Len(inserted')
      BY <2>5, <3>1
    <3> QED
      BY <2>4, <3>1, <3>2, <3>3
  <2>8. ASSUME NEW j \in Closer, closing[j] = "next", NEW i \in 1 .. at[j]
        PROVE  life[connections'[inserted'[i]]] \notin {"open", "closing"}
    <3>1. i \in 1 .. Len(inserted)
      BY <2>5, <2>6
    <3>2. life[connections[inserted[i]]] \notin {"open", "closing"}
      BY <2>8 DEF DestroyInv, IsInitialized
    <3> QED
      BY <2>4, <3>1, <3>2
  <2>9. UNCHANGED <<closing, at, victim>>
    BY <1>1 DEF closeVars
  <2> QED
    BY <2>1, <2>7, <2>8, <2>9 DEF DestroyInv, IsInitialized
<1> QED
  BY <1>3, <1>4, <1>5 DEF Advance

\* At the end of the loop nothing is initialized, behind or ahead.
LEMMA ClearedIsClosed ==
  ASSUME KeepInv, DestroyInv, NEW k \in Closer, closing[k] \in {"idle", "next"},
         Ahead(k) = {}
  PROVE  \A i \in 1 .. Len(inserted) : ~IsInitialized(connections[inserted[i]])
<1>1. at[k] \in Nat /\ Len(inserted) \in Nat
  BY DEF KeepInv, PoolInv, TypeOK
<1>2. closing[k] = "idle" => at[k] = 0
  BY DEF KeepInv, PassedIsDestroyed
<1>3. \A i \in 1 .. at[k] : ~IsInitialized(connections[inserted[i]])
  BY <1>1, <1>2 DEF DestroyInv
<1>4. \A i \in (at[k] + 1) .. Len(inserted) : ~IsInitialized(connections[inserted[i]])
  BY DEF Ahead
<1> QED
  BY <1>1, <1>3, <1>4

LEMMA DestroyIterate ==
  ASSUME KeepInv, DestroyInv, NEW k \in Closer, closing[k] \in {"idle", "next"},
         Iterate(k)
  PROVE  DestroyInv'
<1> USE NoneIsNew DEF KeepInv, PoolInv, TypeOK
<1>1. \A i \in 1 .. Len(inserted) : connections[inserted[i]] \in Call
  BY DEF PassedIsDestroyed, CachedIsBuilt, Built, Key
<1>2. CASE ClearMaps(k)
  <2>1. \A j \in Closer : closing[j] # "destroying"
    <3>1. \A i \in 1 .. Len(inserted) : ~IsInitialized(connections[inserted[i]])
      BY <1>2, ClearedIsClosed DEF ClearMaps
    <3> QED
      BY <3>1, SMTT(30) DEF DestroyInv, IsInitialized
  <2>2. /\ at' = [j \in Closer |-> 0] /\ closing' = [closing EXCEPT ![k] = "done"]
        /\ UNCHANGED <<life, victim>>
    BY <1>2 DEF ClearMaps
  <2> QED
    BY <2>1, <2>2 DEF DestroyInv
<1>3. CASE DestroyNext(k)
  <2>1. PICK i \in Ahead(k) :
          LET s == connections[inserted[i]]
          IN  /\ \A j \in Ahead(k) : i <= j
              /\ at' = [at EXCEPT ![k] = i]
              /\ \/ /\ life[s] = "open"
                    /\ life' = [life EXCEPT ![s] = "closing"]
                    /\ victim' = [victim EXCEPT ![k] = s]
                    /\ closing' = [closing EXCEPT ![k] = "destroying"]
                 \/ /\ life[s] = "closing"
                    /\ closing' = [closing EXCEPT ![k] = "threw"]
                    /\ UNCHANGED <<life, victim>>
              /\ UNCHANGED <<connections, inserted>>
    BY <1>3 DEF DestroyNext
  <2>2. PICK s \in Call : s = connections[inserted[i]]
    BY <1>1 DEF Ahead
  <2>3. i \in 1 .. Len(inserted) /\ at[k] < i /\ i \in Nat
    BY DEF Ahead
  <2>4. UNCHANGED <<connections, inserted>> /\ at' = [at EXCEPT ![k] = i]
    BY <2>1
  <2>5. CASE /\ life[s] = "closing"
             /\ closing' = [closing EXCEPT ![k] = "threw"]
             /\ UNCHANGED <<life, victim>>
    <3>1. \A j \in Closer : closing'[j] \in {"destroying", "next"} =>
            j # k /\ closing'[j] = closing[j] /\ at'[j] = at[j] /\ victim'[j] = victim[j]
      BY <2>4, <2>5
    <3>2. \A j \in Closer : closing[j] = "destroying" =>
            closing'[j] = "destroying" /\ victim'[j] = victim[j]
      BY <2>5
    <3> QED
      BY <2>4, <2>5, <3>1, <3>2 DEF DestroyInv, IsInitialized
  <2>6. CASE /\ life[s] = "open"
             /\ life' = [life EXCEPT ![s] = "closing"]
             /\ victim' = [victim EXCEPT ![k] = s]
             /\ closing' = [closing EXCEPT ![k] = "destroying"]
    <3>1. /\ closing'[k] = "destroying" /\ victim'[k] = s /\ at'[k] = i
          /\ \A j \in Closer : j # k =>
               closing'[j] = closing[j] /\ at'[j] = at[j] /\ victim'[j] = victim[j]
      BY <2>4, <2>6
    <3>2. life'[s] = "closing" /\ \A u \in Call : u # s => life'[u] = life[u]
      BY <2>6
    <3>3. \A j \in Closer : closing[j] = "destroying" => victim[j] # s /\ victim[j] \in Call
      <4>1. ASSUME NEW j \in Closer, closing[j] = "destroying"
            PROVE  victim[j] # s /\ victim[j] \in Call
        BY <1>1, <2>6, <4>1 DEF DestroyInv
      <4> QED
        BY <4>1
    <3>4. \A n \in 1 .. Len(inserted) :
            ~IsInitialized(connections[inserted[n]]) =>
              life'[connections[inserted[n]]] = life[connections[inserted[n]]]
      BY <1>1, <2>6, <3>2 DEF IsInitialized
    <3>5. \A n \in 1 .. (i - 1) : ~IsInitialized(connections[inserted[n]])
      <4> SUFFICES ASSUME NEW n \in 1 .. (i - 1)
                   PROVE  ~IsInitialized(connections[inserted[n]])
        OBVIOUS
      <4>1. CASE n <= at[k]
        BY <2>3, <4>1 DEF DestroyInv, PassedIsDestroyed
      <4>2. CASE ~(n <= at[k])
        <5>1. n \in (at[k] + 1) .. Len(inserted) /\ ~(i <= n)
          BY <2>3, <4>2
        <5>2. n \notin Ahead(k)
          BY <2>1, <5>1
        <5> QED
          BY <5>1, <5>2 DEF Ahead
      <4> QED
        BY <4>1, <4>2
    <3>6. \A j \in Closer : at[j] \in Nat /\ at[j] <= Len(inserted)
      BY DEF PassedIsDestroyed
    <3>7. \A u \in Call : life'[u] = "closing" =>
            \E j \in Closer : closing'[j] = "destroying" /\ victim'[j] = u
      <4> SUFFICES ASSUME NEW u \in Call, life'[u] = "closing"
                   PROVE  \E j \in Closer : closing'[j] = "destroying" /\ victim'[j] = u
        OBVIOUS
      <4>1. CASE u = s
        BY <3>1, <4>1
      <4>2. CASE u # s
        <5>1. PICK j \in Closer : closing[j] = "destroying" /\ victim[j] = u
          BY <3>2, <4>2 DEF DestroyInv
        <5> QED
          BY <3>1, <5>1
      <4> QED
        BY <4>1, <4>2
    <3>8. ASSUME NEW j \in Closer, closing'[j] = "destroying"
          PROVE  /\ at'[j] \in 1 .. Len(inserted)
                 /\ connections[inserted[at'[j]]] = victim'[j]
                 /\ life'[victim'[j]] = "closing"
                 /\ \A n \in 1 .. (at'[j] - 1) :
                      life'[connections[inserted[n]]] \notin {"open", "closing"}
      <4>1. CASE j = k
        <5>1. \A n \in 1 .. (i - 1) : n \in 1 .. Len(inserted)
          BY <2>3
        <5> QED
          BY <2>2, <2>3, <3>1, <3>2, <3>4, <3>5, <4>1, <5>1 DEF IsInitialized
      <4>2. CASE j # k
        <5>1. /\ closing[j] = "destroying" /\ at'[j] = at[j] /\ victim'[j] = victim[j]
          BY <3>1, <3>8, <4>2
        <5>2. \A n \in 1 .. (at[j] - 1) : n \in 1 .. Len(inserted)
          BY <3>6
        <5>3. life'[victim[j]] = "closing"
          BY <3>2, <3>3, <5>1 DEF DestroyInv
        <5> QED
          BY <3>4, <5>1, <5>2, <5>3, SMTT(30) DEF DestroyInv, IsInitialized
      <4> QED
        BY <4>1, <4>2
    <3>9. ASSUME NEW j \in Closer, closing'[j] = "next", NEW n \in 1 .. at'[j]
          PROVE  life'[connections[inserted[n]]] \notin {"open", "closing"}
      <4>1. j # k /\ closing[j] = "next" /\ at'[j] = at[j]
        BY <3>1, <3>9
      <4>2. n \in 1 .. Len(inserted) /\ ~IsInitialized(connections[inserted[n]])
        BY <3>6, <3>9, <4>1 DEF DestroyInv
      <4> QED
        BY <3>4, <4>2 DEF IsInitialized
    <3>10. ASSUME NEW j \in Closer, NEW l \in Closer, closing'[j] = "destroying",
                  closing'[l] = "destroying", victim'[j] = victim'[l]
           PROVE  j = l
      BY <3>1, <3>3, <3>10 DEF DestroyInv
    <3> QED
      BY <2>4, <3>7, <3>8, <3>9, <3>10 DEF DestroyInv, IsInitialized
  <2> QED
    BY <2>1, <2>2, <2>5, <2>6
<1> QED
  BY <1>2, <1>3 DEF Iterate

LEMMA DestroyDestroyed ==
  ASSUME KeepInv, DestroyInv, NEW k \in Closer, Destroyed(k)
  PROVE  DestroyInv'
<1> USE NoneIsNew DEF KeepInv, PoolInv, TypeOK
<1> DEFINE s == victim[k]
<1>1. /\ closing[k] = "destroying" /\ closing' = [closing EXCEPT ![k] = "next"]
      /\ life' = [life EXCEPT ![s] = "closed"]
      /\ UNCHANGED <<connections, inserted, at, victim>>
  BY DEF Destroyed, mapVars
<1>2. \A i \in 1 .. Len(inserted) : connections[inserted[i]] \in Call
  BY DEF PassedIsDestroyed, CachedIsBuilt, Built, Key
<1>3. s \in Call /\ at[k] \in 1 .. Len(inserted) /\ connections[inserted[at[k]]] = s
  BY <1>1, <1>2 DEF DestroyInv
<1>4. life'[s] = "closed" /\ \A u \in Call : u # s => life'[u] = life[u]
  BY <1>1, <1>3
<1>5. /\ closing'[k] = "next"
      /\ \A j \in Closer : j # k => closing'[j] = closing[j]
  BY <1>1
<1>6. \A j \in Closer : j # k /\ closing[j] = "destroying" => victim[j] # s
  BY <1>1 DEF DestroyInv
<1>7. \A j \in Closer : at[j] \in Nat /\ at[j] <= Len(inserted)
  BY DEF PassedIsDestroyed
<1> HIDE DEF s
<1>8. \A n \in 1 .. Len(inserted) : ~IsInitialized(connections[inserted[n]]) =>
        life'[connections[inserted[n]]] \notin {"open", "closing"}
  BY <1>2, <1>4 DEF IsInitialized
<1>9. \A u \in Call : life'[u] = "closing" =>
        \E j \in Closer : closing'[j] = "destroying" /\ victim[j] = u
  <2> SUFFICES ASSUME NEW u \in Call, life'[u] = "closing"
               PROVE  \E j \in Closer : closing'[j] = "destroying" /\ victim[j] = u
    OBVIOUS
  <2>1. u # s /\ life[u] = "closing"
    BY <1>4
  <2>2. PICK j \in Closer : closing[j] = "destroying" /\ victim[j] = u
    BY <2>1 DEF DestroyInv
  <2> QED
    BY <1>5, <2>1, <2>2 DEF s
<1>10. ASSUME NEW j \in Closer, closing'[j] = "destroying"
       PROVE  /\ at[j] \in 1 .. Len(inserted)
              /\ connections[inserted[at[j]]] = victim[j]
              /\ life'[victim[j]] = "closing"
              /\ \A n \in 1 .. (at[j] - 1) :
                   life'[connections[inserted[n]]] \notin {"open", "closing"}
  <2>1. j # k /\ closing[j] = "destroying"
    BY <1>5, <1>10
  <2>2. \A n \in 1 .. (at[j] - 1) : n \in 1 .. Len(inserted)
    BY <1>7
  <2>3. victim[j] \in Call /\ victim[j] # s /\ life[victim[j]] = "closing"
    BY <1>2, <1>6, <2>1 DEF DestroyInv
  <2> QED
    BY <1>4, <1>8, <2>1, <2>2, <2>3 DEF DestroyInv
<1>11. ASSUME NEW j \in Closer, closing'[j] = "next", NEW n \in 1 .. at[j]
       PROVE  life'[connections[inserted[n]]] \notin {"open", "closing"}
  <2>1. n \in 1 .. Len(inserted)
    BY <1>7
  <2>2. CASE j = k /\ n = at[k]
    BY <1>3, <1>4, <2>2
  <2>3. CASE j = k /\ n # at[k]
    <3>1. n \in 1 .. (at[k] - 1)
      BY <1>7, <2>3
    <3> QED
      BY <1>1, <1>8, <2>1, <3>1 DEF DestroyInv
  <2>4. CASE j # k
    BY <1>5, <1>8, <1>11, <2>1, <2>4 DEF DestroyInv
  <2> QED
    BY <2>2, <2>3, <2>4
<1>12. \A j, l \in Closer : closing'[j] = "destroying" /\ closing'[l] = "destroying"
                            /\ victim[j] = victim[l] => j = l
  BY <1>5 DEF DestroyInv
<1> HIDE DEF KeepInv, PoolInv, TypeOK
<1> QED
  BY <1>1, <1>9, <1>10, <1>11, <1>12 DEF DestroyInv, IsInitialized

LEMMA DestroyInductive ==
  ASSUME KeepInv, DestroyInv, [Next]_vars
  PROVE  DestroyInv'
<1>1. UNCHANGED <<life, connections, inserted, closeVars>> => DestroyInv'
  BY DestroyFrame
<1>2. ASSUME NEW t \in Tenant, NEW d \in Domain,
             InsertTenant(t, d) \/ RenameTenant(t, d)
      PROVE  DestroyInv'
  BY <1>1, <1>2 DEF InsertTenant, RenameTenant, mapVars, sourceVars
<1>3. ASSUME NEW c \in Call, NEW x \in Requested, GetConnection(c, x)
      PROVE  DestroyInv'
  BY <1>1, <1>3 DEF GetConnection, sourceVars
<1>4. ASSUME NEW k \in Closer, CloseAll(k) \/ CloseNext(k) \/ Destroyed(k)
      PROVE  DestroyInv'
  BY <1>4, DestroyIterate, DestroyDestroyed DEF CloseAll, CloseNext
<1>5. CASE UNCHANGED vars
  BY <1>1, <1>5 DEF vars, mapVars, sourceVars
<1> QED
  BY <1>2, <1>3, <1>4, <1>5, DestroyAdvance, Zenon DEF Next

\* Client c was given a DataSource, and its connection has come to an end.
Served(c) == pc[c] = "returned" /\ socket[c] = "ended"

\* Who was connected has had an answer; a closeAll that is through has closed
\* whatever DataSource a client was served with; and that closeAll is behind
\* whoever destroys the admin database, and behind the end of the process.
GraceInv ==
  /\ \A c \in Call : socket[c] \in {"idle", "ended"} => pc[c] \in {"returned", "threw"}
  /\ \A k \in Closer : closing[k] = "done" =>
       \A c \in Call : Served(c) => life[from[c]] = "closed"
  /\ \A k \in Closer : shutdown[k] = "admin" => closing[k] = "done"
  /\ proc = "exited" => admin = "closed" /\ \E k \in Closer : closing[k] = "done"

LEMMA GraceInit == InitServer => GraceInv
<1> SUFFICES ASSUME InitServer PROVE GraceInv
  OBVIOUS
<1>1. /\ \A c \in Call : socket[c] = "none"
      /\ \A k \in Closer : closing[k] = "idle" /\ shutdown[k] = "none"
      /\ proc = "starting"
  BY DEF InitServer, Init
<1> QED
  BY <1>1 DEF GraceInv

\* An answer stands, and what is closed stays closed.
LEMMA AnswersStand ==
  ASSUME PoolInv, [Next]_vars
  PROVE  /\ \A c \in Call : pc[c] \in {"returned", "threw"} =>
              pc'[c] = pc[c] /\ from'[c] = from[c]
         /\ \A s \in Call : life[s] = "closed" => life'[s] = "closed"
<1> USE DEF PoolInv, TypeOK
<1>1. CASE UNCHANGED <<callVars, life>>
  BY <1>1 DEF callVars
<1>2. ASSUME NEW c \in Call, NEW x \in Requested, GetConnection(c, x)
      PROVE  /\ \A e \in Call : pc[e] \in {"returned", "threw"} =>
                  pc'[e] = pc[e] /\ from'[e] = from[e]
             /\ UNCHANGED life
  BY <1>2 DEF GetConnection, GetCached, JoinPending, StartPending, sourceVars
<1>3. ASSUME NEW c \in Call, Advance(c)
      PROVE  /\ \A e \in Call : pc[e] \in {"returned", "threw"} =>
                  pc'[e] = pc[e] /\ from'[e] = from[e]
             /\ \A s \in Call : life[s] = "closed" => life'[s] = "closed"
  <2>1. pc[c] \notin {"returned", "threw"} /\ UNCHANGED from
    BY <1>3 DEF Advance, LookupTenant, Initialize, RunMigrations, Settle, Resume,
                Settled
  <2>2. \A e \in Call : e # c => pc'[e] = pc[e]
    BY <1>3 DEF Advance, LookupTenant, Initialize, RunMigrations, Settle, Resume
  <2>3. CASE Initialize(c)
    <3>1. life[c] = "none"
      BY <2>3 DEF Initialize, StageOf
    <3>2. \A s \in Call : s # c => life'[s] = life[s]
      BY <2>3 DEF Initialize
    <3> QED
      BY <2>1, <2>2, <3>1, <3>2
  <2>4. CASE ~Initialize(c)
    <3>1. UNCHANGED life
      BY <1>3, <2>4 DEF Advance, LookupTenant, RunMigrations, Settle, Resume,
                        sourceVars
    <3> QED
      BY <2>1, <2>2, <3>1
  <2> QED
    BY <2>3, <2>4
<1>4. ASSUME NEW k \in Closer, CloseAll(k) \/ CloseNext(k) \/ Destroyed(k)
      PROVE  /\ UNCHANGED callVars
             /\ \A s \in Call : life[s] = "closed" => life'[s] = "closed"
  BY <1>4 DEF CloseAll, CloseNext, Iterate, ClearMaps, DestroyNext, Destroyed
<1>5. ASSUME NEW t \in Tenant, NEW d \in Domain,
             InsertTenant(t, d) \/ RenameTenant(t, d)
      PROVE  UNCHANGED <<callVars, life>>
  BY <1>5 DEF InsertTenant, RenameTenant, sourceVars
<1> HIDE DEF PoolInv, TypeOK
<1> QED
  BY <1>1, <1>2, <1>3, <1>4, <1>5 DEF Next, vars, callVars, sourceVars

\* A closeAll that is through its loop has closed all that was handed out.
LEMMA LoopClosesAll ==
  ASSUME KeepInv, DestroyInv, NEW k \in Closer, closing[k] \in {"idle", "next"},
         Ahead(k) = {}, NEW c \in Call, pc[c] = "returned"
  PROVE  life[from[c]] = "closed"
<1>1. /\ from[c] \in Call /\ Created(from[c])
      /\ life[from[c]] \in {"open", "closing", "closed"}
  BY DEF KeepInv, PoolInv, TypeOK, StageOf, CreatedIsCached
<1>2. \A i \in 1 .. Len(inserted) :
        life[connections[inserted[i]]] \notin {"open", "closing"}
  BY ClearedIsClosed DEF IsInitialized
<1>3. life[from[c]] # "open"
  <2> SUFFICES ASSUME life[from[c]] = "open" PROVE FALSE
    OBVIOUS
  <2>1. home[from[c]] \in Tenant /\ connections[home[from[c]]] = from[c]
    BY <1>1 DEF KeepInv, CreatedIsCached
  <2>2. from[c] # None
    BY <1>1, NoneIsNew
  <2>3. PICK i \in 1 .. Len(inserted) : inserted[i] = home[from[c]]
    BY <2>1, <2>2 DEF KeepInv, PassedIsDestroyed
  <2> QED
    BY <1>2, <2>1, <2>3
<1>4. life[from[c]] # "closing"
  BY <1>1, <1>2 DEF DestroyInv
<1> QED
  BY <1>1, <1>3, <1>4

\* Steps of the server that leave the signals and closeAll alone.
LEMMA GraceFrame ==
  ASSUME GraceInv, KeepInv, [Next]_vars, UNCHANGED <<closing, shutdown>>,
         proc' # "exited",
         \A c \in Call : socket'[c] \in {"idle", "ended"} =>
           pc[c] \in {"returned", "threw"},
         \A k \in Closer : closing[k] = "done" =>
           \A c \in Call : socket'[c] = "ended" => socket[c] = "ended"
  PROVE  GraceInv'
<1>1. /\ \A c \in Call : pc[c] \in {"returned", "threw"} =>
           pc'[c] = pc[c] /\ from'[c] = from[c]
      /\ \A s \in Call : life[s] = "closed" => life'[s] = "closed"
  BY AnswersStand DEF KeepInv
<1>2. \A c \in Call : pc[c] = "returned" => from[c] \in Call
  BY DEF KeepInv, PoolInv, StageOf
<1>3. ASSUME NEW k \in Closer, closing'[k] = "done", NEW c \in Call,
             pc'[c] = "returned", socket'[c] = "ended"
      PROVE  life'[from'[c]] = "closed"
  <2>1. closing[k] = "done"
    BY <1>3
  <2>2. socket[c] = "ended"
    BY <1>3, <2>1
  <2>3. pc[c] \in {"returned", "threw"}
    BY <2>2 DEF GraceInv
  <2>4. pc[c] = "returned" /\ from'[c] = from[c]
    BY <1>1, <1>3, <2>3
  <2>5. life[from[c]] = "closed"
    BY <2>1, <2>2, <2>4 DEF GraceInv, Served
  <2> QED
    BY <1>1, <1>2, <2>4, <2>5
<1>4. \A c \in Call : socket'[c] \in {"idle", "ended"} => pc'[c] \in {"returned", "threw"}
  BY <1>1
<1>5. \A k \in Closer : shutdown'[k] = "admin" => closing'[k] = "done"
  BY DEF GraceInv
<1> QED
  BY <1>3, <1>4, <1>5 DEF GraceInv, Served

\* A closeAll takes a step.  The one that comes to its end finds every client
\* gone, and closes what they were served with.
LEMMA GraceCloseTenants ==
  ASSUME GraceInv, KeepInv, DestroyInv, LifeInv, [Next]_vars,
         NEW k \in Closer, CloseTenants(k)
  PROVE  GraceInv'
<1>1. /\ UNCHANGED <<socket, pc, from>> /\ proc' # "exited"
      /\ shutdown' = [shutdown EXCEPT ![k] = "tenants"]
      /\ closing[k] # "done"
  BY DEF CloseTenants, CloseAll, CloseNext, Iterate, Destroyed, callVars
<1>2. /\ \A s \in Call : life[s] = "closed" => life'[s] = "closed"
      /\ \A c \in Call : pc[c] = "returned" => from[c] \in Call
  BY AnswersStand DEF KeepInv, PoolInv, StageOf
<1>3. \A j \in Closer : j # k => closing'[j] = closing[j]
  BY DEF CloseTenants, CloseAll, CloseNext, Iterate, ClearMaps, DestroyNext,
         Destroyed, KeepInv, PoolInv, TypeOK
<1>4. closing'[k] = "done" =>
        UNCHANGED life /\ \A c \in Call : pc[c] = "returned" => life[from[c]] = "closed"
  <2>1. CASE ClearMaps(k) /\ closing[k] \in {"idle", "next"}
    BY <2>1, LoopClosesAll DEF ClearMaps
  <2>2. CASE DestroyNext(k)
    BY <2>2 DEF DestroyNext, KeepInv, PoolInv, TypeOK
  <2>3. CASE Destroyed(k)
    BY <2>3 DEF Destroyed, KeepInv, PoolInv, TypeOK
  <2> QED
    BY <2>1, <2>2, <2>3 DEF CloseTenants, CloseAll, CloseNext, Iterate
<1>5. ASSUME NEW j \in Closer, closing'[j] = "done", NEW c \in Call,
             pc[c] = "returned", socket[c] = "ended"
      PROVE  life'[from[c]] = "closed"
  BY <1>2, <1>3, <1>4, <1>5 DEF GraceInv, Served
<1>6. \A j \in Closer : shutdown'[j] = "admin" => closing'[j] = "done"
  BY <1>1, <1>3 DEF GraceInv, LifeInv
<1> QED
  BY <1>1, <1>5, <1>6 DEF GraceInv, Served

LEMMA GraceInductive ==
  ASSUME GraceInv, KeepInv, DestroyInv, LifeInv, [NextServer]_serverVars
  PROVE  GraceInv'
<1>0. [Next]_vars
  BY StepIsPoolStep
<1>1. \A k \in Closer : closing[k] = "done" =>
        \A c \in Call : socket[c] \notin {"open", "idle"}
  BY DEF LifeInv, Unbound
<1> USE DEF LifeInv
<1>2. CASE InitializeAdmin \/ InitializeApiRoutes \/ KilledEarly \/ ServerClosed
  <2>1. UNCHANGED <<vars, socket, shutdown>> /\ proc' # "exited"
    BY <1>2 DEF InitializeAdmin, InitializeApiRoutes, KilledEarly, ServerClosed
  <2> QED
    BY <1>0, <2>1, GraceFrame DEF vars, closeVars, GraceInv
<1>3. ASSUME NEW c \in Call, NEW t \in Requested, Arrive(c, t)
      PROVE  GraceInv'
  <2>1. UNCHANGED <<closing, shutdown>> /\ proc' # "exited" /\ pc[c] = "idle"
    BY <1>3 DEF Arrive, GetConnection, closeVars
  <2>2. \A e \in Call : socket'[e] \in {"idle", "ended"} => socket[e] \in {"idle", "ended"}
    BY <1>3 DEF Arrive
  <2>3. \A k \in Closer : closing[k] = "done" =>
          \A e \in Call : socket'[e] = "ended" => socket[e] = "ended"
    BY <1>1, <2>2
  <2> QED
    BY <1>0, <2>1, <2>2, <2>3, GraceFrame DEF GraceInv
<1>4. ASSUME NEW c \in Call, Handle(c)
      PROVE  GraceInv'
  <2>1. UNCHANGED <<closing, shutdown, socket>> /\ proc' # "exited"
    BY <1>4 DEF Handle, Advance, LookupTenant, Initialize, RunMigrations, Settle,
                Resume, closeVars, lifeVars
  <2> QED
    BY <1>0, <2>1, GraceFrame DEF GraceInv
<1>5. ASSUME NEW c \in Call, Respond(c) \/ Abort(c) \/ EndIdle(c)
      PROVE  GraceInv'
  <2>1. UNCHANGED <<closing, shutdown, pc>> /\ proc' # "exited"
    BY <1>5 DEF Respond, Abort, EndIdle, vars, closeVars, callVars
  <2>2. \A e \in Call : socket'[e] \in {"idle", "ended"} => pc[e] \in {"returned", "threw"}
    BY <1>5 DEF Respond, Abort, EndIdle, GraceInv
  <2>3. \A k \in Closer : closing[k] = "done" =>
          \A e \in Call : socket'[e] = "ended" => socket[e] = "ended"
    BY <1>1, <1>5 DEF Respond, Abort, EndIdle
  <2> QED
    BY <1>0, <2>1, <2>2, <2>3, GraceFrame
<1>6. ASSUME NEW k \in Closer, Shutdown(k)
      PROVE  GraceInv'
  <2>1. /\ UNCHANGED vars /\ proc' # "exited"
        /\ shutdown' = [shutdown EXCEPT ![k] = "registered"]
        /\ \A e \in Call : socket'[e] \in {"idle", "ended"} =>
             socket[e] \in {"idle", "ended"}
    BY <1>6 DEF Shutdown
  <2>2. \A j \in Closer : closing[j] = "done" =>
          \A e \in Call : socket'[e] = "ended" => socket[e] = "ended"
    BY <1>1, <2>1
  <2> QED
    BY <2>1, <2>2 DEF vars, closeVars, callVars, sourceVars, GraceInv, Served
<1>7. ASSUME NEW k \in Closer, DestroyAdmin(k)
      PROVE  GraceInv'
  BY <1>7 DEF DestroyAdmin, vars, closeVars, callVars, sourceVars, GraceInv, Served
<1>8. ASSUME NEW k \in Closer, Exit(k)
      PROVE  GraceInv'
  BY <1>8 DEF Exit, vars, closeVars, callVars, sourceVars, GraceInv, Served
<1>9. CASE UNCHANGED lifeVars /\ UNCHANGED <<callVars, sourceVars, closeVars>>
  BY <1>9 DEF lifeVars, callVars, sourceVars, closeVars, GraceInv, Served
<1>10. ASSUME NEW t \in Tenant, NEW d \in Domain, Registry(t, d)
       PROVE  GraceInv'
  BY <1>9, <1>10 DEF Registry, InsertTenant, RenameTenant
<1>11. CASE UNCHANGED serverVars
  BY <1>9, <1>11 DEF serverVars, vars
<1> QED
  BY <1>0, <1>2, <1>3, <1>4, <1>5, <1>6, <1>7, <1>8, <1>10, <1>11,
     GraceCloseTenants DEF NextServer, Callback

\* While callers ask by id, the process that ends gracefully has closed the
\* admin database and every DataSource a client was served with, for any
\* number of tenants, requests and signals, whatever handlers go on meanwhile.
THEOREM ExitAlwaysGraceful ==
  ASSUME Requested \subseteq Tenant
  PROVE  SpecServer => []ExitIsGraceful
<1>1. SpecServer => []LifeInv
  BY LifeInit, LifeInductive, ServerRunsPool, TypeCorrect, PTL DEF SpecServer
<1>2. KeepInv /\ [Next]_vars => KeepInv'
  BY KeepInductive
<1>3. Spec => []KeepInv
  BY <1>2, KeepInit, PTL DEF Spec
<1>4. Spec => []DestroyInv
  BY <1>3, DestroyInit, DestroyInductive, PTL DEF Spec
<1>5. SpecServer => []GraceInv
  BY <1>1, <1>3, <1>4, GraceInit, GraceInductive, ServerRunsPool, PTL
     DEF SpecServer
<1>6. GraceInv => ExitIsGraceful
  BY DEF GraceInv, Served, ExitIsGraceful
<1> QED
  BY <1>5, <1>6, PTL
=============================================================================
