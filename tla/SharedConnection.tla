-------------------------- MODULE SharedConnection --------------------------
(***************************************************************************)
(* What the tenant connection pool promises the code that asks it for a    *)
(* tenant's connection: however many requests ask at once, and however     *)
(* creation is retried, a tenant has one connection, the first one that    *)
(* came up, and every request that is served is served with that one.      *)
(* A request may fail, and is then told so; it is never given another      *)
(* tenant's connection.                                                    *)
(*                                                                         *)
(* The README of the repository states it as: TenantDbManager "lazily      *)
(* creates and caches a DataSource per tenant on first request".  Nothing  *)
(* is said here of lookups, promises or migrations: TenantDbManager shows  *)
(* how that promise is kept.                                               *)
(***************************************************************************)

CONSTANTS
  Tenant,      \* the tenants
  Call,        \* requests for a connection
  Connection,  \* connections that may be opened
  None         \* no tenant, no connection, no answer yet

VARIABLES
  shared,  \* shared[t]: the connection of tenant t, None before there is one
  asked,   \* asked[c]: the tenant request c is for, None before it is made
  answer   \* answer[c]: None, "failed" or the connection c was given

sharedVars == <<shared, asked, answer>>

Init ==
  /\ shared = [t \in Tenant |-> None]
  /\ asked = [c \in Call |-> None]
  /\ answer = [c \in Call |-> None]

\* A request is made.
Ask(c, t) ==
  /\ asked[c] = None
  /\ asked' = [asked EXCEPT ![c] = t]
  /\ UNCHANGED <<shared, answer>>

\* A request is made for a tenant that is already connected.
AskConnected(c, t) ==
  /\ asked[c] = None
  /\ shared[t] # None
  /\ asked' = [asked EXCEPT ![c] = t]
  /\ answer' = [answer EXCEPT ![c] = shared[t]]
  /\ UNCHANGED shared

\* The tenant's connection comes up, which happens once and only if some
\* request still waits for it.
Connect(t, s) ==
  /\ shared[t] = None
  /\ \E c \in Call : asked[c] = t /\ answer[c] = None
  /\ \A u \in Tenant : shared[u] # s
  /\ shared' = [shared EXCEPT ![t] = s]
  /\ UNCHANGED <<asked, answer>>

\* A waiting request gets its tenant's connection.
Serve(c) ==
  /\ asked[c] # None
  /\ answer[c] = None
  /\ shared[asked[c]] # None
  /\ answer' = [answer EXCEPT ![c] = shared[asked[c]]]
  /\ UNCHANGED <<shared, asked>>

\* A waiting request is told of a failure.
Fail(c) ==
  /\ asked[c] # None
  /\ answer[c] = None
  /\ answer' = [answer EXCEPT ![c] = "failed"]
  /\ UNCHANGED <<shared, asked>>

Next ==
  \/ \E c \in Call, t \in Tenant : Ask(c, t) \/ AskConnected(c, t)
  \/ \E t \in Tenant, s \in Connection : Connect(t, s)
  \/ \E c \in Call : Serve(c) \/ Fail(c)

Spec == Init /\ [][Next]_sharedVars
=============================================================================
