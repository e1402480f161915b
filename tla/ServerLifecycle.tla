-------------------------- MODULE ServerLifecycle --------------------------
(***************************************************************************)
(* The life of the server process, src/src/index.ts: it starts, serves     *)
(* requests for single tenants, and is shut down by signals.  The pool of  *)
(* TenantDbManager is part of it: a request is a call of getConnection,    *)
(* the query on what it gets and the response, and every signal leads to a *)
(* call of closeAll, so Call are the requests and Closer the signals.      *)
(*                                                                         *)
(* A connection of a client carries one request after another.  It may     *)
(* break while its handler goes on; Node's server reports that it is       *)
(* closed when no connection is left, whatever the handlers do.            *)
(***************************************************************************)
EXTENDS TenantDbManager

VARIABLES
  proc,     \* the process: where bootstrap is, or how it came to an end
  admin,    \* AdminDataSource
  server,   \* the HTTP server; "refused" if the port was not to be had
  socket,   \* socket[c]: the client's connection while it is request c's
  shutdown  \* shutdown[k]: where the callback of signal k is

lifeVars == <<proc, admin, server, socket, shutdown>>
serverVars == <<vars, lifeVars>>

Ended == {"failed", "killed", "exited", "crashed"}

ServerTypeOK ==
  /\ TypeOK
  /\ proc \in {"starting", "routing", "serving"} \cup Ended
  /\ admin \in {"none", "open", "closing", "closed"}
  /\ server \in {"none", "listening", "refused", "closing", "closed"}
  /\ socket \in [Call -> {"none", "open", "idle", "ended", "aborted"}]
  /\ shutdown \in [Closer -> {"none", "registered", "tenants", "admin"}]

-----------------------------------------------------------------------------
(* bootstrap                                                                *)

\* AdminDataSource.initialize() connects, or the process ends with status 1.
InitializeAdmin ==
  /\ proc = "starting"
  /\ \/ proc' = "routing" /\ admin' = "open"
     \/ proc' = "failed" /\ UNCHANGED admin
  /\ UNCHANGED <<vars, server, socket, shutdown>>

\* Express 5 calls listen's callback with an error as well, and this one takes
\* no notice of it: the process goes on, without a port.
Listen == server' \in {"listening", "refused"}

\* The files with routes are loaded, or one of them throws.
InitializeApiRoutes ==
  /\ proc = "routing"
  /\ \/ proc' = "serving" /\ Listen
     \/ proc' = "failed" /\ UNCHANGED server
  /\ UNCHANGED <<vars, admin, socket, shutdown>>

\* No handler is there for a signal that comes before the server listens.
KilledEarly ==
  /\ proc \in {"starting", "routing"}
  /\ proc' = "killed"
  /\ UNCHANGED <<vars, admin, server, socket, shutdown>>

-----------------------------------------------------------------------------
(* Requests and their connections                                           *)

\* Request c comes on a new connection, or on one whose last request e has
\* been answered.  The latter is possible after server.close(), too.
Arrive(c, t) ==
  /\ proc = "serving"
  /\ socket[c] = "none"
  /\ \/ /\ server = "listening"
        /\ socket' = [socket EXCEPT ![c] = "open"]
     \/ \E e \in Call :
          /\ socket[e] = "idle"
          /\ socket' = [socket EXCEPT ![c] = "open", ![e] = "ended"]
  /\ GetConnection(c, t)
  /\ UNCHANGED <<proc, admin, server, shutdown>>

\* The handler goes on, whether or not anybody is waiting for it.
Handle(c) ==
  /\ proc = "serving"
  /\ Advance(c)
  /\ UNCHANGED lifeVars

\* The query on the DataSource, and the response.
Respond(c) ==
  /\ proc = "serving"
  /\ socket[c] = "open"
  /\ pc[c] \in {"returned", "threw"}
  /\ socket' = [socket EXCEPT ![c] = "idle"]
  /\ UNCHANGED <<vars, proc, admin, server, shutdown>>

Abort(c) ==
  /\ proc = "serving"
  /\ socket[c] = "open"
  /\ socket' = [socket EXCEPT ![c] = "aborted"]
  /\ UNCHANGED <<vars, proc, admin, server, shutdown>>

\* Either side ends a connection that is idle: Node after five seconds.
EndIdle(c) ==
  /\ proc = "serving"
  /\ socket[c] = "idle"
  /\ socket' = [socket EXCEPT ![c] = "ended"]
  /\ UNCHANGED <<vars, proc, admin, server, shutdown>>

-----------------------------------------------------------------------------
(* shutdown                                                                 *)

\* server.close(callback) stops listening, ends the idle connections and
\* registers the callback, also when the server is closing or closed already.
Shutdown(k) ==
  /\ proc = "serving"
  /\ shutdown[k] = "none"
  /\ shutdown' = [shutdown EXCEPT ![k] = "registered"]
  /\ server' = IF server = "listening" THEN "closing" ELSE server
  /\ socket' = [c \in Call |-> IF socket[c] = "idle" THEN "ended" ELSE socket[c]]
  /\ UNCHANGED <<vars, proc, admin>>

\* Mutant of ServerClosed: it does not wait for requests in progress.
ClosedOverRequests ==
  /\ proc = "serving"
  /\ server = "closing"
  /\ \A c \in Call : socket[c] # "idle"
  /\ server' = "closed"
  /\ UNCHANGED <<vars, proc, admin, socket, shutdown>>

\* Mutant of ServerClosed: it waits for handlers nobody is connected to.
ClosedAfterHandlers ==
  /\ proc = "serving"
  /\ server = "closing"
  /\ \A c \in Call : socket[c] \notin {"open", "idle", "aborted"}
  /\ server' = "closed"
  /\ UNCHANGED <<vars, proc, admin, socket, shutdown>>

\* The last connection is gone and Node emits "close".
ServerClosed ==
  /\ proc = "serving"
  /\ server = "closing"
  /\ \A c \in Call : socket[c] \notin {"open", "idle"}
  /\ server' = "closed"
  /\ UNCHANGED <<vars, proc, admin, socket, shutdown>>

\* The callback calls closeAll.  If that throws, nobody catches it and Node
\* ends the process.
CloseTenants(k) ==
  /\ proc = "serving"
  /\ \/ /\ shutdown[k] = "registered"
        /\ server \in {"closed", "refused"}
        /\ CloseAll(k)
     \/ /\ shutdown[k] = "tenants"
        /\ CloseNext(k) \/ Destroyed(k)
  /\ shutdown' = [shutdown EXCEPT ![k] = "tenants"]
  /\ proc' = IF closing'[k] = "threw" THEN "crashed" ELSE proc
  /\ UNCHANGED <<admin, server, socket>>

\* Mutant of DestroyAdmin: the callback destroys it in two places.
DestroyAdminAgain(k) ==
  /\ proc = "serving"
  /\ shutdown[k] \in {"tenants", "admin"}
  /\ closing[k] = "done"
  /\ \/ /\ admin = "open"
        /\ admin' = "closing"
        /\ shutdown' = [shutdown EXCEPT ![k] = "admin"]
        /\ UNCHANGED proc
     \/ /\ admin = "closing"
        /\ proc' = "crashed"
        /\ UNCHANGED <<admin, shutdown>>
  /\ UNCHANGED <<vars, server, socket>>

\* AdminDataSource.destroy(), which throws while another one is under way.
DestroyAdmin(k) ==
  /\ proc = "serving"
  /\ shutdown[k] = "tenants"
  /\ closing[k] = "done"
  /\ \/ /\ admin = "open"
        /\ admin' = "closing"
        /\ shutdown' = [shutdown EXCEPT ![k] = "admin"]
        /\ UNCHANGED proc
     \/ /\ admin = "closing"
        /\ proc' = "crashed"
        /\ UNCHANGED <<admin, shutdown>>
  /\ UNCHANGED <<vars, server, socket>>

\* Mutant of Exit: the callback does not await closeAll.
ExitEarly(k) ==
  /\ proc = "serving"
  /\ shutdown[k] \in {"tenants", "admin"}
  /\ admin' = "closed"
  /\ proc' = "exited"
  /\ UNCHANGED <<vars, server, socket, shutdown>>

\* The pool of the admin database ends when its statements are answered;
\* process.exit(0).
Exit(k) ==
  /\ proc = "serving"
  /\ shutdown[k] = "admin"
  /\ \A c \in Call : pc[c] # "lookup"
  /\ admin' = "closed"
  /\ proc' = "exited"
  /\ UNCHANGED <<vars, server, socket, shutdown>>

-----------------------------------------------------------------------------
InitServer ==
  /\ Init
  /\ proc = "starting"
  /\ admin = "none"
  /\ server = "none"
  /\ socket = [c \in Call |-> "none"]
  /\ shutdown = [k \in Closer |-> "none"]

Registry(t, d) ==
  /\ InsertTenant(t, d) \/ RenameTenant(t, d)
  /\ UNCHANGED lifeVars

Callback(k) == CloseTenants(k) \/ DestroyAdmin(k) \/ Exit(k)

NextServer ==
  \/ InitializeAdmin \/ InitializeApiRoutes \/ KilledEarly
  \/ \E c \in Call, t \in Requested : Arrive(c, t)
  \/ \E c \in Call : Handle(c) \/ Respond(c) \/ Abort(c) \/ EndIdle(c)
  \/ ServerClosed
  \/ \E k \in Closer : Shutdown(k) \/ Callback(k)
  \/ \E t \in Tenant, d \in Domain : Registry(t, d)

SpecServer == InitServer /\ [][NextServer]_serverVars

\* Statements are answered, idle connections time out and Node runs what is
\* due.  Nothing is assumed of clients and of who sends signals.
FairSpecServer ==
  /\ SpecServer
  /\ \A c \in Call : /\ WF_serverVars(Handle(c))
                     /\ WF_serverVars(Respond(c))
                     /\ WF_serverVars(EndIdle(c))
  /\ WF_serverVars(ServerClosed)
  /\ \A k \in Closer : WF_serverVars(Callback(k))

-----------------------------------------------------------------------------
(* Properties                                                               *)

\* As long as a client waits for its answer the process runs, the admin
\* database is connected and the DataSource its handler was given is open,
\* however many signals arrive and whenever they do (lines 25-27).
NoRequestCutOff ==
  \A c \in Call : socket[c] = "open" =>
    /\ proc = "serving"
    /\ admin = "open"
    /\ pc[c] = "returned" => life[from[c]] = "open"

\* The process that says "Graceful shutdown complete" (line 28) has closed the
\* admin database and every DataSource that a client was served with,
\* although handlers of clients that have gone still cache new ones.
ExitIsGraceful ==
  proc = "exited" =>
    /\ admin = "closed"
    /\ \A c \in Call :
         pc[c] = "returned" /\ socket[c] = "ended" => life[from[c]] = "closed"

\* Only a repeated signal ends a running server with an error: one callback
\* alone destroys nothing twice (lines 23-34).
OneSignalIsSafe ==
  proc = "crashed" => \E j, k \in Closer :
    j # k /\ shutdown[j] # "none" /\ shutdown[k] # "none"

\* Once a signal is handled the process comes to an end, also when clients go
\* away in the middle of a request (lines 23-31).
SignalEndsProcess ==
  \A k \in Closer : (shutdown[k] # "none") ~> (proc \in Ended)
=============================================================================
