--------------------------- MODULE MCOrderService ---------------------------
(* Small instances of OrderService for TLC.                                 *)
EXTENDS OrderService, TLC

CONSTANTS t1, t2, o1, o2, o3, o4

\* Each database can hold two orders.
Owners == (o1 :> t1) @@ (o2 :> t1) @@ (o3 :> t2) @@ (o4 :> t2)

Statuses == (o1 :> "pending") @@ (o2 :> "completed") @@
            (o3 :> "pending") @@ (o4 :> "pending")

\* One order in each database.
OwnersOfTwo    == (o1 :> t1) @@ (o3 :> t2)
StatusesOfTwo == (o1 :> "pending") @@ (o3 :> "pending")

\* The clients: by one and by two, newest and oldest first, everything, and
\* one status of one tenant only.
Clients ==
  LET All == [limit |-> 1, order |-> "DESC", tenantIds |-> {}, status |-> {}]
  IN  {All, [All EXCEPT !.limit = 2, !.order = "ASC"],
       [All EXCEPT !.tenantIds = {t2}, !.status = {"pending"}]}

AllTimes == 1 .. 3
=============================================================================
