------------------------- MODULE MCTenantDbManager -------------------------
(* Small instances of TenantDbManager for TLC.  Calls are interchangeable,  *)
(* and so are the calls of closeAll.                                        *)
EXTENDS TenantDbManager, TLC

ById  == Tenant
ByAny == Tenant \cup Domain

Interchangeable == Permutations(Call) \cup Permutations(Closer)
=============================================================================
