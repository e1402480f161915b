--------------------------- MODULE MCTenantSchema ---------------------------
(* Small instances of TenantSchema for TLC.                                 *)
EXTENDS TenantSchema, TLC

CONSTANTS r1, r2, p1, p2, s1, s2

Interchangeable == Permutations({r1, r2}) \cup Permutations({s1, s2})
=============================================================================
