--------------------------- MODULE MCCatalogCache ---------------------------
(* Two callers, and two files that share a sidecar: "t.rds" and "t.RDS", or *)
(* an explicit cache path used for both.                                   *)
EXTENDS CatalogCache, TLC

CONSTANTS p1, p2, a, b, shared

OneSidecar == [s \in {a, b} |-> shared]

Interchangeable == Permutations({p1, p2}) \cup Permutations({a, b})
=============================================================================
