--------------------------- MODULE MCBlockerGraph ---------------------------
(* Sessions of the lock table.                                             *)
EXTENDS BlockerGraph

CONSTANTS p1, p2, p3, p4, t1, t2

Interchangeable == Permutations(Backends) \cup Permutations(Tags)

=============================================================================
