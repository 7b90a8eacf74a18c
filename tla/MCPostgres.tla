----------------------------- MODULE MCPostgres -----------------------------
(* Two requests, one after the other or one during the other, and a          *)
(* container for each of them besides the one that may be there already.     *)
EXTENDS Postgres, TLC

CONSTANTS o1, o2, k1, k2, k3

MCOps == {o1, o2}
MCContainers == {k1, k2, k3}
Symmetry == Permutations(MCOps) \cup Permutations(MCContainers)
=============================================================================
