------------------------------ MODULE MCTenant ------------------------------
(* Three commands: two may overlap, the third comes after them, or after a *)
(* death of the agent.                                                      *)
EXTENDS Tenant, TLC

MCContainers == 1..6
Symmetry == Permutations(Ops)
=============================================================================
