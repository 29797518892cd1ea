------------------------------ MODULE MCTenancy ------------------------------
(* Tenancy on a small instance; users differ in their role. *)
EXTENDS Tenancy, TLC

Symmetry == Permutations(Name) \cup Permutations(Worker)
==============================================================================
