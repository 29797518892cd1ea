------------------------------- MODULE MCPool -------------------------------
(* Pool on a small instance: accounts are interchangeable, as are logins    *)
(* and fingerprints, for the properties that hold them only to equality.    *)
EXTENDS Pool, TLC

Symmetry == Permutations(Uid) \cup Permutations(Fp)
==============================================================================
