---------------------------- MODULE MCCredential ----------------------------
(* Credential with a few interchangeable callers. *)
EXTENDS Credential, TLC

Symmetry == Permutations(Caller)
==============================================================================
