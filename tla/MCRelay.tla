------------------------------- MODULE MCRelay -------------------------------
(* Relay on a small instance: logins, requests and polls are interchangeable *)
(* where no liveness is checked.                                           *)
EXTENDS Relay, TLC

SymLogin == Permutations(Login) \cup Permutations(Request) \cup Permutations(Poll)
==============================================================================
