------------------------------ MODULE MCRegistry ------------------------------
(* Small instances of Registry and its reads for TLC. *)
EXTENDS RegistryReads, TLC

Symmetry ==
  Permutations(Users) \cup Permutations(Organizations) \cup Permutations(Requests)
=============================================================================
