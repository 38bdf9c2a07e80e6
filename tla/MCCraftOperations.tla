-------------------------- MODULE MCCraftOperations --------------------------
(* CraftOperations on two accounts, with the interchangeable identifiers as  *)
(* symmetry sets for the runs that check no liveness.                        *)
EXTENDS CraftOperations, TLC

Symmetry == Permutations(Accounts) \cup Permutations(Operations) \cup Permutations(Clients)
=============================================================================
