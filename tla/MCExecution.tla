---------------------------- MODULE MCExecution -----------------------------
(* Instances of Execution for TLC.                                         *)
EXTENDS Execution, TLC

Symmetry ==
  Permutations(Keys) \union Permutations(Accounts) \union Permutations(Requests)
=============================================================================
