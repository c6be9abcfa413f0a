----------------------------- MODULE MCReceipt ------------------------------
(***************************************************************************)
(* Instances of Receipt for TLC.                                           *)
(***************************************************************************)
EXTENDS Receipt, TLC

CONSTANTS q1, q2, q3, k1, b1, b2

Symmetry ==
  Permutations(Requests) \cup Permutations(Keys) \cup Permutations(Bodies)
=============================================================================
