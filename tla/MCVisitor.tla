------------------------------ MODULE MCVisitor ------------------------------
(***************************************************************************)
(* Instances of Visitor for TLC.                                           *)
(***************************************************************************)
EXTENDS Visitor, TLC

CONSTANTS v1, v2, q1, q2, s1, s2, e1

Symmetry ==
  Permutations(Visitors) \cup Permutations(Requests) \cup Permutations(SessionIds)
=============================================================================
