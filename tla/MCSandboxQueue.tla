--------------------------- MODULE MCSandboxQueue ---------------------------
(***************************************************************************)
(* Instances of SandboxQueue for TLC.                                      *)
(***************************************************************************)
EXTENDS SandboxQueue, TLC

CONSTANTS w1, c1, c2, c3, e1, e2, s1, s2

Symmetry ==
  Permutations(ClaimIds) \cup Permutations(EventIds) \cup Permutations(SessionIds)

EqualClocks == [w \in Workers |-> 0]

\* Every retry waits one tick.
OneTick == [n \in 1..MaxAttempts |-> {1}]
=============================================================================
