-------------------------- MODULE MCDeliveryQueue ---------------------------
(***************************************************************************)
(* Instances of DeliveryQueue for TLC.  One tick stands for ten seconds of *)
(* lease and attempt context (3 and 2 ticks); the window of 24 hours is    *)
(* shortened to a few ticks so that leases, retries and age meet.          *)
(***************************************************************************)
EXTENDS DeliveryQueue, TLC

CONSTANTS w1, w2, c1, c2, c3, e1, e2

Symmetry == Permutations(ClaimIds) \cup Permutations(EventIds)

\* The clocks of the two workers, equal or one tick apart.
EqualClocks == [w \in Workers |-> 0]
SkewedClocks == [w \in Workers |-> IF w = w1 THEN 0 ELSE 1]

\* Every retry waits one tick.
OneTick == [n \in 1..MaxAttempts |-> {1}]
=============================================================================
