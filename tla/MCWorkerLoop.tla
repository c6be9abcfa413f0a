---------------------------- MODULE MCWorkerLoop ----------------------------
(***************************************************************************)
(* Instances of WorkerLoop for TLC.  One tick stands for about twenty      *)
(* seconds.                                                                *)
(***************************************************************************)
EXTENDS WorkerLoop, TLC

CONSTANTS w1, w2, e1, e2, h1, h2

\* Every hint announces e1; e2 is found by polling.
SameEvent == [h \in Hints |-> e1]

Symmetry == Permutations(Workers)
=============================================================================
