---------------------------- MODULE MCDeployment -----------------------------
(***************************************************************************)
(* Instances of Deployment for TLC.                                        *)
(***************************************************************************)
EXTENDS Deployment, TLC

CONSTANTS m1, m2, api, worker

\* m1 is a run of an image with one file, m2 has two more.
OldAndNew == [m \in Migrators |-> IF m = m1 THEN 1 ELSE 3]

\* The new certificate is not yet valid on a slow clock when the rotation begins;
\* the old one expires, within the horizon; the other two do not.
Issue == [cert \in Identities |-> IF cert = "new" THEN 0 ELSE -1]
Expiry == [cert \in Identities |-> IF cert = "old" THEN 2 ELSE 4]

\* A clock may be behind.
Behind == {-1, 0}
=============================================================================
