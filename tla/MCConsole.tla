----------------------------- MODULE MCConsole ------------------------------
(***************************************************************************)
(* Console for TLC: two windows on a session on KubeVirt, one on EC2.      *)
(***************************************************************************)
EXTENDS Console, TLC

CONSTANTS w1, w2, w3, lab, overflow

MCSessionOf == w1 :> lab @@ w2 :> lab @@ w3 :> overflow

=============================================================================
