----------------------------- MODULE MCClusterOps -----------------------------
(***************************************************************************)
(* Instances of ClusterOps for TLC: n1 is the control plane.               *)
(***************************************************************************)
EXTENDS ClusterOps

CONSTANTS n1, n2

MCNodeOrder == <<n1, n2>>

=============================================================================
