------------------------------ MODULE MCNodeOps ------------------------------
(***************************************************************************)
(* Instances of NodeOps for TLC.                                           *)
(***************************************************************************)
EXTENDS NodeOps, TLC

Symmetry == Permutations(Nodes)

=============================================================================
