---------------------------- MODULE MCNodeMachine ----------------------------
(***************************************************************************)
(* Instances of NodeMachine for TLC.                                       *)
(***************************************************************************)
EXTENDS NodeMachine, TLC

\* Releases and versions are only compared for equality.
Symmetry == Permutations(Releases) \union Permutations(Versions)

=============================================================================
