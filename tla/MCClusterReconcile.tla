------------------------- MODULE MCClusterReconcile -------------------------
(* Instances of ClusterReconcile: two control planes, in the order of their *)
(* names, and the secrets of secretHelpers.                                 *)
EXTENDS ClusterReconcile

MCNodeOrder == <<"n1", "n2">>

MCSecretOrder == <<"kubeconfig", "talosconfig">>
=============================================================================
