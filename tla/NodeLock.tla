------------------------------ MODULE NodeLock ------------------------------
(***************************************************************************)
(* What the Node controller promises about the nodes of one cluster: an    *)
(* operation takes the cluster when no other node has it, keeps it while   *)
(* it runs, and gives it back when it ends or is replaced.                 *)
(***************************************************************************)
CONSTANT Nodes

VARIABLE holders  \* the nodes that are being worked on

Init == holders = {}

Acquire(n) == holders = {} /\ holders' = {n}

Release(n) == n \in holders /\ holders' = holders \ {n}

Next == \E n \in Nodes : Acquire(n) \/ Release(n)

Spec == Init /\ [][Next]_holders

=============================================================================
