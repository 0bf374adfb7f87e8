------------------------------- MODULE NodeList -------------------------------
(***************************************************************************)
(* The loop with which listEligibleNodes picks nodes out of a sorted list. *)
(***************************************************************************)
EXTENDS Naturals, Sequences

\* What the loop has picked after each round: the nodes of S, in the list's order.
Picked(list, S) ==
    LET eligible[i \in 0..Len(list)] ==
            IF i = 0 THEN <<>>
            ELSE IF list[i] \in S THEN Append(eligible[i - 1], list[i])
                 ELSE eligible[i - 1]
    IN eligible

PickNodes(list, S) == Picked(list, S)[Len(list)]

=============================================================================
