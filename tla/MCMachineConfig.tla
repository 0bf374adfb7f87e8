--------------------------- MODULE MCMachineConfig ---------------------------
EXTENDS MachineConfig

\* A patch of a place of the user's and of a secret, and one of the same place
\* that goes back to the old syntax as well.
MCFirstPatch == {<<<<"user">>, "a">>, <<<<"secret">>, "s">>}

MCPatches ==
    {MCFirstPatch,
     {<<<<"user">>, "b">>}
        \union {<<p, IF p[2] = "new" THEN Deleted ELSE "mine">> :
                    p \in {"kubelet", "hostname"} \X {"old", "new"}}}

=============================================================================
