------------------------- MODULE MCPublishBehaviour -------------------------
(* Model-checking instances of PublishBehaviour. *)
EXTENDS PublishBehaviour

\* Every key is that of a node.
MCAllKeys == Key

\* The keys provided: two in the same half of the keyspace, all of them, or none.
MCProvided == {k \in Key : k[1] = 0}
MCAllProvided == Key
MCNone == {}

\* No target for the last of the smallest regions.
MCNoTarget == {[i \in 1..BitLen |-> 1]}
=============================================================================
