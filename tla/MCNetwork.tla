------------------------------ MODULE MCNetwork -----------------------------
(***************************************************************************)
(* Network for TLC: two nodes, one of them with most of the requests.      *)
(***************************************************************************)
EXTENDS Network

CONSTANTS n1, n2, r1, r2, r3, r4

MCDest == [r \in Request |-> IF r \in {r1, r2, r3} THEN n1 ELSE n2]
=============================================================================
