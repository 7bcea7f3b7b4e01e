------------------------------ MODULE MCServer ------------------------------
(* An instance of Server: every node has drawn an id of its own, and one node *)
(* takes writes and is stopped.                                               *)
EXTENDS Server, TLC

CONSTANTS n1, n2

MCNodeID == [n \in Nodes |-> n]
MCMaxWrites == [n \in Nodes |-> IF n = n1 THEN 1 ELSE 0]
=============================================================================
