---------------------------- MODULE NodeProcesses ----------------------------
(***************************************************************************)
(* The processes of a node, as every part of the library numbers them:     *)
(* from zero, without gaps (comm_get_node_rank, comm_get_node_size).       *)
(***************************************************************************)
EXTENDS Integers

CONSTANT NumProcs           \* processes on the node

Ranks == 0 .. NumProcs - 1
=============================================================================
