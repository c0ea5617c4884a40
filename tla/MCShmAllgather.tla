--------------------------- MODULE MCShmAllgather ---------------------------
(***************************************************************************)
(* Constants of ShmAllgather for model checking: the world ranks of the    *)
(* processes of a node that is not the first.                              *)
(***************************************************************************)
EXTENDS ShmAllgather

SecondNode == [p \in Ranks |-> NumProcs + p]
=============================================================================
