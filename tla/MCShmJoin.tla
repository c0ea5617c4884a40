----------------------------- MODULE MCShmJoin -----------------------------
(* Constants of ShmJoin for model checking: the world ranks of the processes  *)
(* of a node that is not the first.                                           *)
EXTENDS ShmJoin

HundredthNode == [p \in Ranks |-> 99 * NumProcs + p]
=============================================================================
