--------------------------- MODULE MCNodeBinding ---------------------------
(* Machines for NodeBinding: two sockets of two cores, numbered as hwloc does, *)
(* round robin over the sockets, or with the second hardware thread of a core  *)
(* next to the first; all cores allowed, or all but one; and a machine whose   *)
(* sockets differ.                                                             *)
EXTENDS NodeBinding

TwoByTwo == [s \in 0 .. 1 |-> 2]
Numberings == {[c \in 0 .. 3 |-> c],
               [c \in 0 .. 3 |-> (c % 2) * 2 + c \div 2],
               [c \in 0 .. 3 |-> 2 * c]}

Uneven == [cores |-> [s \in 0 .. 1 |-> 2 + s], osId |-> [c \in 0 .. 4 |-> c],
           allowed |-> 0 .. 4]

MCMachines == {Uneven} \cup [cores : {TwoByTwo}, osId : Numberings,
                             allowed : {0 .. 3, {0, 1, 3}}]
=============================================================================
