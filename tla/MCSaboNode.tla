----------------------------- MODULE MCSaboNode -----------------------------
(***************************************************************************)
(* Constants of SaboNode for model checking: how the operating system      *)
(* numbers the cores of the node.                                          *)
(***************************************************************************)
EXTENDS SaboNode

\* Socket by socket: 0 1 2 ... | C C+1 ...
Contiguous ==
    [s \in Sockets |-> [j \in 0 .. CoresPerSocket - 1 |-> s * CoresPerSocket + j]]
=============================================================================
