------------------------------ MODULE Topology ------------------------------
(***************************************************************************)
(* The node, as the balancing knows it: its processes and its cores, by    *)
(* socket (src/common/topo.c, the communication layer's node size).        *)
(***************************************************************************)
EXTENDS NodeProcesses

CONSTANTS NumSockets,       \* num_sockets
          CoresPerSocket    \* num_cores_per_socket

ASSUME TopologyAssumption == /\ NumProcs \in Nat \ {0}
                             /\ NumSockets \in Nat \ {0}
                             /\ CoresPerSocket \in Nat \ {0}

Sockets  == 0 .. NumSockets - 1
NumCores == NumSockets * CoresPerSocket
=============================================================================
