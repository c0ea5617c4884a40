----------------------------- MODULE Rendezvous -----------------------------
(***************************************************************************)
(* What the barrier of the shared memory module promises (the comments of  *)
(* src/modules/module_shm.c: "Wait right generation id", "Wait all         *)
(* contributions"): nobody goes past its n-th meeting before everybody has *)
(* come to it.  Coming and going past are separate: a process may come,    *)
(* leave, and wait only when it has something to do next.                  *)
(***************************************************************************)
EXTENDS Naturals

CONSTANT Ranks

VARIABLES arrived,  \* meetings each process has come to
          passed    \* meetings each process has gone past

vars == <<arrived, passed>>

Init == /\ arrived = [p \in Ranks |-> 0]
        /\ passed = [p \in Ranks |-> 0]

Arrive(p) == /\ passed[p] = arrived[p]
             /\ arrived' = [arrived EXCEPT ![p] = @ + 1]
             /\ UNCHANGED passed

Pass(p) == /\ passed[p] < arrived[p]
           /\ \A q \in Ranks : arrived[q] >= arrived[p]
           /\ passed' = [passed EXCEPT ![p] = @ + 1]
           /\ UNCHANGED arrived

Next == \E p \in Ranks : Arrive(p) \/ Pass(p)

Spec == Init /\ [][Next]_vars
=============================================================================
