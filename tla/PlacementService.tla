-------------------------- MODULE PlacementService --------------------------
(***************************************************************************)
(* What decision_tree.h promises to its caller: every request is answered  *)
(* by a placement that over-commits the sockets least, or ends the program *)
(* when there is none at all.  The caller's socket and previous socket are *)
(* shifted by the answer and by nothing else.                              *)
(***************************************************************************)
EXTENDS Placement

CONSTANT Demands            \* what callers ask: threads per process

VARIABLES
    state,      \* "down", "idle", "search" or "failed"
    demand,     \* the num_threads of the core processes
    socket,     \* their socket_id
    prevSocket  \* their prev_socket_id

vars == <<state, demand, socket, prevSocket>>

Init == /\ state = "down"
        /\ demand = [p \in Ranks |-> 1]
        /\ socket = [p \in Ranks |-> -1]
        /\ prevSocket = [p \in Ranks |-> -1]

Start == /\ state = "down" /\ state' = "idle"
         /\ UNCHANGED <<demand, socket, prevSocket>>

Ask == /\ state = "idle" /\ state' = "search"
       /\ demand' \in Demands
       /\ UNCHANGED <<socket, prevSocket>>

Answer == /\ state = "search" /\ state' = "idle"
          /\ socket' \in BestPlacements(demand)
          /\ prevSocket' = socket
          /\ UNCHANGED demand

GiveUp == /\ state = "search" /\ state' = "failed"
          /\ Placements(demand) = {}
          /\ UNCHANGED <<demand, socket, prevSocket>>

Shutdown == /\ state = "idle" /\ state' = "down"
            /\ UNCHANGED <<demand, socket, prevSocket>>

Next == Start \/ Ask \/ Answer \/ GiveUp \/ Shutdown

\* A request is not left unanswered.
Responds == (state = "search") ~> (state # "search")

\* What an answer may be, apart from whether there is one.
Safety == Init /\ [][Next]_vars

Spec == Safety /\ Responds
=============================================================================
