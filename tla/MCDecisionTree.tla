--------------------------- MODULE MCDecisionTree ---------------------------
(***************************************************************************)
(* Demands for DecisionTree: what a round asks (at least a thread per      *)
(* process, at most a socket, every core of the node), and one that does   *)
(* not fit, everybody asking for more than a socket.  And the list its     *)
(* pool is kept in (src/common/list.c), which can do more than the search  *)
(* asks of it: it is worked on before the module starts.                   *)
(***************************************************************************)
EXTENDS DecisionTree, IntrusiveList

AllDemands ==
    {d \in [Ranks -> 1 .. CoresPerSocket] :
        SumFunction(d) >= NumSockets * CoresPerSocket}
    \cup {[p \in Ranks |-> CoresPerSocket + 1]}

SearchAndListInit == Init /\ ListInit

SearchStep == ListInit /\ Next /\ UNCHANGED listVars

ListStep == Init /\ ListNext /\ UNCHANGED vars

SearchOrList == SearchStep \/ ListStep

SearchAndList == /\ SearchAndListInit
                 /\ [][SearchOrList]_<<vars, listVars>>
                 /\ WF_vars(Step)
=============================================================================
