--------------------------- MODULE MCNodeStartup ---------------------------
(***************************************************************************)
(* From the launch of a job to the first placements on one of its nodes:   *)
(* the tasks learn the size of their node from the list Slurm wrote, join  *)
(* through the shared segment, and bind their threads to the cores they    *)
(* are given.                                                              *)
(*                                                                         *)
(* One part moves at a time.  The list is changed before anybody joins.    *)
(* The tasks join on a node of a job whose list tells them that they are   *)
(* NumProcs.  The placements come in the first run, once everybody has     *)
(* joined; the machine matters to them only, and the runs that follow are  *)
(* those of one machine, the one whose first run got no further.           *)
(***************************************************************************)
EXTENDS MCShmJoin, MCSlurmTasks, MCNodeBinding

launchVars == <<job, text, edits>>

startupVars == <<vars, launchVars, bindingVars>>

\* The job whose node is followed further.
Followed == job = <<NumProcs>>

StartupInit == /\ JobInit /\ Init /\ BindingInit
               /\ Followed \/ machine = Uneven

\* What every task of the node is told.
ToldRight ==
    \A r \in Ranks : NodeViews([text |-> text, nodes |-> 1, node |-> 0, local |-> r])
                         = {[size |-> NumProcs, rank |-> r]}

Changed == JobNext /\ run = 0 /\ table = NoTable /\ UNCHANGED <<vars, bindingVars>>

\* The list is changed no further, or no other run is followed.
Over == /\ \/ edits = MaxEdits
           \/ Between /\ run = 1 /\ machine # Uneven
        /\ UNCHANGED startupVars

Joining == /\ Followed /\ edits = 0 /\ ToldRight
           /\ table = NoTable
           /\ Next /\ (run' > 1 => machine = Uneven)
           /\ UNCHANGED <<launchVars, bindingVars>>

Binding == /\ run = 1 /\ \A p \in Ranks : Joined(p)
           /\ BindingNext /\ UNCHANGED <<vars, launchVars>>

Startup == Changed \/ Over \/ Joining \/ Binding

StartupSpec == /\ StartupInit /\ [][Startup]_startupVars
               /\ \A p \in Ranks : WF_vars(Inside(p))
=============================================================================
