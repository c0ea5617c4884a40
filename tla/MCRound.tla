------------------------------ MODULE MCRound ------------------------------
(***************************************************************************)
(* Feeds what a round computes its inputs, one change at a time: the share *)
(* computation every table of times up to MaxTime; the search every demand *)
(* a round can produce (at least one thread per process, every core of the *)
(* node asked for) from every previous placement.  While the inputs of one *)
(* change, those of the other stay what they were at first.                *)
(***************************************************************************)
EXTENDS Shares, Placement

CONSTANTS MaxTime,          \* bound on a measured time
          MaxThreads        \* bound on the threads one process asks for

ASSUME FeedAssumption == MaxTime \in Nat \ {0} /\ MaxThreads \in Nat

\* What the processes ask for together is an int, as in the code.
ASSUME WidthAssumption == NumProcs * MaxThreads + NumCores + NumProcs <= 2147483647

VARIABLES measured, wanted, cameFrom

inputs == <<measured, wanted, cameFrom>>

FirstTimes   == [p \in Ranks |-> [i \in Steps |-> 1]]
FirstDemand  == [p \in Ranks |-> IF p = 0 THEN NumCores ELSE 1]
FirstSockets == [p \in Ranks |-> -1]

FeedInit == measured = FirstTimes /\ wanted = FirstDemand /\ cameFrom = FirstSockets

CoversNode(demand) == SumFunction(demand) >= NumCores

Measure == \E p \in Ranks, i \in Steps, t \in 0 .. MaxTime :
    /\ wanted = FirstDemand /\ cameFrom = FirstSockets
    /\ measured' = [measured EXCEPT ![p][i] = t]
    /\ ~Undefined(measured')
    /\ UNCHANGED <<wanted, cameFrom>>

AskThreads == \E p \in Ranks, n \in 1 .. MaxThreads :
    /\ measured = FirstTimes
    /\ wanted' = [wanted EXCEPT ![p] = n]
    /\ CoversNode(wanted')
    /\ UNCHANGED <<measured, cameFrom>>

RunFrom == \E p \in Ranks, s \in Sockets :
    /\ measured = FirstTimes
    /\ cameFrom' = [cameFrom EXCEPT ![p] = s]
    /\ UNCHANGED <<measured, wanted>>

FeedNext == Measure \/ AskThreads \/ RunFrom

FeedSpec == FeedInit /\ [][FeedNext]_inputs
-----------------------------------------------------------------------------
(* Shares *)

\* Every process has at least a thread, however little it worked (sabo.c:439).
SharesTypeOK == /\ measured \in [Ranks -> [Steps -> 0 .. MaxTime]]
                /\ Distribution(measured) \in [Ranks -> 1 .. NumCores]

\* No core is left without a thread, whatever is rounded, capped or averaged:
\* the decision tree relies on it to find a full socket, hence a solution
\* (core_dispatch_unused_cores, sabo.c:476).
NodeIsCovered == SumFunction(Distribution(measured)) >= NumCores

\* A process that spent at least as long as another in every step of the
\* window ends at most one thread behind it, or with all the cores of a socket,
\* through floors, caps, remainders, tie-breaks and averaging (sabo.c:392-576).
\* The exception is real: a process capped at a socket takes no remainder any
\* more, and in a build without assertions one that was not may go past it.
SharesFollowLoad ==
    LET threads == Distribution(measured)
    IN  \A p, q \in Ranks :
            (\A i \in Steps : measured[p][i] >= measured[q][i])
                => threads[p] + 1 >= threads[q] \/ threads[p] >= CoresPerSocket

\* The node may be over-allocated, but by at most one core per process raised
\* from zero to one thread (sabo.c:440): what is left of the promise that
\* AllocatedFitsNode states.
OverAllocationIsBounded ==
    SumFunction(Distribution(measured)) - NumCores <= Max({Cardinality({p \in Ranks :
        measured[p][i] * NumCores < StepSum(measured, i)}) : i \in Steps})

\* "Allocated cores are necessarily <= total num_cores" (sabo.c:509, :569): what
\* the processes are given for a step, and on average, before the cores left
\* over are dispatched, is no more than the node.
AllocatedFitsNode ==
    /\ \A i \in Steps :
          Total([p \in Ranks |-> StepCounter(measured[p][i], StepSum(measured, i))])
              <= NumCores
    /\ Total([p \in Ranks |->
                 AverageCounter([i \in Steps |-> StepCounters(measured, i)[p].threads])])
              <= NumCores

\* What two assertions of the dispatch and of the average say: nobody is given
\* more threads than a socket has cores (sabo.c:486, :540).  A share is capped
\* when its quotient, rounded down, is above a socket; one that is just a
\* socket keeps its remainder, and may get the core left over.
NobodyPastASocket == ~Asserts(measured)
-----------------------------------------------------------------------------
(* Placement *)

\* The search finds a placement exactly when there is one: pruning, and the
\* strict comparison with the father, never lose the last candidate
\* (decision_tree.c:299, :350).
FindsWheneverPossible == Solve(wanted, cameFrom).found <=> Placements(wanted) # {}

\* No admissible placement over-commits the sockets less than the one kept.
\* The first leaf a node accepts is never replaced (its num_socket_changes is
\* inherited by the next ones, so none has fewer): the property holds because
\* the sockets are alike, so that some best placement has its last process on
\* the first socket tried (decision_tree.c:319-339).
LeastOverCommitment ==
    LET solution == Solve(wanted, cameFrom)
    IN  solution.found => solution.socket \in BestPlacements(wanted)
=============================================================================
