------------------------------- MODULE Shares -------------------------------
(***************************************************************************)
(* How many threads each process of a node deserves, from the time its     *)
(* OpenMP threads spent in the last Window steps (src/core/sabo.c).        *)
(*                                                                         *)
(* Times are naturals and the divisions are exact: a remainder ("delta")   *)
(* is kept as the numerator of a fraction whose denominator (the sum of    *)
(* the step, or the window) is common to all processes, which is all that  *)
(* comparing two remainders needs.  The C code rounds the same quotients   *)
(* to doubles, identically in every process.                               *)
(***************************************************************************)
EXTENDS Topology, Sequences, Functions, FiniteSetsExt, SequencesExt

CONSTANT Window             \* SABO_NUM_STEPS_EXCHANGED, steps averaged over

ASSUME WindowAssumption == Window \in Nat \ {0}

Steps == 1 .. Window

\* The measurements of the node: one time per process and step.
Tables == [Ranks -> [Steps -> Nat]]

\* What the algorithm keeps per process for one step.
Counters == [Ranks -> [threads : Int, delta : Int]]

Total(counters) == SumFunction([p \in Ranks |-> counters[p].threads])

StepSum(elapsed, i) == SumFunction([p \in Ranks |-> elapsed[p][i]])

\* Two faulty versions: a process may get no thread at all; the quotient is
\* rounded up.
StepCounterNoMinimum(time, sum) ==
    [threads |-> (time * NumCores) \div sum, delta |-> 0]

StepCounterRoundedUp(time, sum) ==
    [threads |-> 1 + (time * NumCores) \div sum, delta |-> 0]

\* floor(elapsed / sum * num_cores) threads, at least one and at most a
\* socket.  Undefined (0 / 0) for a step nobody spent time in.
StepCounter(time, sum) ==
    LET wanted  == time * NumCores
        threads == wanted \div sum
    IN  IF threads = 0 THEN [threads |-> 1, delta |-> 0]
        ELSE IF threads > CoresPerSocket
        THEN [threads |-> CoresPerSocket, delta |-> -1]
        ELSE [threads |-> threads, delta |-> wanted % sum]

\* A faulty version: the scan keeps the smallest remainder.
MinDelta(counters) ==
    CHOOSE p \in Ranks : \A q \in Ranks : counters[q].delta >= counters[p].delta

\* The scan keeps the largest remainder, then the fewest threads, then the
\* last process seen.
MaxDelta(counters) ==
    CHOOSE p \in Ranks : \A q \in Ranks \ {p} :
        \/ counters[q].delta < counters[p].delta
        \/ /\ counters[q].delta = counters[p].delta
           /\ \/ counters[q].threads > counters[p].threads
              \/ counters[q].threads = counters[p].threads /\ q < p

GiveOneThread(counters) ==
    LET p       == MaxDelta(counters)
        threads == counters[p].threads + 1
    IN  [counters EXCEPT ![p] = [threads |-> threads,
                                 delta |-> IF threads > CoresPerSocket
                                           THEN -1 ELSE 0]]

\* The counters, and the cores the dispatch has left for them.
Todos == [remaining : Int, counters : Counters]

\* One thread at a time; nothing to do when the node is already full or
\* over-allocated.
DispatchUnusedCores[todo \in Todos] ==
    IF todo.remaining <= 0 THEN todo.counters
    ELSE DispatchUnusedCores[[remaining |-> todo.remaining - 1,
                              counters  |-> GiveOneThread(todo.counters)]]

DispatchRemaining[counters \in Counters] ==
    DispatchUnusedCores[[remaining |-> NumCores - Total(counters),
                         counters  |-> counters]]

StepCounters(elapsed, i) ==
    LET sum == StepSum(elapsed, i)
    IN  DispatchRemaining[[p \in Ranks |-> StepCounter(elapsed[p][i], sum)]]

\* The average of a process over the window, remainder kept apart.
AverageCounter(threads) ==
    LET sum     == SumFunction(threads)
        average == sum \div Window
    IN  [threads |-> average,
         delta   |-> IF average = CoresPerSocket THEN -1 ELSE sum % Window]

StepTables == [Steps -> Counters]

AverageCounters[steps \in StepTables] ==
    DispatchRemaining[[p \in Ranks |->
        AverageCounter([i \in Steps |-> steps[i][p].threads])]]

\* Every step of the window, then their average.
StepsOf(elapsed) == [i \in Steps |-> StepCounters(elapsed, i)]

Threads[counters \in Counters] == [p \in Ranks |-> counters[p].threads]

TooMany[counters \in Counters] ==
    \E p \in Ranks : counters[p].threads > CoresPerSocket

\* A faulty version: what averaging rounds off is not dispatched.
DistributionRoundedDown(elapsed) ==
    [p \in Ranks |-> AverageCounter(
        [i \in Steps |-> StepCounters(elapsed, i)[p].threads]).threads]

\* The outcome of core_compute_new_threads_distribution: the threads each
\* process gets, and whether one of its assertions failed on the way (a
\* dispatch only adds threads, so its last state tells).
Distribution(elapsed) == Threads[AverageCounters[StepsOf(elapsed)]]

Asserts(elapsed) ==
    \/ TooMany[AverageCounters[StepsOf(elapsed)]]
    \/ \E i \in Steps : TooMany[StepCounters(elapsed, i)]

\* A division by a zero sum: the shares of the round are garbage.
Undefined(elapsed) == \E i \in Steps : StepSum(elapsed, i) = 0
=============================================================================
