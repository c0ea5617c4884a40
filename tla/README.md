# SABO: specifications, model checking and proofs

SABO moves cores between the MPI processes of a node. Each process measures how
long its OpenMP threads worked in every step, all processes of the node exchange
these times, and each one computes, alone and for everybody, how many threads
every process deserves and on which socket it goes. Then it moves its own threads.
There is no coordinator: the library is right when all processes compute the same
thing from the same data at the same step, and when that thing is a good placement.

This directory holds TLA+ models of the library, the TLC configurations that check
them, and TLAPS proofs. `PROJECT.json` maps every definition to
source lines, lists the hazards of the code, and names the properties about each.

## The system

| component | files | state | operations | modelled by |
|---|---|---|---|---|
| balancing protocol | `core/sabo.c`, `core/sabo_omp.c`, `intel/sabo_intel_omp.c` | `core_ctx`: step, window, everybody's threads, sockets and times | `sabo_core_init`, `__sabo_omp_balanced__`, `sabo_core_fini` | `SaboNode` (all processes of a node), `SaboProcess` (one, from the inside) |
| share computation | `core/sabo.c:379-576` | threads and remainder per process and step | from times to threads | `Shares` |
| decision tree | `common/decision_tree.c` | pool of nodes, nodes, the recursion | init, compute placement, fini | `Placement`, `DecisionTree`, `PlacementService` |
| OMPT counters | `ompt/sabo_ompt.c` | time per thread, start of region, `__reenter__` | callbacks of the OpenMP runtime | `SaboProcess`, `StepMeter` |
| communication layer | `common/comm.c` | module functions, cached values, buffers | `MPI_Init`, `MPI_Finalize`, buffers, allgather | `CommLayer` |
| MPI module | `modules/module_mpi.c` | node communicator, rank translation | init, fini, allgather | `CommLayer`; its allgather in `SaboNode` |
| shared memory module | `modules/module_shm.c` | segment (world ranks, two counters, contributions), rendezvous file, a generation per process | init, allgather | `ShmJoin`, `ShmAllgather`, `Rendezvous` |
| topology, binding | `common/topo.c`, `common/hwloc_binding.c`, `common/binding.c`, `intel/*` | table of core identifiers, core of each thread | query, bind | `NodeBinding` |
| intrusive list | `common/list.c` | doubly linked list | add, remove, iterate | `IntrusiveList` |
| environment | `common/env.c` | configuration | parse once | settings of `SaboProcess`, node variables of `SlurmTasks` |
| Slurm parser, launch script | `tools/slurm_variables_parser.c`, `scripts/saboslurmlauncher.sh` | the list of tasks per node | one run of the tool per task | `SlurmTasks` |
| helpers | `common/log.c`, `common/sys.c`, `tools/format_check.c`, other scripts | - | - | not modelled |

The launch script tells each process its rank on its node and how many they are. The
application calls `sabo_omp_balanced` (or the OMPT callback does, at the end of each
parallel region). The protocol reads the OMPT counters, calls the allgather of the
communication layer (MPI module; the shared memory module is built but nothing
registers it), then the share computation, the decision tree, and the binding. The
rebalancing itself opens a parallel region, whose callbacks must not call the
balancing again. Nothing is persisted by the library, except what the shared memory
module finds its segment by: a file and a name, which no run removes.

What is hard: processes interleave between collectives and decide alone; whether a
call takes part in the exchange depends on step, window and communicator; a decision
to cancel is individual; shares go through floors, caps, remainders and averages;
the search prunes with values that change while it explores and recycles its nodes;
the shared memory barrier reuses two counters while processes run ahead; a run starts
from what a run that died has left; threads measure themselves while the master opens
regions of its own; MPI comes and goes when the application likes; a core has two
numbers.

What makes each component correct:

- protocol: everybody's view is the same; exchanges are of the same step and carry the
  last steps; threads of different processes never share a core; calls do not nest; a
  round ends.
- counters: a step's time is made of what the application's threads did in that step
  and in no other, and of nothing SABO did itself; the step that is exchanged is the
  right one. It should be all they did: `step_sum` shows it is not.
- shares: no core is left over, nobody starves, more load never means fewer threads
  (beyond one), over-allocation is bounded.
- tree: a placement is found whenever there is one, the sockets are over-committed as
  little as possible, no node is leaked or used after it was recycled.
- communication layer: nothing is exchanged through a communicator that is gone, or
  into a buffer that is too short.
- shared memory: the processes of a run meet each other and nobody else; the barrier
  is a barrier; copies in and out do not overlap.
- binding: each thread is where the placement says, and alone there.
- launch: each process learns its own node's size, from whole lists only.

## Modules

- `NodeProcesses` - the processes of a node and their ranks, which every part shares.
- `Topology` - the node as the balancing knows it: its processes, its sockets, its cores.
- `Shares` - the share computation as functions of a table of times. `Distribution`
  is `core_compute_new_threads_distribution`; `Asserts` tells whether an assertion
  fails on the way.
- `Placement` - the branch and cut search as a recursive function of the threads
  demanded and of the previous sockets (`Solve`), and the reference definitions it is
  compared with (`BestPlacements`).
- `MCRound` - feeds both their inputs, one change at a time: every table of small times,
  every demand a round can produce, every previous placement. It states what is asked
  of a round of the balancing, which is proved of its specification for all constants.
- `PlacementService` - abstract: what `decision_tree.h` promises. A request is
  answered by a best placement, or the program ends when there is none.
- `DecisionTree` - the search as the code runs it: a stack of activations (node,
  `child_node`, socket), a memory of nodes, the free pool with its maximum. One action
  per outcome of a loop turn (`SkipSocket`, `CutChild`, `Descend`, `RejectLeaf`,
  `AcceptLeaf`), one for the return to the father (`Return`), one for the answer.
  It is proved to compute `Solve` and to implement `PlacementService`, whose liveness is
  checked.
- `SaboNode` - the processes of a node in `__sabo_omp_balanced__`. Per process: the
  place in the function (`pc`), `step`, the time measured since the last call
  (`spent`), its copy of the table of times, its copy of everybody's threads and
  sockets (`team`), the core of each of its threads (`bound`). A collective is the list
  of contributions each process has posted; the n-th completes when everybody has
  posted n. Actions: `Work` (an OpenMP region), `SkipCall`, `EnterRound`,
  `GatherElapsed`, `GatherThreads`, `Cancel`, `Rebalance`, `Fail`. `hist` is a history
  variable. It extends `Shares` and `Placement`.
- `CommLayer` - the interposed MPI calls over the MPI module: what is loaded, what is
  initialised, what is cached and which buffer the pointer points at. Its actions are
  conjuncts other modules combine.
- `StepMeter` - abstract: what the counters hold of a step. Every worker's part of
  every region of the application in that step, and one more of it when its release from
  the barrier is reported; the master's part of the last of these regions only. It says
  that a slot holds parts of its own step and its own regions and nothing of SABO's. It
  is not the sum of all threads that sabo.c:794 promises: `StepSumsAllThreads` is that.
- `SaboProcess` - extends `CommLayer`: one process, its master in the application, in
  a region or at a place of the call (`at`), its workers (`place`), the counters of
  `sabo_ompt.c` (`start`, `elapsed`, `reenter`), the window (`slots`, `step`), and the
  teams the next regions have. A time is recorded as which thread measured which
  region from which beginning. Actions: the callbacks (`BeginRegion`, `Release`,
  `Arrive`, `EndRegion`), the call (`Gather`, `Skip`, `Exchange`, `Stay`, `Rebalance`,
  `EndRebalance`, `Leave`), the places where it ends the program (`DividesByWindow`,
  `Fail`, `RoundFails`), and the runtime and MPI starting and stopping.
  What the other processes answer is any number of threads, or the end of the program.
  It is proved to implement `StepMeter`.
- `ShmJoin` - how the processes of a node find the segment, run after run: creation,
  size, clearing and publication by the master, reading and opening by the clients,
  the barrier and the table of world ranks. A process may be killed at any step; what
  it made stays for the next run, until somebody cleans the node. The clearing is done
  byte for byte (`Cleared`): the code takes a number of pages for a number of bytes
  (`Pages`), so that a small segment loses part of the master's entry, and one of five
  pages or more the ranks of clients that came early.
- `NodeBinding` - the table of core identifiers, then rounds: each process compares,
  skips or asks, and each of its threads binds itself through hwloc, which knows the
  cores by other numbers and may be refused.
- `MCNodeStartup` - from the launch to the first placements: `SlurmTasks` with its lists,
  then `ShmJoin` on a node of a job whose tasks were told that they are `NumProcs`, then
  the rounds of `NodeBinding`, once the tasks have joined.
- `SlurmTasks` - the tool's reading of the list of tasks per node and its exit status,
  over tokens. `MCSlurmTasks` writes the lists and changes them: jobs with their lists
  are states, and what the tool makes of a list a function of it.
- `Rendezvous` - abstract barrier. `ShmAllgather` - the barrier, the segment and the
  allgather of `module_shm.c`, one action per access to shared memory; `arrived` and
  `passed` are history variables.
- `IntrusiveList` - the doubly linked list as the head's two pointers and two pointers
  per node, one action per function of `list.c` that writes them. `linked` is what
  callers know and the nodes do not: which nodes are in the list; an operation outside
  that discipline (adding twice, removing twice) is undefined in the code and not
  modelled. `Forward` and `Backward` are the walks a caller makes; they replace no
  code, they read the pointers. `MCDecisionTree` works on such a list before the module
  of the search, which keeps its pool in one, starts.
- `SaboNode_proof` (of `SaboNode` and of `MCRound`), `SaboProcess_proof`,
  `DecisionTree_proof`, `ShmAllgather_proof`, `ShmJoin_proof`, `NodeBinding_proof`,
  `IntrusiveList_proof` - theorems and proofs. `Placement_proof` - what they keep
  needing: recursive functions, sums over finite sets, and what the search of
  `Placement` finds.

How they compose: `SaboNode` extends `Shares` and `Placement`, which extend `Topology`;
`DecisionTree` extends `Placement`, which is what `SaboNode` uses the search as;
`SaboProcess` extends `CommLayer`, and what it abstracts of the other processes is
`SaboNode`, as what `SaboNode` abstracts of a process (a time per region) is
`SaboProcess`. `NodeBinding` takes any placement that fits, which is what `SaboNode`
decides. `ShmAllgather` starts where `ShmJoin` ends a joining. `MCNodeStartup` composes
`SlurmTasks`, `ShmJoin` and `NodeBinding`: tasks only join if the tool told each the same
size and a rank of its own, and only bind once joined. The definitions of `NodeBinding`
and `IntrusiveList` that other modules have too carry the name of the part
(`BindingInit`, `ListNext`, ...). Three refinements:
`DecisionTree` implements `PlacementService`, `ShmAllgather` implements `Rendezvous`,
`SaboProcess` implements `StepMeter`.

Definitions whose comment says "a faulty version" are never used by the models: they
are what a plausible bug would make of the definition after them, and each property
is known to fail with one of them.

### Abstractions

Times are naturals and quotients exact; the code rounds the same quotients to
doubles, in the same order in each process. The clock, tracing and `SABO_NO_REBALANCE`
are left out. In `SaboNode` a region of the application takes one of `Times`, and the
split over threads is not kept (`SaboProcess` has it). `OMP_NUM_THREADS` is the same
for all processes. What the second allgather reads beyond its array is the value
`Garbage`; a core index past the end of a socket reads an arbitrary core or none.

In `SaboProcess` the environment is one of `Settings`. The window is any integer, as
`env_get_num_steps_exchanged` takes any: a negative one cannot be allocated and ends the
process when the runtime starts (`OmptInitialize`), zero ends it in its first call
(`DividesByWindow`). The period is a natural number: a negative one divides as its
absolute value (sabo.c:307), and as a one-shot step never comes, like a step after the
last. A number of threads that is not positive opens no region and is left out. The
application uses one way of balancing and opens no nested region, as the documentation
says. The failures inside a round (sabo.c:486, 540, decision_tree.c:393), which depend on
the times of the others, are `RoundFails`, at any round; `Shares` and `SaboNode` say when
they happen. In `CommLayer` the four cached values are one, a buffer is its
length, and an MPI call that returns an error (which ends the process) is left out.

In `ShmAllgather` and `ShmJoin` accesses happen in program order: `arch.h` requires
x86_64, the counters are updated by locked instructions, and the compiler is assumed not
to move a `memcpy` of variable size across them. `LayoutAssumption` restricts the
instances of `ShmAllgather` to those whose contributions stay in the mapped page and off
the two counters. In `ShmJoin` the rendezvous file is absent, short or full; the memset
of the master is one step; a node has at most 256 processes, the entries of the segment
(`MaxProcs`). A window is not negative there, for a negative one has ended the process
before.

In `SlurmTasks` the list is a sequence of tokens: a number, or another character.
In `IntrusiveList` a node is its two pointers.

## Runs

| run | instance | shows |
|---|---|---|
| `round` | 4 processes, 2x3 cores, window 2; times 0-3; demands 1-4 | `NodeIsCovered`, `SharesFollowLoad`, `OverAllocationIsBounded`, at least one thread each (`SharesTypeOK`); `FindsWheneverPossible`, `LeastOverCommitment` |
| `share_assertion` | 2 processes, 2x2 cores, window 1, times 0-2 | `NobodyPastASocket` is violated |
| `allocated` | 4 processes, 2x2 cores, window 1, times 0-3 | `AllocatedFitsNode` is violated |
| `tree` | 3 processes, 2x2 cores, pool of 2; a list of 4 nodes, no bound on operations | `OneOwner`, `AnswersAreSolve`, and `ProvidesService`: the search implements `PlacementService`, liveness included; `WellLinked`, `OperationsOnSequence` (what every operation of the list does to both walks) |
| `node_window` | 2 processes, 1x3 cores, window 2, every 2nd step, communicator after the first call, assertions on | `ReplicasAgree`, `ExchangeAtSameStep` |
| `node_shared` | 3 processes, 2x3 cores, 2 rounds, assertions off | `CoresDisjoint`, `OneCorePerThread`, `AdaptationIsTight`, `NobodyLost`, no deadlock |
| `process` | 120 environments, 2 cores, windows -1 to 3, up to 3 threads, 2 regions a step, 4 steps | `CallsNotNested`, `ExchangesLastSteps`, `OnlyKnownFailures`, and `MeasuresForNode`: it implements `StepMeter` |
| `step_sum` | the same | `StepSumsAllThreads` is violated |
| `startup` | jobs of 1 to 3 nodes of 3, 255 or 256 tasks, any 2 tokens changed; 3 processes, 3 runs on the node, a segment of five pages; 3 placements, 2x2 cores in 3 numberings, all or all but one allowed, and sockets of 2 and 3 cores | `EveryTaskKnowsItsNode`, `OnlyWholeLists`; `MeetsOwnRun`, `RanksTranslated`, `CleanRunNeverFails`, `CleanRunJoins`; `InPlace`, `MoversApart` |
| `shm_ranks` | 3 processes, 3 runs on the node | `EveryRankTranslated` is violated |
| `shm` | 4 processes, 2 allgathers, generation modulo 2 | `MeetingsHold` (implements `Rendezvous`), `PhasesApart`, `ResultOfThisCall`, `NobodyWaitsForNothing` |
| `shm_contributions` | 2 processes, 1 allgather | `AllContributions` is violated |

Each module that has one also checks its type invariant, once.

Why the bounds are enough. `round`: 4 processes give ties among some of the processes
only and every shape of the tree on two sockets, including demands that do not fit and
demands without an answer; window 2 gives averages that are not whole, times 0-3 on 6
cores processes capped at a socket, raised to one thread, and with equal remainders.
Times, and demands with previous placements, are not varied together, for the shares do
not read the one nor the search the other. `tree`: depth 3 recycles nodes across levels,
and a pool of 2 overflows, so that nodes are taken from and given back to the system;
`MaxNodes` is above 2 x 3 + 1, which is proved never to be the limit. `node_window`: 4
calls, 2 of them rounds, so that the window wraps and a second round starts from a
rebalanced team. `node_shared`: two rounds let a process move away from a socket and
others cancel. `process`: windows that are negative, empty, shorter than, equal to and
longer than the cores; 4 steps wrap each of them after a first exchange that comes late;
one thread beyond the cores writes out of bounds, and two regions tell the last of a
step from those before it; MPI and the runtime may start and stop between any two steps.
`startup`, joining: a third run meets what the second left of what it found of the
first; a window of 640 makes five pages of the segment, the fewest from which the
clearing reaches a client: one of its bytes, and of the ranks 298 and 299 of the clients
it leaves 256 and 299. The placements come in the first run; the runs after it are those
of one machine, the uneven one. `shm`: one joining meeting and two per allgather, so a
generation modulo 2 wraps twice. `startup`, placements: a process can stay, grow, and
return to a socket it left; two sockets of two cores are enough for every one of the
numberings to send a thread to another socket; the third core forbidden leaves a thread
where an earlier round put it. `startup`, lists: 255 and 256 are the sides of an exit
status; three nodes have runs of one, two and three, and two changes are enough to make
any separator, repeat count or number wrong, missing or doubled. The list of `tree`:
with 4 nodes an operation meets both ends, both neighbours, and a node that is none of
these.

Five runs show a disagreement between the code and its own words (`expect` is
`violation`):

- `shm_contributions`. module_shm.c:367 says "Add my contribution", and the offset in
  bytes is added to a pointer to double (:368), so that an allgather through shared
  memory returns the contribution of rank 0 only.
- `share_assertion`. The assertions of sabo.c:486 and :540 say that nobody gets more
  threads than a socket has cores. A process whose quotient is between a socket and a
  socket and one is not capped (:445), has the largest remainder, and gets the core left
  over: two processes on two sockets of two cores with times 2 and 1 get 3 and 1.
- `allocated`. sabo.c:509 and :569 say "allocated cores are necessarily <= total
  num_cores". A process raised to one thread (:440) takes it from nobody: with times
  0, 0, 1 and 1 on four cores the shares are 1, 1, 2 and 2. The remaining cores are then
  negative and nothing is dispatched; `OverAllocationIsBounded` says how far it goes.
- `step_sum`. sabo.c:794 says "Sum all threads time cycle get by OMPT". A worker's time
  of a region is added (sabo_ompt.c:83), the master's assigned (:159): of a step with two
  regions the master's time in the first is lost.
- `shm_ranks`. module_shm.c:335 says "Init translation from node rank to world rank". The
  master never writes its world rank (:241-279; a client does at :308), and is translated
  to 0 on every node. `RanksTranslated` is what holds of the clients.

### Other behaviours of the code

Seen while modelling; the models have them, no run is kept for them.

- The first leaf accepted is kept rather than the one with the fewest migrations, and
  its count is inherited by its rivals (decision_tree.c:322, 339).
- A process cancels a round alone, and the views diverge from then on (sabo.c:613,
  against the comment at :725). `ReplicasAgree` is about equal decisions.
- The loop that adapts threads to cores does not end when the smallest process of an
  over-committed socket has one thread (sabo.c:674). `NobodyLost` says this needs a
  process that was raised to one thread.
- Two shares larger than a socket, in a build without assertions, can leave a socket
  without any process, and the loop that gives its cores away never ends (sabo.c:687).
- Workers may count twice in a region, for the runtime reports both ends of the barrier
  and the endpoint is not looked at (sabo_ompt.c:46-83). `StepMeter` says so.
- Settings are read and, at most, reported: a window of zero divides by zero in the first
  call (sabo.c:760), a period of zero in the first one with a communicator (:307).
- One-shot balancing never happens when its step comes before the window is full
  (sabo.c:309, 320).
- The "nothing to do" shortcut (sabo.c:738, 740) is also taken by a process whose
  threads are not in place, for it compares the number of a core with an index in a
  socket. It is right where a core numbered like an index
  in a socket has that index: one socket, or cores numbered socket by socket. With round
  robin numbering two processes may end on one core. `CoresDisjoint` and
  `OneCorePerThread` say exactly when not, `MoversApart` leaves out who skipped,
  `InPlace` shows the shortcut right with plain numbering. Operating system core numbers
  are used as hwloc's logical indices (hwloc_binding.c:50).
- A second run of the shared memory module on a node fails on `O_EXCL` unless somebody
  cleaned the node, and its clients may join the dead run's segment.
- The size of a shared segment is a number of pages used as bytes (module_shm.c:94):
  from five pages on the clearing (:268) takes the world rank, or its low bytes, of a
  client that followed a dead run's file and came before it; `RanksTranslated` says so,
  and that a run on a clean node loses none. Contributions overlap the ranks from the
  seventh on (:273).
- `env_get_world_num_tasks` reads the variable of the task's rank (env.c:138); an unset
  `OMP_NUM_THREADS` is -1 threads.
- The number of tasks goes through an exit status: 256 tasks are none. Without a node
  identifier the tool returns what precedes its array (slurm_variables_parser.c:192).
- Explicit calls with implicit balancing on count a step twice; the documentation does
  not allow them, and `SaboProcess` leaves them out.

## Fairness

`DecisionTree` is fair because the search is a function call that runs until it returns.
`ShmAllgather` is fair to every process inside the module; whether the application calls
it again is left open, so a process that never calls is allowed. `ShmJoin` is fair to a
process inside the module, which is scheduled until it is killed; nothing is assumed of
runs ending or of anybody cleaning the node, and a run whose processes are killed is
only promised that nobody meets the dead. `SaboNode`, `SaboProcess`, `NodeBinding` and
`IntrusiveList` state no fairness and check no liveness: that calls return is checked as
absence of deadlock, all processes making the same number of calls as `README.md:23` of
the repository requires, together with `NobodyLost`. Every passing run checks deadlock;
where a part really is over (the last call made, the last run ended, a list nobody
changes any more), its next-state relation says so with a step that changes nothing. In
the runs that compose parts fairness is of the same functions: the search, and the
processes inside the joining.

## Proofs

For all values of the constants that satisfy the named assumptions: a node has
processes, sockets and cores (`TopologyAssumption`), a window has steps
(`WindowAssumption`: with none nobody gets to a round, `DividesByWindow`), settings are
of their type (`RoundAssumption`, `SettingsAssumption`), the system numbers each core
once (`CoreIdAssumption`, `HwlocAssumption`), there are finitely many machines
(`MachinesAssumption`); and `CountersAssumption`, `NodesAssumption`,
`NodeSizeAssumption`, `JoinAssumption`, `DemandAssumption`, `PoolAssumption`,
`FeedAssumption`; a node of a job runs at least one of its tasks (`TasksAssumption`).
`WidthAssumption` keeps the demands of `MCRound` in an `int`, as the code does, whose
`INT_MIN` means "none".

`Placement_proof`, recursion and sums: no prover here can instantiate an induction
theorem of the library, whose parameter is an operator. The inductions are made over the
set of the elements a claim holds of, and rest on the well-foundedness of the naturals
and of the subsets of a finite set: a recursion whose measure decreases has exactly one
solution (`RecursionExists`, `LoopExists`), a loop keeps its invariant (`LoopInvariant`),
and `SumFunctionOnSet` is what it should be (`SumAdd`, `SumMonotone`, `SumExchange`, ...).
`NodeBinding_proof`, whose node is not that of `Topology`, takes the sums by `INSTANCE`.

`Placement_proof`, the search as a function, for any demand a round can make
(`IsDemand`: threads for everybody, enough for every core, no more than an `int` holds)
and wherever the processes come from. `ExploreRule` is the induction over the tree.
`Accounted` says what the fields of a node mean, which makes every candidate a placement
(`SolveSound`). Conversely, `min` and `norme` are bounded level by level (`Levelled`), so
that a child is only cut, and a candidate only dropped, when there is a candidate already
(`Finds`); so the search finds a placement exactly when there is one (`SolveComplete`).
The value kept with a candidate is its over-commitment (`Priced`), and the value of a
node bounds that of every placement below it (`DepthBound`). That alone does not make the
candidate a best one, for a leaf never replaces the first one accepted by the same node.
It is no worse than every *early* placement below the node (`Beats`): one whose last
process has only over-committed sockets before its own. The sockets being alike, any
placement can be made early by exchanging two of them (`SwapKeeps`, `EarlyExists`), so
the best of the early ones is best of all (`SolveBest`).

`SaboNode_proof`, the protocol: `Agreement` (`ReplicasAgree`), `SameStepExchange`
(`ExchangeAtSameStep`), `ControlCorrect` (`ControlOK`). `ReplicasAgree` is not
inductive: equal teams follow from equal histories only if everybody's k-th round was
computed from the same table. The invariant adds how many contributions a process has
posted at each place of the function (`Counting`: two per round), that the exchanges it
went through are complete and its table is what was posted (`Gathering`), and that its
history replays the function `Round` on those tables (`Replay`); contributions are
never changed once posted, so equal decisions give equal teams by following the
history. Nothing is assumed here of the shares, the search or the adjustment beyond that
they are functions. `ExchangeAtSameStep` holds because the steps that take part in an
exchange are a function of the step number and the communicator, so the n-th exchange
is at the same step in every process. `ControlCorrect` gives that the garbage of the
second exchange never gets into the table of times.

The shares: `SharesTyped` (`SharesTypeOK`), `NodeAlwaysCovered` (`NodeIsCovered`),
`OverAllocationBounded` (`OverAllocationIsBounded`), `SharesFollow`
(`SharesFollowLoad`). A step gives quotients whose total is less than a process short of
the node (`FirstTotal`), and the dispatch adds what is missing one thread at a time
(`DispatchResult`); the same is then said of the averages (`AverageTotal`,
`DistributionFacts`). `Follows` is what a dispatch keeps between two processes: one is
ahead, or one thread behind and served first. `SharesFollowLoad` once said "at most one
thread behind" without exception; the proof failed for a process capped at a socket, and
TLC gave the counterexample: 3 processes on 5 sockets of one core, shares of 3, 1 and 1.

The adjustment: `AdaptationTight` (`AdaptationIsTight`). Each loop of
`core_adjust_list_num_threads` is a function that exists and ends (`ShrinkUnfolded`,
`GrowUnfolded`): a pass frees, or takes, at least a core and at most one per process of
the socket, and is only started while cores are missing or left.

The search: `SearchFinds` (`FindsWheneverPossible`) and `SearchIsOptimal`
(`LeastOverCommitment`) are `SolveComplete` and `SolveBest` of every demand and previous
placement of `MCRound`.

Who is lost: `NobodyIsLost` (`NobodyLost`). When nobody was raised to one thread and
nobody passed a socket, the shares are at most a socket each and add up to the node
(`FairSharesFill`). Then they can be placed one after the other, because those before a
process do not fill every socket (`PlacementExists`); the search finds a best placement;
and in a best placement nobody could move from an over-committed socket to one with a
core left, and over-commit less (`NoMoveLeft`). Hence no socket is empty
(`NobodyAlone`), and the first process of an over-committed one has more threads than
cores are missing, so that shrinking it alone would do (`ShrinkingEnds`, by the
invariant of `ShrinkSuffices`): both loops end. Of `WidthAssumption` this uses that the
cores of a node are counted by an `int`.

The bindings: `NodeTyped` (`TypeOK`), `OneCoreEach` (`OneCorePerThread`), `Disjoint`
(`CoresDisjoint`). The invariant `Bound` says where the threads of a process are: on no
core before its first rebalancing; where its team puts them, if the last rebalancing
moved it and its socket is not over-committed; and on a row of cores of its socket, if no
rebalancing over-committed it. `MustMove` and `AlwaysFitted` are in the properties
because without them they are false, of the code as well: the shortcut keeps a process
where it is, though the others move (`IndexIsCore`). Rows of different processes are
apart because `core_compute_first_core_id` adds up the same team in each (`RowsApart`,
by `Agreement`).

`NodeBinding_proof`: `BindingTyped` (`BindingTypeOK`), `MovedApart` (`MoversApart`),
`ThreadsInPlace` (`InPlace`), for any finite set of machines, any number of processes and
of placements, and any interleaving of their threads. `RoundInv`: the table is that of an
even machine, and the placement worked on fits; hence every thread of a team is given a
core of the machine no other is given (`PlacedCores`). `NumberInv`: a thread that moves
in a round moves to the number of that core. `PlainInv`, where the two numberings agree:
a thread at rest is on the core of its placement or was refused it; while its process
has not applied the new placement, it is on a row of the socket it had, which is all
that the shortcut can be right about (`ShortcutInPlace`).

`ShmAllgather_proof`: `BarrierIsRendezvous` (`MeetingsHold`), `CopiesApart`
(`PhasesApart`), `CallsAnswered` (`ResultOfThisCall`), `CountersTyped` (`TypeOK`). The
invariant is relative to the number r
of meetings over: everybody has come to r or r + 1; the local generation is the
segment's, or the next one for those who came; the counter is the number of those who
came, or zero between the reset and the new generation, during which everybody else
is waiting or back in the application. Hence two consecutive generations are all that
must differ, which any modulus above one gives. Copies are apart because a copy in
follows an odd number of meetings and a copy out an even one; and for the same reason
everybody has written to the call that is copied out, and nobody to the next
(`EverybodyWrote`), which is what a call returns.

`IntrusiveList_proof`: `Linkage` (`WellLinked`), `WalksFollow` (`OperationsOnSequence`)
and `PointersTyped` (`ListTypeOK`), under `NodesAssumption`. `Represents(s)` says that
the pointers stand for `s`; each operation gets a lemma: from a state that stands for
`s` it leads to one that stands for `s` with a node inserted at a given place
(`AddFirstInserts`, `AddLastInserts`, `AddBeforeInserts`, `AddAfterInserts`) or deleted
(`RemoveDeletes`). The four additions are instances of one lemma about pointers
(`Insertion`). The walks are recursive functions that exist (`IterationExists`,
`WalkExists`) and follow the pointers (`WalkFollows`, by induction over what is left of
`s`), so they give `s` and its mirror (`Walks`) before and after every operation
(`StepOnSequence`).

`DecisionTree_proof`: `NodesOwned` (`OneOwner`) and `TreeTyped` (`TypeOK`), for any
number of processes, sockets and cores and any size of the pool. The owners are two
families over the activations, the `child_node`s and the candidates, and the root;
`Ownership` says that they are apart and are exactly the nodes in use (`Live`). Every
step does one of a few things to the families, a lemma each: the first activation
(`Begun`), a `child_node` allocated where there was none (`Refilled`), a leaf and the
candidate swapped (`Swapped`), a candidate exchanged with the father's (`Exchanged`), an
activation that begins (`Pushed`) or ends (`Popped`). That `father` is the activation
before and `child_node` the node of the next one (`Links`) is what makes the return
write to the right family; it also bounds the depth, hence the nodes in use by twice
the processes and one (`HeldBound`, `RoomLeft`). `CandidatesComplete` gives that the
answer has a socket for everybody; that every place in the order of the processes is
somebody's is `Positions` of `Placement_proof`, by counting.

`DecisionTree_proof`, what is answered: `AnswersSolve` (`AnswersAreSolve`) and
`SearchServes`, that it implements the `Safety` of `PlacementService`. Each node in
memory stands for a node of `Placement`, its candidate being the sequence of sockets of
the node it points at (`Meaning`). The activations promise values to each other
(`Promised`): the one at the top will return what the function finds from its node and
its socket on, each other one what the function finds once the next one's value has been
offered to its node, and the first one the whole search. A turn of the loop computes the
child of `Placement` (`PlacedIsChild`) and keeps the promise by one unfolding of the
function (`OneTurn`); a descent adds a value to the promise, and a return takes the last
one, which by then is the node itself (`LastTurn`). What recycled memory held does not
matter because a step writes the top's node and the child only, and `Ownership` gives
that no node or candidate below is one of these (`Beneath`). So the root returns what
`Explore` finds (`RootReturns`). The refinement then follows from `SolveComplete` and
`SolveBest`, of demands as rounds make them (`DemandAssumption`).

`SaboProcess_proof`: `ProcessTyped` (`TypeOK`), `NeverNested` (`CallsNotNested`),
`LastStepsExchanged` (`ExchangesLastSteps`), `KnownFailures` (`OnlyKnownFailures`) and
`MeterImplemented` (`MeasuresForNode`), for every set of environments and any number of
threads, cores, regions and steps. The invariant relates what different calls of the
code keep: the communicator exists exactly while the layer says it is initialised, and
the buffer has the length of the exchange unless a send buffer was asked for
(`CommFacts`); `__reenter__` is set and one call is under way exactly where the master
is inside a call (`Control`); a call goes on only with a window that has slots, which
the settings do not promise (`WindowControl`); each slot holds the last step equal to
its index modulo the window (`SlotsHold`, by lemmas on `%`: `ModRange`, `NearMultiple`,
`ModNear`, `ModBack`); an entry of the counters has parts of its own thread and of
regions that have begun, and where a worker is tells which parts of the region under way
it has (`Parts`). The last is what `StepMeter` needs to count a part at most once at
each end of its barrier: every action of `SaboProcess` is one of its steps or a stutter,
the rebalancing region and the reset included. `KnownFailures` assumes nothing of the
window but that it is an integer: which action fails at which place is one lemma
(`FailureFrame`), and at each place the cause is the guard of the action.

`ShmJoin_proof`: `JoinTyped` (`TypeOK`), `OwnRunMet` (`MeetsOwnRun`), `RanksKnown`
(`RanksTranslated`), `CleanRunsSucceed` (`CleanRunNeverFails`), for any number of
processes and runs. `MeetsOwnRun` says nothing of a run in the segment of another, so
the invariant has two parts: what holds of any segment (`Shape`, `Presence`), and what
holds once its maker is the run under way (`OwnSegment`): the counter is the number of
processes of this run that came (`Count`), and zero again only when all did; every
client that came has written its world rank first, and what the clearing made of it is
still there only if the run found something of another (`World`, `ClearFacts`). What
clients do in a dead run's segment does not matter to this: the master creates a segment
only when there is none, and then nobody of this run has come anywhere (`Presence`).
`CleanRun` adds that in a clean run nobody reads a complete file before the segment has
its size, and `CleanOrder` that no client comes before the master has written the file,
hence after the clearing: that is why a run on a clean node loses no rank, whatever the
number of pages.

`ShmJoin_proof`, the list of tasks: `TasksKnowTheirNode` (`EveryTaskKnowsItsNode`) and
`ToolTakesWholeLists` (`OnlyWholeLists`), for any numbers of nodes, of tasks and of
changed tokens. The invariant over the changes is short (`JobInv`: the list is made of
tokens, and is as Slurm wrote it until it is changed); the work is in what the tool
makes of a list. Neither the reader nor the two writers (`Written`, the longest runs,
and `Writings`, any runs) comes with a proof that its recursion defines a function:
`ReaderDefined`, `WrittenDefined` and `WritingsDefined` show it, from `RecursionExists`
of `Placement_proof`, as each step leaves less of the list or fewer tasks. Two theorems
say what the reader computes, both by induction on what is left of the list from the
reader's place on: every way to write some tasks, one entry per node, is read as these
tasks (`WritingsAreRead`, with `TakesAllStep`), and whatever it takes for a list is a
way to write the tasks it read, as many as there are nodes (`ListsWereWritten`, with
`TakesOnlyStep`). One run is the step of both: it is read as it is written when nothing
or a comma follows (`RunIsRead`), and what is taken for a run is one (`RunWasWritten`).
As Slurm's list is a way to write the job (`WrittenIsAWriting`), a task reads its own
node's entry, and an exit status holds it when it is below 256.

Only model-checked: every liveness property, which is out of the prover's reach:
`NobodyWaitsForNothing`, `CleanRunJoins`, and that the search always answers (`Responds`,
the rest of `ProvidesService`).

`NobodyLost` got its last disjunct from its proof: two shares past a socket can
leave another socket empty (4 processes on 4 sockets of 2 cores, times 11, 11, 29, 29).

## Not modelled

- `log.c`, `sys.c`: output, allocation wrappers, page size. `format_check.c`: a
  development tool. `examples`, `tests`, the Makefiles, the debugger and profiler
  scripts: drivers.
- `intel_binding.c`: an alternative binding nothing calls.
- Nested parallel regions, and explicit calls while balancing is implicit: excluded by
  the documentation.
- An MPI call that returns an error: the process ends.
- A counterpart of `ShmAllgather` for `module_mpi.c` beyond the posted contributions of
  `SaboNode`: the collective is MPI's own.
