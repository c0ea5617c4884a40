------------------------------ MODULE SaboNode ------------------------------
(***************************************************************************)
(* The processes of one node calling sabo_omp_balanced (src/core/sabo.c).  *)
(*                                                                         *)
(* There is no coordinator: each process keeps its own copy of everybody's *)
(* threads and socket ("team"), gathers everybody's times, and recomputes  *)
(* the same distribution and the same placement.  Only its own threads are *)
(* moved.  Whatever a process decides alone is unknown to the others.      *)
(*                                                                         *)
(* A collective is modelled by the list of contributions each process has  *)
(* posted: the n-th one completes when everybody has posted n of them.     *)
(* Abstracted: the wall clock (an OpenMP region takes one of Times), the   *)
(* per-thread split of a time, tracing.  SABO_NO_REBALANCE is unset.       *)
(***************************************************************************)
EXTENDS Shares, Placement

CONSTANTS StepBal,          \* SABO_STEP_BALANCING
          Periodic,         \* SABO_PERIODIC
          OmpNumThreads,    \* OMP_NUM_THREADS, the same for all processes
          NDebug,           \* assertions compiled out
          CommUpAt,         \* calls made before MPI_Init returns
          Garbage,          \* what the second allgather reads past its array
          CoreId,           \* core identifier of the j-th core of socket s
          Times,            \* what an OpenMP region may take
          MaxCalls          \* bound: calls each process makes

ASSUME RoundAssumption == /\ StepBal \in Nat \ {0}
                          /\ Periodic \in BOOLEAN /\ NDebug \in BOOLEAN
                          /\ OmpNumThreads \in Nat \ {0}
                          /\ CommUpAt \in Nat
                          /\ Times \subseteq Nat
                          /\ MaxCalls \in Nat

\* The operating system gives each core a number of its own (topo.c:100-109).
ASSUME CoreIdAssumption ==
    /\ CoreId \in [Sockets -> [0 .. CoresPerSocket - 1 -> Nat]]
    /\ \A s, r \in Sockets : \A j, k \in 0 .. CoresPerSocket - 1 :
           CoreId[s][j] = CoreId[r][k] => s = r /\ j = k

Cores   == {CoreId[s][j] : s \in Sockets, j \in 0 .. CoresPerSocket - 1}
NoCore  == -1               \* cur_core_id before the first binding
Unset   == -1               \* socket_id before the first placement
ThreadIds == 0 .. NumCores - 1

\* An entry of __sabo_core_ctx->processes.
Member == [threads : Int, prevThreads : Int, socket : Int, prevSocket : Int]

ThreadCounts == [Ranks -> Int]

VARIABLES
    pc,         \* where a process is in __sabo_omp_balanced__
    step,       \* __sabo_core_ctx->step
    spent,      \* sum of myprocess->ompt.elapsed since the last reset
    elapsed,    \* elapsed[p][q]: p's copy of q's counters.elapsed window
    posted,     \* contributions of p to the collectives, in order
    team,       \* team[p][q]: p's copy of q's threads and sockets
    bound,      \* bound[p][t]: cur_core_id of thread t of p
    hist        \* history: per round, whether p rebalanced, and its team then

vars == <<pc, step, spent, elapsed, posted, team, bound, hist>>

\* The places where a process is lost: a failed assertion or fatal error, an
\* endless loop in core_adjust_list_num_threads, a division by zero.
Lost == {"aborted", "spinning", "undefined"}

Init == /\ pc = [p \in Ranks |-> "app"]
        /\ step = [p \in Ranks |-> 0]
        /\ spent = [p \in Ranks |-> 0]
        /\ elapsed = [p \in Ranks |-> [q \in Ranks |-> [i \in Steps |-> 0]]]
        /\ posted = [p \in Ranks |-> <<>>]
        /\ team = [p \in Ranks |-> [q \in Ranks |->
                     [threads |-> OmpNumThreads, prevThreads |-> -1,
                      socket |-> Unset, prevSocket |-> Unset]]]
        /\ bound = [p \in Ranks |-> [t \in ThreadIds |-> NoCore]]
        /\ hist = [p \in Ranks |-> <<>>]
-----------------------------------------------------------------------------
(* Measuring and skipping *)

\* An OpenMP region of the application; its threads' times are added up by
\* the OMPT callbacks.
Work(p) == /\ pc[p] = "app" /\ step[p] < MaxCalls /\ spent[p] = 0
           /\ \E t \in Times : spent' = [spent EXCEPT ![p] = t]
           /\ UNCHANGED <<pc, step, elapsed, posted, team, bound, hist>>

\* core_skip_compute: not a balancing step, or the window is not full yet.
SkipCompute(n) == \/ Periodic /\ (n + 1) % StepBal # 0
                  \/ ~Periodic /\ n # StepBal
                  \/ Window > n + 1

\* A faulty version: a process that measured nothing does not take part.
CommIsInitializedAndWorked(p) == step[p] >= CommUpAt /\ spent[p] > 0

CommIsInitialized(p) == step[p] >= CommUpAt

\* core_gather_ompt_counters, into the slot of this step.
Gathered(p) == [elapsed[p][p] EXCEPT ![(step[p] % Window) + 1] = spent[p]]

\* LEAVE: next step, OMPT counters reset.
Leave(p) == /\ pc' = [pc EXCEPT ![p] = "app"]
            /\ step' = [step EXCEPT ![p] = @ + 1]
            /\ spent' = [spent EXCEPT ![p] = 0]

SkipCall(p) ==
    /\ pc[p] = "app" /\ step[p] < MaxCalls
    /\ ~CommIsInitialized(p) \/ SkipCompute(step[p])
    /\ elapsed' = [elapsed EXCEPT ![p][p] = Gathered(p)]
    /\ Leave(p)
    /\ UNCHANGED <<posted, team, bound, hist>>
-----------------------------------------------------------------------------
(* Exchanging *)

Contribute(p, value) == posted' = [posted EXCEPT ![p] = Append(@, value)]

Complete(n) == \A q \in Ranks : Len(posted[q]) >= n

EnterRound(p) ==
    /\ pc[p] = "app" /\ step[p] < MaxCalls
    /\ CommIsInitialized(p) /\ ~SkipCompute(step[p])
    /\ elapsed' = [elapsed EXCEPT ![p][p] = Gathered(p)]
    /\ Contribute(p, Gathered(p))
    /\ pc' = [pc EXCEPT ![p] = "gather_elapsed"]
    /\ UNCHANGED <<step, spent, team, bound, hist>>

\* A faulty version: of the other processes, only the last time is copied.
GatherElapsedLastOnly(p) ==
    LET n    == Len(posted[p])
        last == (step[p] % Window) + 1
    IN  /\ pc[p] = "gather_elapsed" /\ Complete(n)
        /\ elapsed' = [elapsed EXCEPT ![p] = [q \in Ranks |->
                         IF q = p THEN @[p]
                         ELSE [@[q] EXCEPT ![last] = posted[q][n][last]]]]
        /\ Contribute(p, Garbage)
        /\ pc' = [pc EXCEPT ![p] = "gather_threads"]
        /\ UNCHANGED <<step, spent, team, bound, hist>>

\* The first allgather returns; its result replaces the whole table.  The
\* second one is entered at once, with the thread counters of the last
\* process read as if they were doubles: the values received are garbage,
\* stored where the next shares are written before anything reads them.
GatherElapsed(p) ==
    LET n == Len(posted[p])
    IN  /\ pc[p] = "gather_elapsed" /\ Complete(n)
        /\ elapsed' = [elapsed EXCEPT ![p] = [q \in Ranks |-> posted[q][n]]]
        /\ Contribute(p, Garbage)
        /\ pc' = [pc EXCEPT ![p] = "gather_threads"]
        /\ UNCHANGED <<step, spent, team, bound, hist>>

\* A faulty version: what it receives is stored over the times.
GatherThreadsOverTimes(p) ==
    /\ pc[p] = "gather_threads" /\ Complete(Len(posted[p]))
    /\ elapsed' = [elapsed EXCEPT ![p] = [q \in Ranks |-> posted[q][Len(posted[p])]]]
    /\ pc' = [pc EXCEPT ![p] = "decide"]
    /\ UNCHANGED <<step, spent, posted, team, bound, hist>>

GatherThreads(p) ==
    /\ pc[p] = "gather_threads" /\ Complete(Len(posted[p]))
    /\ pc' = [pc EXCEPT ![p] = "decide"]
    /\ UNCHANGED <<step, spent, elapsed, posted, team, bound, hist>>
-----------------------------------------------------------------------------
(* Deciding: everything below is local to a process *)

\* core_estimate_speedup: the time per thread of this process is within 10%
\* of the node's.  (Both sides multiplied by the thread counts and by ten.)
BalancedEnough(p) ==
    LET time(q)  == SumFunction(elapsed[p][q])
        total    == SumFunction([q \in Ranks |-> time(q)])
        threads  == SumFunction([q \in Ranks |-> team[p][q].threads])
        own      == team[p][p].threads
        gap      == total * own - time(p) * threads
    IN  10 * (IF gap < 0 THEN -gap ELSE gap) < total * own

Cancel(p) == /\ pc[p] = "decide" /\ BalancedEnough(p)
             /\ Leave(p)
             /\ hist' = [hist EXCEPT ![p] =
                           Append(@, [moved |-> FALSE, team |-> team[p]])]
             /\ UNCHANGED <<elapsed, posted, team, bound>>

\* A faulty version: a socket that is full seems to have a core left.
FreeCoresPlusOne(threads, members) ==
    CoresPerSocket + 1 - SumFunctionOnSet(threads, members)

FreeCores(threads, members) ==
    CoresPerSocket - SumFunctionOnSet(threads, members)

\* A faulty version: it stops at the first process that would go down to one.
ShrinkableAboveTwo(threads, order, members) ==
    {p \in members : \A q \in members :
        (q = p \/ Before(order, q, p)) => threads[q] > 2}

\* A pass of the shrinking loop of core_adjust_list_num_threads: the processes
\* of the socket, in the order they were sorted in, up to the first one that
\* has a single thread.  The count of free cores is not looked at inside a pass.
Shrinkable(threads, order, members) ==
    {p \in members : \A q \in members :
        (q = p \/ Before(order, q, p)) => threads[q] # 1}

Shrunk(threads, order, members) ==
    [p \in Ranks |-> IF p \in Shrinkable(threads, order, members)
                     THEN threads[p] - 1 ELSE threads[p]]

ShrinkSocket(order, members) ==
    LET shrink[threads \in ThreadCounts] ==
            IF \/ FreeCores(threads, members) >= 0
               \/ Shrinkable(threads, order, members) = {}
            THEN threads
            ELSE shrink[Shrunk(threads, order, members)]
    IN  shrink[order]

\* A pass of the growing loop gives a thread to everybody on the socket.
Grown(threads, members) ==
    [p \in Ranks |-> IF p \in members THEN threads[p] + 1 ELSE threads[p]]

GrowSocket(start, members) ==
    LET grow[threads \in ThreadCounts] ==
            IF FreeCores(threads, members) <= 0 \/ members = {} THEN threads
            ELSE grow[Grown(threads, members)]
    IN  grow[start]

\* core_adjust_num_threads: the threads it leaves to everybody, and whether one
\* of its loops goes on for ever without changing anything.
Adjust(threads, socket) ==
    LET members(s) == {p \in Ranks : socket[p] = s}
        shrunk == [s \in Sockets |-> ShrinkSocket(threads, members(s))]
        grown  == [s \in Sockets |-> GrowSocket(shrunk[s], members(s))]
    IN  [threads |-> [p \in Ranks |-> grown[socket[p]][p]],
         spins   |-> \E s \in Sockets : \/ FreeCores(shrunk[s], members(s)) < 0
                                        \/ FreeCores(grown[s], members(s)) > 0]

NewTeam(members, threads, socket) ==
    [q \in Ranks |-> [threads     |-> threads[q],
                      prevThreads |-> members[q].threads,
                      socket      |-> socket[q],
                      prevSocket  |-> members[q].socket]]

\* What a round makes of a team, from the table of times alone: shares,
\* placement (its moves counted from prev_socket_id, the socket before the
\* present one), adjustment; or the reason why it never ends.
Round(members, table) ==
    LET failed(reason) == [end |-> reason, team |-> members]
    IN  IF Undefined(table) THEN failed("undefined")
        ELSE LET shares   == Distribution(table)
                 solution == Solve(shares,
                                 [q \in Ranks |-> members[q].prevSocket])
                 adjusted == Adjust(shares, solution.socket)
             IN  IF (~NDebug /\ Asserts(table)) \/ ~solution.found
                 THEN failed("aborted")
                 ELSE IF adjusted.spins THEN failed("spinning")
                 ELSE [end |-> "app", team |-> NewTeam(members,
                                        adjusted.threads, solution.socket)]

\* A faulty version: the processes of a socket all start on its first core.
FirstCoreOfSocket(members, p) == 0

\* core_compute_first_core_id: after the lower ranks of the socket.
FirstCore(members, p) ==
    LET lower == {q \in Ranks : members[q].socket = members[p].socket /\ q < p}
    IN  SumFunctionOnSet([q \in Ranks |-> members[q].threads], lower)

LastCore(members, p) == FirstCore(members, p) + members[p].threads - 1

\* "Nothing to do": same threads, same socket, and the first thread already
\* on core number start -- an index in the socket compared with a core id.
NothingToDo(members, p) ==
    /\ members[p].threads = members[p].prevThreads
    /\ bound[p][0] = FirstCore(members, p)
    /\ members[p].socket = members[p].prevSocket

\* A faulty version: the last thread stays where it is.
TargetsButLast(members, p) ==
    LET ids == CoreId[members[p].socket]
    IN  {[t \in ThreadIds |->
            IF t >= members[p].threads - 1 THEN bound[p][t]
            ELSE ids[Min({FirstCore(members, p) + t, CoresPerSocket - 1})]]}

\* The cores thread by thread; an index past the end of the socket reads
\* whatever follows the table of core ids.  Binding to a core that does not
\* exist leaves the thread where it is.
Targets(members, p) ==
    LET first == FirstCore(members, p)
        ids   == CoreId[members[p].socket]
        threads == {t \in ThreadIds : t < members[p].threads}
        past    == {t \in threads : first + t >= CoresPerSocket}
    IN  {[t \in ThreadIds |->
            IF t \notin threads THEN bound[p][t]
            ELSE IF t \notin past THEN ids[first + t]
            ELSE IF stray[t] = NoCore THEN bound[p][t] ELSE stray[t]] :
         stray \in [past -> Cores \cup {NoCore}]}

\* Where p goes from its decision: the round may fail for everybody, or the
\* assertion of topo_get_socket_core_id, whose table topo_init has built, for p
\* alone.
Outcome(p) ==
    LET round == Round(team[p], elapsed[p])
    IN  IF /\ round.end = "app" /\ ~NDebug
           /\ \E members \in {round.team} :
                  LastCore(members, p) >= CoresPerSocket /\ ~NothingToDo(members, p)
        THEN "aborted"
        ELSE round.end

Rebalance(p) ==
    /\ pc[p] = "decide" /\ ~BalancedEnough(p)
    /\ Outcome(p) = "app"
    /\ \E members \in {Round(team[p], elapsed[p]).team} :
           /\ team' = [team EXCEPT ![p] = members]
           /\ hist' = [hist EXCEPT ![p] =
                         Append(@, [moved |-> TRUE, team |-> members])]
           /\ IF NothingToDo(members, p) THEN bound' = bound
              ELSE \E target \in Targets(members, p) :
                       bound' = [bound EXCEPT ![p] = target]
    /\ Leave(p)
    /\ UNCHANGED <<elapsed, posted>>

Fail(p) == /\ pc[p] = "decide" /\ ~BalancedEnough(p)
           /\ \E reason \in Lost : /\ Outcome(p) = reason
                                  /\ pc' = [pc EXCEPT ![p] = reason]
           /\ UNCHANGED <<step, spent, elapsed, posted, team, bound, hist>>
-----------------------------------------------------------------------------
Finished(p) == pc[p] = "app" /\ step[p] = MaxCalls

\* The node has run to its end, or one of its processes has brought it down.
Stop == /\ (\A p \in Ranks : Finished(p)) \/ (\E p \in Ranks : pc[p] \in Lost)
        /\ UNCHANGED vars

Call(p) == SkipCall(p) \/ EnterRound(p) \/ GatherElapsed(p) \/ GatherThreads(p)
           \/ Cancel(p) \/ Rebalance(p) \/ Fail(p)

Next == (\E p \in Ranks : Work(p) \/ Call(p)) \/ Stop

Spec == Init /\ [][Next]_vars
-----------------------------------------------------------------------------
(* Properties *)

ControlOK == /\ pc \in [Ranks -> {"app", "gather_elapsed", "gather_threads",
                                  "decide"} \cup Lost]
             /\ step \in [Ranks -> Nat]
             /\ posted \in [Ranks -> Seq([Steps -> Nat] \cup {Garbage})]
             /\ elapsed \in [Ranks -> Tables]
             /\ spent \in [Ranks -> Nat]

TypeOK == /\ ControlOK
          /\ team \in [Ranks -> [Ranks -> Member]]
          /\ bound \in [Ranks -> [ThreadIds -> Cores \cup {NoCore}]]
          /\ hist \in [Ranks -> Seq([moved : BOOLEAN, team : [Ranks -> Member]])]

\* Two processes decided the same thing in each of their first k rounds.
SameDecisions(p, q, k) ==
    \A j \in 1 .. k : hist[p][j].moved = hist[q][j].moved

Rounds(p) == Len(hist[p])

\* Processes that took the same decisions so far hold the same view of the
\* whole node, however their calls interleave, and although the exchange
\* carries times only and the views are never compared (sabo.c:326-362,
\* 621-694).
ReplicasAgree ==
    \A p, q \in Ranks : \A k \in 1 .. Rounds(p) :
        (k <= Rounds(q) /\ SameDecisions(p, q, k))
            => hist[p][k].team = hist[q][k].team

\* Processes inside the same exchange are at the same step: no process ever
\* gathers the times of another step, whichever calls were skipped or
\* cancelled before (sabo.c:299-324, 831-833).
ExchangeAtSameStep ==
    \A p, q \in Ranks :
        (/\ {pc[p], pc[q]} \subseteq {"gather_elapsed", "gather_threads", "decide"}
         /\ Rounds(p) = Rounds(q))
            => step[p] = step[q]

ActiveCores(p) ==
    {bound[p][t] : t \in {u \in ThreadIds : u < team[p][p].threads}} \ {NoCore}

AtRest(p) == pc[p] = "app"

\* The adjustment left no socket with more threads than cores.
SocketLoad(members, s) == SumFunctionOnSet([q \in Ranks |-> members[q].threads],
                                     {q \in Ranks : members[q].socket = s})

Fits(members) == \A s \in Sockets : SocketLoad(members, s) <= CoresPerSocket

\* The last rebalancing changed p's threads or its socket: the shortcut cannot
\* have left the threads where they were.
MustMove(p) == \/ team[p][p].threads # team[p][p].prevThreads
               \/ team[p][p].socket # team[p][p].prevSocket

\* No rebalancing of p ever over-committed a socket.
AlwaysFitted(p) == \A k \in 1 .. Rounds(p) :
                      hist[p][k].moved => Fits(hist[p][k].team)

\* A core numbered like an index in a socket has that index in its own: what
\* the shortcut takes for granted.  True of a node with one socket, or numbered
\* socket by socket; not of one numbered round robin.
IndexIsCore == \A s \in Sockets : \A j, k \in 0 .. CoresPerSocket - 1 :
                   CoreId[s][j] = k => j = k

\* Two processes that took the same decisions run no threads on the same core,
\* unless a socket is over-committed -- or the shortcut was taken on a node
\* where it is wrong, or after an over-commitment (sabo.c:719-753).
CoresDisjoint ==
    \A p, q \in Ranks :
        (/\ p # q /\ AtRest(p) /\ AtRest(q) /\ Fits(team[p])
         /\ Rounds(p) = Rounds(q) /\ SameDecisions(p, q, Rounds(p))
         /\ \A r \in {p, q} : MustMove(r) \/ (IndexIsCore /\ AlwaysFitted(r)))
            => ActiveCores(p) \cap ActiveCores(q) = {}

HasMoved(p) == \E k \in 1 .. Rounds(p) : hist[p][k].moved

\* A process that has rebalanced runs each of its threads on a core of its own,
\* unless a socket is over-committed, or was when the threads were last moved
\* (sabo.c:737-749).
OneCorePerThread ==
    \A p \in Ranks :
        (/\ AtRest(p) /\ Fits(team[p]) /\ HasMoved(p)
         /\ MustMove(p) \/ AlwaysFitted(p))
            => Cardinality(ActiveCores(p)) = team[p][p].threads

\* Without assertions, a round only loses a process -- a search without a result,
\* an adjustment that never ends, a division by zero -- when somebody was raised
\* to one thread, because it worked for less than a core's share of a step, or
\* when somebody was dispatched past a socket, which is what the assertions are
\* against: two sockets so over-committed can leave another one empty, and the
\* adjustment of an empty one never ends.  With deadlock checked, all calls
\* return otherwise (sabo.c:439, 486, 672-694, decision_tree.c:393).
NobodyLost ==
    \A p \in Ranks : NDebug /\ pc[p] \in Lost =>
        \/ \E i \in Steps : \E q \in Ranks :
              \/ elapsed[p][q][i] * NumCores < StepSum(elapsed[p], i)
              \/ elapsed[p][q][i] = 0
        \/ Asserts(elapsed[p])

\* After a rebalancing every socket is full, and over-committed by less than one
\* thread per process on it: a pass of a loop of core_adjust_list_num_threads
\* serves everybody, and is started by a single core (sabo.c:672-694).
AdaptationIsTight ==
    \A p \in Ranks :
        (AtRest(p) /\ Rounds(p) > 0 /\ hist[p][Rounds(p)].moved) =>
            \A s \in Sockets :
                LET members == {q \in Ranks : team[p][q].socket = s}
                IN  SocketLoad(team[p], s) - CoresPerSocket \in 0 .. Cardinality(members) - 1
=============================================================================
