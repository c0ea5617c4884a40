------------------------------ MODULE Placement ------------------------------
(***************************************************************************)
(* On which socket each process goes: the branch and cut search of         *)
(* src/common/decision_tree.c, as a function of the threads each process   *)
(* wants and of the socket a move is counted from.                         *)
(*                                                                         *)
(* A node places the processes in increasing order of threads, so its      *)
(* placement is the sequence of the sockets chosen so far.  Node memory    *)
(* (pool, ownership of the best candidate) is DecisionTree's subject.      *)
(***************************************************************************)
EXTENDS Topology, Sequences, Functions, FiniteSetsExt, SequencesExt

IntMin  == -2147483647 - 1      \* INT_MIN, "never updated"
NoBest  == <<>>                 \* node->best == NULL

\* min and norme: the over-commitment (as a negative number) of the best
\* candidate and of the node itself; changes: num_socket_changes; free:
\* cores left per socket; placed: sockets of the processes placed so far;
\* best: the sequence of sockets of the best candidate below this node, and
\* bestChanges its num_socket_changes.
Node == [min : Int, norme : Int, changes : Int, free : [Sockets -> Int],
         placed : Seq(Sockets), best : Seq(Sockets), bestChanges : Int]

\* A node that is not a leaf, and the socket its next process is tried on.
Branch == [node : {n \in Node : Len(n.placed) < NumProcs}, from : 0 .. NumSockets]

\* qsort by threads only; the C library's merge sort is stable, so equal
\* processes stay in rank order.
Before(threads, p, q) ==
    threads[p] < threads[q] \/ (threads[p] = threads[q] /\ p < q)

Position(threads, p) ==
    1 + Cardinality({q \in Ranks : Before(threads, q, p)})

Root == [min |-> IntMin, norme |-> IntMin, changes |-> 0,
         free |-> [s \in Sockets |-> CoresPerSocket],
         placed |-> <<>>, best |-> NoBest, bestChanges |-> 0]

\* A faulty version: a socket that is exactly full is not accounted for.
ChildOffByOne(node, threads, prevSocket, s) ==
    LET process == CHOOSE p \in Ranks :
                       Position(threads, p) = Len(node.placed) + 1
        left    == node.free[s] - threads[process]
    IN  [node EXCEPT
            !.free[s] = left,
            !.placed  = Append(@, s),
            !.changes = IF prevSocket[process] = s THEN @ ELSE @ + 1,
            !.norme   = IF left >= 0 THEN @ ELSE IF @ = IntMin THEN left ELSE @ + left,
            !.best    = NoBest, !.bestChanges = 0]

\* tree_dup_node then tree_update_node: the next process goes to socket s.
Child(node, threads, prevSocket, s) ==
    LET process == CHOOSE p \in Ranks :
                       Position(threads, p) = Len(node.placed) + 1
        left    == node.free[s] - threads[process]
    IN  [node EXCEPT
            !.free[s] = left,
            !.placed  = Append(@, s),
            !.changes = IF prevSocket[process] = s THEN @ ELSE @ + 1,
            !.norme   = IF left > 0 THEN @ ELSE IF @ = IntMin THEN left ELSE @ + left,
            !.best    = NoBest, !.bestChanges = 0]

IsLeaf(node) == Len(node.placed) = NumProcs

Pruned(node, child) == child.norme # IntMin /\ child.norme < node.min

\* A complete placement becomes the candidate of its father unless it
\* over-commits more, or does not move fewer processes than the present one.
\* The father takes over its num_socket_changes, which its later children
\* inherit.
OfferLeaf(node, leaf) ==
    IF \/ leaf.norme < node.min
       \/ node.best # NoBest /\ leaf.changes >= node.bestChanges
    THEN node
    ELSE [node EXCEPT !.best = leaf.placed, !.bestChanges = leaf.changes,
                      !.min = leaf.norme, !.changes = leaf.changes]

\* A faulty version: an over-committed candidate is not passed on.
OfferSubtreeThatFits(node, explored) ==
    IF node.min >= explored.min \/ explored.min < 0 THEN node
    ELSE [node EXCEPT !.min = explored.min, !.best = explored.best,
                      !.bestChanges = explored.bestChanges]

\* The candidate of an explored subtree replaces its father's only when it
\* over-commits strictly less.
OfferSubtree(node, explored) ==
    IF node.min >= explored.min THEN node
    ELSE [node EXCEPT !.min = explored.min, !.best = explored.best,
                      !.bestChanges = explored.bestChanges]

\* tree_build_tree_recursive from a socket on; a socket already over-committed
\* takes nobody else.
Explore(threads, prevSocket) ==
    LET explore[branch \in Branch] ==
            LET node  == branch.node
                s     == branch.from
                child == Child(node, threads, prevSocket, s)
                next  == IF node.free[s] < 0 THEN node
                         ELSE IF Pruned(node, child) THEN node
                         ELSE IF IsLeaf(child) THEN OfferLeaf(node, child)
                         ELSE OfferSubtree(node, explore[[node |-> child, from |-> 0]])
            IN  IF s = NumSockets THEN node
                ELSE explore[[node |-> next, from |-> s + 1]]
    IN  explore[[node |-> Root, from |-> 0]]

\* The outcome: a socket per process, or none at all (fatal error).
Solve(threads, prevSocket) ==
    LET best == Explore(threads, prevSocket).best
    IN  [found  |-> best # NoBest,
         socket |-> [p \in Ranks |->
             IF best = NoBest THEN -1 ELSE best[Position(threads, p)]]]
-----------------------------------------------------------------------------
(* What is asked of a placement, defined over all of them *)

Int32Max == 2147483647

\* What a round asks for: threads for everybody, enough for every core, no
\* more together than an int holds.
IsDemand(threads) ==
    /\ threads \in [Ranks -> Nat \ {0}]
    /\ SumFunctionOnSet(threads, Ranks) >= NumCores
    /\ SumFunctionOnSet(threads, Ranks) <= Int32Max

Load(threads, placement, s) ==
    SumFunctionOnSet(threads, {p \in Ranks : placement[p] = s})

\* No process joins a socket that is already over-committed: without its
\* last process (the largest, in order) a socket holds at most its cores.
Admissible(threads, placement) ==
    \A s \in Sockets : \A p \in Ranks :
        placement[p] = s =>
            SumFunctionOnSet(threads,
                {q \in Ranks : placement[q] = s /\ Before(threads, q, p)})
                <= CoresPerSocket

Placements(threads) == {f \in [Ranks -> Sockets] : Admissible(threads, f)}

OverCommitment(threads, placement) ==
    SumFunctionOnSet([s \in Sockets |->
                         Max({0, Load(threads, placement, s) - CoresPerSocket})], Sockets)

\* The placements that over-commit the sockets least.
BestPlacements(threads) ==
    {f \in Placements(threads) : \A g \in Placements(threads) :
        OverCommitment(threads, f) <= OverCommitment(threads, g)}
=============================================================================
