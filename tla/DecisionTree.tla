---------------------------- MODULE DecisionTree ----------------------------
(***************************************************************************)
(* The memory of the branch and cut search (src/common/decision_tree.c):   *)
(* the nodes, the pool they are recycled through, the candidates handed    *)
(* from a node to its father, and the recursion as an explicit stack.      *)
(*                                                                         *)
(* A step is one turn of the loop over the sockets, or one return.  The    *)
(* nodes of the pool keep what they last held, as the recycled memory      *)
(* does.  The processes of a node are its placed sequence: the order they  *)
(* are placed in is the same in every node.                                *)
(***************************************************************************)
EXTENDS Placement

CONSTANTS Threshold,        \* DECISION_NODE_THRESHOLD, size of the free pool
          MaxNodes,         \* bound: nodes that exist at once
          Demands           \* what callers ask: threads per process

ASSUME DemandAssumption == \A threads \in Demands : IsDemand(threads)
ASSUME PoolAssumption   == /\ {Threshold, MaxNodes} \subseteq Nat
                           /\ Threshold <= MaxNodes /\ 2 * NumProcs + 1 < MaxNodes

NodeIds == 1 .. MaxNodes
Null    == 0

TreeNode == [min : Int, norme : Int, changes : Nat, free : [Sockets -> Int],
             placed : Seq(Sockets), best : NodeIds \cup {Null},
             father : NodeIds \cup {Null}]

\* An activation of tree_build_tree_recursive: its node, its child_node, and
\* the socket its loop is at.
Frame == [node : NodeIds, child : NodeIds \cup {Null}, next : 0 .. NumSockets]

VARIABLES
    state,      \* whether the module is down, idle, searching, or has failed
    demand, socket, prevSocket, \* of the core processes
    mem,        \* the contents of every node
    heap,       \* pool: the free_nodes list; used: the nodes that exist
    stack       \* the activations, outermost first

vars == <<state, demand, socket, prevSocket, mem, heap, stack>>

caller == <<demand, socket, prevSocket>>

Blank == [min |-> 0, norme |-> 0, changes |-> 0, free |-> [s \in Sockets |-> 0],
          placed |-> <<>>, best |-> Null, father |-> Null]

Init == /\ state = "down"
        /\ demand = [p \in Ranks |-> 1]
        /\ socket = [p \in Ranks |-> -1]
        /\ prevSocket = [p \in Ranks |-> -1]
        /\ mem = [n \in NodeIds |-> Blank]
        /\ heap = [pool |-> <<>>, used |-> {}]
        /\ stack = <<>>
-----------------------------------------------------------------------------
(* The pool *)

\* tree_alloc_node: the node it returns, and the heap it leaves.
NextNode(h) == IF h.pool # <<>> THEN Head(h.pool) ELSE CHOOSE n \in NodeIds : n \notin h.used

AllocNode(h) == IF h.pool # <<>> THEN [h EXCEPT !.pool = Tail(@)]
                ELSE [h EXCEPT !.used = @ \cup {NextNode(h)}]

\* tree_free_node: to the front of the pool, or to the system when it is full.
FreeNode(h, n) ==
    IF n = Null THEN h
    ELSE IF Len(h.pool) < Threshold THEN [h EXCEPT !.pool = <<n>> \o @]
    ELSE [h EXCEPT !.used = @ \ {n}]

Start == /\ state = "down" /\ state' = "idle"
         /\ heap' = [pool |-> [i \in 1 .. Threshold |-> Threshold + 1 - i],
                     used |-> 1 .. Threshold]
         /\ UNCHANGED <<caller, mem, stack>>

Shutdown == /\ state = "idle" /\ state' = "down"
            /\ heap' = [pool |-> <<>>, used |-> heap.used \ ToSet(heap.pool)]
            /\ UNCHANGED <<caller, mem, stack>>
-----------------------------------------------------------------------------
(* The search *)

Top      == stack[Len(stack)]
TopNode  == mem[Top.node]
Exhausted == Top.next = NumSockets

\* The child_node the loop works in: allocated again when the last one has
\* become the candidate.
CurrentChild  == IF Top.child = Null THEN NextNode(heap) ELSE Top.child
HeapNow == IF Top.child = Null THEN AllocNode(heap) ELSE heap

Advanced(child) == [stack EXCEPT ![Len(stack)].child = child,
                                 ![Len(stack)].next = @ + 1]

\* A faulty version: the moves of the root are not reset either.
RootNodeUnset == [Blank EXCEPT !.min = IntMin, !.norme = IntMin, !.changes = IntMin,
                               !.free = [s \in Sockets |-> CoresPerSocket]]

RootNode == [min |-> IntMin, norme |-> IntMin, changes |-> 0,
             free |-> [s \in Sockets |-> CoresPerSocket], placed |-> <<>>,
             best |-> Null, father |-> Null]

Ask(threads) ==
    LET root == NextNode(heap)
        h    == AllocNode(heap)
    IN  /\ state = "idle" /\ state' = "search"
        /\ demand' = threads
        /\ mem' = [mem EXCEPT ![root] = RootNode]
        /\ stack' = <<[node |-> root, child |-> NextNode(h), next |-> 0]>>
        /\ heap' = AllocNode(h)
        /\ UNCHANGED <<socket, prevSocket>>

\* The next process to place at the top of the stack.
NextProcess == CHOOSE p \in Ranks :
                  Position(demand, p) = Len(TopNode.placed) + 1

\* tree_dup_node then tree_update_node, for the socket the loop is at.
Placed ==
    LET s    == Top.next
        left == TopNode.free[s] - demand[NextProcess]
    IN  [min     |-> TopNode.min,
         norme   |-> IF left > 0 THEN TopNode.norme
                     ELSE IF TopNode.norme = IntMin THEN left
                     ELSE TopNode.norme + left,
         changes |-> TopNode.changes + (IF prevSocket[NextProcess] = s THEN 0 ELSE 1),
         free    |-> [TopNode.free EXCEPT ![s] = left],
         placed  |-> Append(TopNode.placed, s),
         best    |-> Null,
         father  |-> Top.node]

Leaf == [Placed EXCEPT !.min = Placed.norme]

Full     == TopNode.free[Top.next] < 0
\* A faulty version of Cut: a placement with no full socket looks bad.
CutTooEarly == Placed.norme < TopNode.min

Cut      == Placed.norme # IntMin /\ Placed.norme < TopNode.min
Complete == Len(Placed.placed) = NumProcs
Rejected == \/ Leaf.norme < TopNode.min
            \/ TopNode.best # Null /\ Leaf.changes >= mem[TopNode.best].changes

Searching == state = "search" /\ ~Exhausted

SkipSocket == /\ Searching /\ Full
              /\ stack' = Advanced(CurrentChild) /\ heap' = HeapNow
              /\ UNCHANGED <<state, caller, mem>>

CutChild == /\ Searching /\ ~Full /\ Cut
            /\ mem' = [mem EXCEPT ![CurrentChild] = Placed]
            /\ stack' = Advanced(CurrentChild) /\ heap' = HeapNow
            /\ UNCHANGED <<state, caller>>

Descend == /\ Searching /\ ~Full /\ ~Cut /\ ~Complete
           /\ mem' = [mem EXCEPT ![CurrentChild] = Placed]
           /\ stack' = Append(Advanced(CurrentChild),
                          [node |-> CurrentChild, child |-> NextNode(HeapNow), next |-> 0])
           /\ heap' = AllocNode(HeapNow)
           /\ UNCHANGED <<state, caller>>

RejectLeaf == /\ Searching /\ ~Full /\ ~Cut /\ Complete /\ Rejected
              /\ mem' = [mem EXCEPT ![CurrentChild] = Leaf]
              /\ stack' = Advanced(CurrentChild) /\ heap' = HeapNow
              /\ UNCHANGED <<state, caller>>

\* A faulty version: the loop goes on in the node that has become the candidate.
AcceptLeafNoSwap ==
    /\ Searching /\ ~Full /\ ~Cut /\ Complete /\ ~Rejected
    /\ mem' = [mem EXCEPT ![CurrentChild] = Leaf, ![Top.node].best = CurrentChild,
                          ![Top.node].min = Leaf.min]
    /\ stack' = Advanced(CurrentChild) /\ heap' = HeapNow
    /\ UNCHANGED <<state, caller>>

\* The candidate it replaces becomes the child_node of the next turn.
AcceptLeaf == /\ Searching /\ ~Full /\ ~Cut /\ Complete /\ ~Rejected
              /\ mem' = [mem EXCEPT ![CurrentChild] = Leaf,
                                    ![Top.node].best = CurrentChild,
                                    ![Top.node].min = Leaf.min,
                                    ![Top.node].changes = Leaf.changes]
              /\ stack' = Advanced(TopNode.best) /\ heap' = HeapNow
              /\ UNCHANGED <<state, caller>>

\* A faulty version: the candidate of a subtree always replaces the father's.
ReturnAlways ==
    /\ state = "search" /\ Exhausted /\ TopNode.father # Null
    /\ heap' = FreeNode(FreeNode(heap, Top.child), mem[TopNode.father].best)
    /\ mem' = [mem EXCEPT ![TopNode.father].min = TopNode.min,
                          ![TopNode.father].best = TopNode.best]
    /\ stack' = Front(stack)
    /\ UNCHANGED <<state, caller>>

\* The loop is over below the root: the candidate goes to the father when it
\* over-commits less than the father's, to the pool otherwise.
Return ==
    LET father == TopNode.father
        better == mem[father].min < TopNode.min
        h      == FreeNode(heap, Top.child)
    IN  /\ state = "search" /\ Exhausted /\ father # Null
        /\ heap' = FreeNode(h, IF better THEN mem[father].best ELSE TopNode.best)
        /\ mem' = IF better THEN [mem EXCEPT ![father].min = TopNode.min,
                                             ![father].best = TopNode.best]
                  ELSE mem
        /\ stack' = Front(stack)
        /\ UNCHANGED <<state, caller>>

Answer ==
    LET best == TopNode.best
        h    == FreeNode(FreeNode(FreeNode(heap, Top.child), best), Top.node)
    IN  /\ state = "search" /\ Exhausted /\ TopNode.father = Null /\ best # Null
        /\ socket' = [p \in Ranks |-> mem[best].placed[Position(demand, p)]]
        /\ prevSocket' = socket
        /\ heap' = h /\ stack' = <<>> /\ state' = "idle"
        /\ UNCHANGED <<demand, mem>>

GiveUp == /\ state = "search" /\ Exhausted
          /\ TopNode.father = Null /\ TopNode.best = Null
          /\ heap' = FreeNode(heap, Top.child)
          /\ state' = "failed"
          /\ UNCHANGED <<caller, mem, stack>>

Step == SkipSocket \/ CutChild \/ Descend \/ RejectLeaf \/ AcceptLeaf
        \/ Return \/ Answer \/ GiveUp

\* fatal_error ends the program.
Ended == state = "failed" /\ UNCHANGED vars

Next == Start \/ Shutdown \/ (\E threads \in Demands : Ask(threads)) \/ Step
        \/ Ended

\* The search is a function call: it goes on until it returns.
Spec == Init /\ [][Next]_vars /\ WF_vars(Step)
-----------------------------------------------------------------------------
(* Properties *)

TypeOK == /\ state \in {"down", "idle", "search", "failed"}
          /\ demand \in [Ranks -> Nat]
          /\ socket \in [Ranks -> Sockets \cup {-1}]
          /\ prevSocket \in [Ranks -> Sockets \cup {-1}]
          /\ mem \in [NodeIds -> TreeNode]
          /\ heap \in [pool : Seq(NodeIds), used : SUBSET NodeIds]
          /\ stack \in Seq(Frame)

\* What owns a node: the root's activation, the child_node of each activation,
\* and the candidate of each node being explored.
Children   == [i \in DOMAIN stack |-> stack[i].child]
Candidates == [i \in DOMAIN stack |-> mem[stack[i].node].best]
Owned == ({stack[i].node : i \in DOMAIN stack \cap {1}}
            \cup ToSet(Children) \cup ToSet(Candidates)) \ {Null}

\* No node has two owners.
Apart(root, child, best) ==
    \A i, j \in DOMAIN child :
        /\ child[i] # Null => /\ child[i] # root /\ child[i] # best[j]
                              /\ child[i] = child[j] => i = j
        /\ best[i] # Null => best[i] # root /\ (best[i] = best[j] => i = j)

\* Every node in use has one owner: none is leaked, freed twice, or used after
\* it went back to the pool, through the swaps of child_node, best and
\* father->best (decision_tree.c:335-341, 344-362).
OneOwner == state # "failed" =>
    /\ stack # <<>> => Apart(stack[1].node, Children, Candidates)
    /\ IsInjective(heap.pool) /\ ToSet(heap.pool) \subseteq heap.used
    /\ Owned = heap.used \ ToSet(heap.pool)

\* What is stored in the core processes is the result of the search as a
\* function, whatever the recycled nodes held (decision_tree.c:365-413).
AnswersAreSolve ==
    [][state = "search" =>
        /\ state' = "idle" => socket' = Solve(demand, prevSocket).socket
        /\ state' = "failed" => ~Solve(demand, prevSocket).found]_vars

Service == INSTANCE PlacementService WITH
    NumProcs <- NumProcs, NumSockets <- NumSockets,
    CoresPerSocket <- CoresPerSocket, Demands <- Demands,
    state <- state, demand <- demand, socket <- socket,
    prevSocket <- prevSocket

\* The search provides the service: least over-commitment, or no placement at
\* all, and always an answer.
ProvidesService == Service!Spec
=============================================================================
