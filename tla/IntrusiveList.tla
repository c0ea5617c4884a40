---------------------------- MODULE IntrusiveList ----------------------------
(***************************************************************************)
(* The doubly linked list of src/common/list.c: an element holds its own   *)
(* two pointers, the head holds the ends.  The offset between an element   *)
(* and its pointers is abstracted: a node is its element.                  *)
(*                                                                         *)
(* Nothing in a node says whether it is in the list; callers know, and     *)
(* link a node only when it is not, as decision_tree.c does.  "linked" is  *)
(* that knowledge.  A node that was removed keeps its old pointers.        *)
(***************************************************************************)
EXTENDS SequencesExt, Integers

CONSTANTS Nodes, NoNode

ASSUME NodesAssumption == IsFiniteSet(Nodes) /\ NoNode \notin Nodes

VARIABLES
    first, last,    \* struct list_head
    previous, next, \* struct list_node, of every node
    linked          \* history: the nodes added and not removed since

listVars == <<first, last, previous, next, linked>>

Pointer == Nodes \cup {NoNode}

\* A faulty version: the head is not initialised.
InitHeadUnset ==
    /\ first = "unset" /\ last = "unset"
    /\ previous = [n \in Nodes |-> NoNode]
    /\ next = [n \in Nodes |-> NoNode]
    /\ linked = {}

\* list_head_init, over nodes that come from xzalloc.
ListInit == /\ first = NoNode /\ last = NoNode
            /\ previous = [n \in Nodes |-> NoNode]
            /\ next = [n \in Nodes |-> NoNode]
            /\ linked = {}

\* Assigning through a pointer, when there is something behind it.
Through(links, pointer, value) ==
    IF pointer = NoNode THEN links ELSE [links EXCEPT ![pointer] = value]

\* list_add_first.
AddFirst(n) ==
    /\ n \notin linked /\ linked' = linked \cup {n}
    /\ previous' = Through([previous EXCEPT ![n] = NoNode], first, n)
    /\ next' = [next EXCEPT ![n] = first]
    /\ last' = IF first = NoNode THEN n ELSE last
    /\ first' = n

\* list_add_last.
AddLast(n) ==
    /\ n \notin linked /\ linked' = linked \cup {n}
    /\ next' = Through([next EXCEPT ![n] = NoNode], last, n)
    /\ previous' = [previous EXCEPT ![n] = last]
    /\ first' = IF last = NoNode THEN n ELSE first
    /\ last' = n

\* A faulty version: a node added before the first is not the new first.
AddBeforeKeepFirst(node, n) ==
    /\ node \in linked /\ n \notin linked /\ linked' = linked \cup {n}
    /\ previous' = [previous EXCEPT ![n] = previous[node], ![node] = n]
    /\ next' = [Through(next, previous[node], n) EXCEPT ![n] = node]
    /\ first' = first /\ last' = last

\* list_add_before: n goes before node.
AddBefore(node, n) ==
    /\ node \in linked /\ n \notin linked /\ linked' = linked \cup {n}
    /\ previous' = [previous EXCEPT ![n] = previous[node], ![node] = n]
    /\ next' = [Through(next, previous[node], n) EXCEPT ![n] = node]
    /\ first' = IF previous[node] = NoNode THEN n ELSE first
    /\ last' = last

\* list_add_after: n goes after node.
AddAfter(node, n) ==
    /\ node \in linked /\ n \notin linked /\ linked' = linked \cup {n}
    /\ previous' = Through([previous EXCEPT ![n] = node], next[node], n)
    /\ next' = [next EXCEPT ![n] = next[node], ![node] = n]
    /\ last' = IF next[node] = NoNode THEN n ELSE last
    /\ first' = first

\* A faulty version: removing the last node leaves the head's last pointer.
RemoveNodeKeepLast(n) ==
    /\ n \in linked /\ linked' = linked \ {n}
    /\ next' = Through(next, previous[n], next[n])
    /\ previous' = Through(previous, next[n], previous[n])
    /\ first' = IF previous[n] = NoNode THEN next[n] ELSE first
    /\ last' = last

\* list_remove.
RemoveNode(n) ==
    /\ n \in linked /\ linked' = linked \ {n}
    /\ next' = Through(next, previous[n], next[n])
    /\ previous' = Through(previous, next[n], previous[n])
    /\ first' = IF previous[n] = NoNode THEN next[n] ELSE first
    /\ last' = IF next[n] = NoNode THEN previous[n] ELSE last

ListNext == \E n \in Nodes : \/ AddFirst(n) \/ AddLast(n) \/ RemoveNode(n)
                             \/ \E node \in Nodes : AddBefore(node, n)
                             \/ \E node \in Nodes : AddAfter(node, n)

ListSpec == ListInit /\ [][ListNext]_listVars
-----------------------------------------------------------------------------
(* What the pointers stand for *)

Bound == Cardinality(Nodes) + 1     \* a walk that is longer is in a cycle

\* list_get_first then list_get_next, as listm_get_size walks; and backwards.
WalkForward[fuel \in Nat] ==
    [n \in Pointer |-> IF n = NoNode \/ fuel = 0 THEN <<>>
                       ELSE <<n>> \o WalkForward[fuel - 1][next[n]]]

WalkBackward[fuel \in Nat] ==
    [n \in Pointer |-> IF n = NoNode \/ fuel = 0 THEN <<>>
                       ELSE <<n>> \o WalkBackward[fuel - 1][previous[n]]]

Forward == WalkForward[Bound][first]

Backward == WalkBackward[Bound][last]

Listings == UNION {[1 .. k -> Nodes] : k \in 0 .. Cardinality(Nodes)}

\* s is the list: no node twice, both ends, both pointers of every node.
Represents(s) ==
    /\ \A i, j \in 1 .. Len(s) : s[i] = s[j] => i = j
    /\ linked = {s[i] : i \in 1 .. Len(s)}
    /\ first = IF Len(s) = 0 THEN NoNode ELSE s[1]
    /\ last = IF Len(s) = 0 THEN NoNode ELSE s[Len(s)]
    /\ \A i \in 1 .. Len(s) :
          /\ previous[s[i]] = IF i = 1 THEN NoNode ELSE s[i - 1]
          /\ next[s[i]] = IF i = Len(s) THEN NoNode ELSE s[i + 1]
-----------------------------------------------------------------------------
(* Properties *)

ListTypeOK == /\ first \in Pointer /\ last \in Pointer
              /\ previous \in [Nodes -> Pointer] /\ next \in [Nodes -> Pointer]
              /\ linked \subseteq Nodes

\* Whatever was added and removed, in whatever place, the pointers stand for
\* one sequence without repetition of exactly the nodes that are in the list:
\* no cycle, nobody lost, nobody left behind (list.c:36-144).
WellLinked == \E s \in Listings : Represents(s)

IndexIn(s, n) == CHOOSE i \in 1 .. Len(s) : s[i] = n

\* Every operation does to the walk what its name says, and backwards is the
\* mirror of forwards (list.c:36-144, list.h:114-129).
OperationsOnSequence ==
    [][/\ Backward' = Reverse(Forward')
       /\ \A n \in Nodes :
            /\ AddFirst(n) => Forward' = <<n>> \o Forward
            /\ AddLast(n)  => Forward' = Append(Forward, n)
            /\ RemoveNode(n) => Forward' = RemoveAt(Forward, IndexIn(Forward, n))
            /\ \A node \in Nodes :
                 /\ AddBefore(node, n) => Forward' =
                      InsertAt(Forward, IndexIn(Forward, node), n)
                 /\ AddAfter(node, n) => Forward' =
                      InsertAt(Forward, IndexIn(Forward, node) + 1, n)]_listVars
=============================================================================
