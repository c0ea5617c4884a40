-------------------------- MODULE DecisionTree_proof --------------------------
(***************************************************************************)
(* Who owns the nodes of the search: every node in use has one owner, and  *)
(* no more than twice the processes and one are ever in use (Inv).  And    *)
(* what the search answers: each node in memory stands for a node of       *)
(* Placement (Meaning), and the activations together promise what the      *)
(* search as a function finds (Promise); so it stores the outcome of that  *)
(* function, and implements PlacementService but for its liveness.         *)
(***************************************************************************)
EXTENDS DecisionTree, Placement_proof, SequenceTheorems

\* The nodes in use, and heaps whose free list is one.
Live(h) == h.used \ ToSet(h.pool)

GoodHeap(h) == /\ h \in [pool : Seq(NodeIds), used : SUBSET NodeIds]
               /\ IsInjective(h.pool) /\ ToSet(h.pool) \subseteq h.used

HasRoom(h) == h.pool # <<>> \/ \E n \in NodeIds : n \notin h.used

\* The owners as two families, the child_node and the candidate of each of the
\* first L activations, and the node of the first.
Family(L) == [1 .. L -> NodeIds \cup {Null}]

Held(r, c, b) == ({r} \cup ToSet(c) \cup ToSet(b)) \ {Null}

Owns(r, c, b, h) == /\ r \in NodeIds /\ Apart(r, c, b)
                    /\ GoodHeap(h) /\ Live(h) = Held(r, c, b)

Ownership == IF stack = <<>> THEN GoodHeap(heap) /\ Live(heap) = {}
             ELSE Owns(stack[1].node, Children, Candidates, heap)

\* An activation works in the child_node of the one before, whose node is the
\* father; the i-th has placed i - 1 processes.
Links == \A i \in DOMAIN stack :
            /\ Len(mem[stack[i].node].placed) = i - 1
            /\ i = 1 => mem[stack[i].node].father = Null
            /\ i > 1 => /\ stack[i].node = stack[i - 1].child
                        /\ mem[stack[i].node].father = stack[i - 1].node

\* A candidate places everybody.
CandidatesComplete == \A i \in DOMAIN stack :
    Candidates[i] # Null => Len(mem[Candidates[i]].placed) = NumProcs

Running == /\ stack = <<>> <=> state \in {"down", "idle"}
           /\ Len(stack) <= NumProcs
           /\ Ownership /\ Links /\ CandidatesComplete

Inv == TypeOK /\ (state # "failed" => Running)
-----------------------------------------------------------------------------
(* The heap *)

\* The first L activations own no more than 2 * L + 1 nodes.
LEMMA HeldBound ==
    ASSUME NEW L \in Nat, NEW c \in Family(L), NEW b \in Family(L), NEW r,
           NEW T, T \subseteq Held(r, c, b)
    PROVE  IsFiniteSet(T) /\ Cardinality(T) <= 2 * L + 1
<1> DEFINE f == [k \in 1 .. 2 * L + 1 |-> IF k = 1 THEN r
                    ELSE IF k <= L + 1 THEN c[k - 1] ELSE b[k - L - 1]]
           S == {f[k] : k \in 1 .. 2 * L + 1}
<1>1. f \in Surjection(1 .. 2 * L + 1, S)
  BY DEF Surjection
<1>2. IsFiniteSet(1 .. 2 * L + 1) /\ Cardinality(1 .. 2 * L + 1) = 2 * L + 1
  BY FS_Interval
<1>3. IsFiniteSet(S) /\ Cardinality(S) <= 2 * L + 1
  <2> HIDE DEF f, S
  <2> QED
    BY <1>1, <1>2, FS_Surjection
<1>4. T \in SUBSET S
  <2> SUFFICES ASSUME NEW x \in T
               PROVE  x \in S
    OBVIOUS
  <2>1. CASE x = r
    <3>1. 1 \in 1 .. 2 * L + 1 /\ f[1] = r
      OBVIOUS
    <3> QED
      BY <2>1, <3>1
  <2>2. ASSUME NEW i \in 1 .. L, x = c[i]
        PROVE  x \in S
    <3>1. i + 1 \in 1 .. 2 * L + 1 /\ f[i + 1] = c[i]
      OBVIOUS
    <3> QED
      BY <2>2, <3>1
  <2>3. ASSUME NEW i \in 1 .. L, x = b[i]
        PROVE  x \in S
    <3>1. i + L + 1 \in 1 .. 2 * L + 1 /\ f[i + L + 1] = b[i]
      OBVIOUS
    <3> QED
      BY <2>3, <3>1
  <2>4. \/ x = r
        \/ \E i \in 1 .. L : x = c[i]
        \/ \E i \in 1 .. L : x = b[i]
    BY DEF Held, ToSet, Family
  <2> QED
    BY <2>1, <2>2, <2>3, <2>4
<1>5. IsFiniteSet(T) /\ Cardinality(T) <= Cardinality(S)
  <2> HIDE DEF S
  <2> QED
    BY <1>3, <1>4, FS_Subset
<1>6. Cardinality(T) \in Nat /\ Cardinality(S) \in Nat
  <2> HIDE DEF S
  <2> QED
    BY <1>3, <1>5, FS_CardinalityType
<1> QED
  <2> HIDE DEF S
  <2> QED
    BY <1>3, <1>5, <1>6

\* As long as no more activations than processes own what is in use, there is a
\* node to allocate.
LEMMA RoomLeft ==
    ASSUME NEW h, GoodHeap(h), NEW L \in Nat, L <= NumProcs,
           NEW c \in Family(L), NEW b \in Family(L), NEW r,
           Live(h) \subseteq Held(r, c, b)
    PROVE  HasRoom(h)
<1> SUFFICES ASSUME h.pool = <<>>, NodeIds \subseteq h.used
             PROVE  FALSE
  BY DEF HasRoom
<1>1. Live(h) = NodeIds
  BY DEF Live, GoodHeap, ToSet
<1>2. Cardinality(NodeIds) <= 2 * L + 1
  BY <1>1, HeldBound
<1>3. Cardinality(NodeIds) = MaxNodes
  BY FS_Interval, PoolAssumption, TopologyAssumption DEF NodeIds
<1> QED
  BY <1>2, <1>3, PoolAssumption, TopologyAssumption

\* A sequence and what follows its first element.
LEMMA Shift ==
    ASSUME NEW n \in Nat, NEW S, NEW s \in [1 .. n + 1 -> S], NEW t \in [1 .. n -> S],
           \A i \in 1 .. n : t[i] = s[i + 1]
    PROVE  /\ ToSet(s) = ToSet(t) \cup {s[1]}
           /\ IsInjective(s) => IsInjective(t) /\ s[1] \notin ToSet(t)
           /\ IsInjective(t) /\ s[1] \notin ToSet(t) => IsInjective(s)
<1>1. \A i \in 1 .. n + 1 : i = 1 \/ (i - 1 \in 1 .. n /\ s[i] = t[i - 1])
  <2> SUFFICES ASSUME NEW i \in 1 .. n + 1, i # 1
               PROVE  i - 1 \in 1 .. n /\ s[i] = t[i - 1]
    OBVIOUS
  <2>1. i - 1 \in 1 .. n /\ (i - 1) + 1 = i
    OBVIOUS
  <2> QED
    BY <2>1
<1>2. DOMAIN s = 1 .. n + 1 /\ DOMAIN t = 1 .. n /\ 1 \in 1 .. n + 1
      /\ \A i \in 1 .. n : i + 1 \in 1 .. n + 1 /\ i + 1 # 1
  OBVIOUS
<1>3. ToSet(s) \subseteq ToSet(t) \cup {s[1]}
  BY <1>1, <1>2 DEF ToSet
<1>4. ToSet(t) \cup {s[1]} \subseteq ToSet(s)
  BY <1>2 DEF ToSet
<1>5. ASSUME IsInjective(s)
      PROVE  IsInjective(t) /\ s[1] \notin ToSet(t)
  BY <1>2, <1>5 DEF IsInjective, ToSet
<1>6. ASSUME IsInjective(t), s[1] \notin ToSet(t)
      PROVE  IsInjective(s)
  <2> SUFFICES ASSUME NEW i \in 1 .. n + 1, NEW j \in 1 .. n + 1, s[i] = s[j]
               PROVE  i = j
    BY <1>2 DEF IsInjective
  <2>1. CASE i = 1 \/ j = 1
    BY <1>1, <1>2, <1>6, <2>1 DEF ToSet
  <2>2. CASE i # 1 /\ j # 1
    <3>1. t[i - 1] = t[j - 1] /\ {i - 1, j - 1} \subseteq 1 .. n
      BY <1>1, <2>2
    <3>2. i - 1 = j - 1
      BY <1>2, <1>6, <3>1 DEF IsInjective
    <3> QED
      BY <3>2
  <2> QED
    BY <2>1, <2>2
<1> QED
  BY <1>3, <1>4, <1>5, <1>6

\* tree_alloc_node returns a node that was not in use.
LEMMA AllocAdds ==
    ASSUME NEW h, GoodHeap(h), HasRoom(h)
    PROVE  /\ NextNode(h) \in NodeIds \ Live(h)
           /\ GoodHeap(AllocNode(h))
           /\ Live(AllocNode(h)) = Live(h) \cup {NextNode(h)}
<1> DEFINE n == NextNode(h)
           g == AllocNode(h)
<1>0. h.pool \in Seq(NodeIds) /\ h.used \in SUBSET NodeIds
      /\ h = [pool |-> h.pool, used |-> h.used]
  BY DEF GoodHeap
<1>1. CASE h.pool # <<>>
  <2>1. PICK s, t, k : /\ s = h.pool /\ t = Tail(s) /\ k = Len(t)
    OBVIOUS
  <2>2. n = s[1] /\ g = [pool |-> t, used |-> h.used]
    <3>1. n = Head(s) /\ Head(s) = s[1]
      BY <1>0, <1>1, <2>1 DEF NextNode
    <3>2. g = [h EXCEPT !.pool = Tail(s)]
      BY <1>1, <2>1 DEF AllocNode
    <3>3. g = [pool |-> Tail(s), used |-> h.used]
      BY <1>0, <3>2
    <3> QED
      BY <2>1, <3>1, <3>3
  <2>3. /\ t \in Seq(NodeIds) /\ k \in Nat
        /\ t \in [1 .. k -> NodeIds] /\ s \in [1 .. k + 1 -> NodeIds]
        /\ \A i \in 1 .. k : t[i] = s[i + 1]
    <3>1. s \in Seq(NodeIds) /\ Len(s) \in Nat /\ Len(s) # 0
      BY <1>0, <1>1, <2>1
    <3>2. t \in Seq(NodeIds) /\ k = Len(s) - 1 /\ k + 1 = Len(s) /\ k \in Nat
      BY <2>1, <3>1
    <3>3. t \in [1 .. k -> NodeIds] /\ s \in [1 .. k + 1 -> NodeIds]
      <4>1. s \in [1 .. Len(s) -> NodeIds] /\ t \in [1 .. Len(t) -> NodeIds]
        BY <3>1, <3>2
      <4> QED
        BY <4>1, <2>1, <3>2, Zenon
    <3>4. \A i \in 1 .. k : t[i] = s[i + 1]
      BY <2>1, <3>1, <3>2
    <3> QED
      BY <3>2, <3>3, <3>4
  <2>4. IsInjective(s) /\ ToSet(s) \subseteq h.used
    BY <2>1 DEF GoodHeap
  <2>5. ToSet(s) = ToSet(t) \cup {n} /\ IsInjective(t) /\ n \notin ToSet(t)
    <3>1. /\ ToSet(s) = ToSet(t) \cup {s[1]}
          /\ IsInjective(s) => IsInjective(t) /\ s[1] \notin ToSet(t)
          /\ IsInjective(t) /\ s[1] \notin ToSet(t) => IsInjective(s)
      BY <2>3, Shift
    <3> QED
      BY <2>2, <2>4, <3>1
  <2>6. n \in NodeIds
    BY <2>2, <2>3
  <2> QED
    BY <1>0, <2>1, <2>2, <2>3, <2>4, <2>5, <2>6 DEF GoodHeap, Live
<1>2. CASE h.pool = <<>>
  <2>1. n \in NodeIds /\ n \notin h.used
    BY <1>2 DEF NextNode, HasRoom
  <2>2. g = [pool |-> h.pool, used |-> h.used \cup {n}]
    BY <1>0, <1>2 DEF AllocNode
  <2> QED
    BY <1>0, <1>2, <2>1, <2>2 DEF GoodHeap, Live, ToSet
<1> QED
  BY <1>1, <1>2

\* tree_free_node takes a node out of use, whether the pool is full or not.
LEMMA FreeRemoves ==
    ASSUME NEW h, GoodHeap(h), NEW n, n \in Live(h) \cup {Null}
    PROVE  GoodHeap(FreeNode(h, n)) /\ Live(FreeNode(h, n)) = Live(h) \ {n}
<1>0. h.pool \in Seq(NodeIds) /\ h.used \in SUBSET NodeIds
      /\ h = [pool |-> h.pool, used |-> h.used]
  BY DEF GoodHeap
<1>1. CASE n = Null
  BY <1>0, <1>1, PoolAssumption, TopologyAssumption DEF FreeNode, Live, Null, NodeIds
<1>2. CASE n # Null /\ Len(h.pool) < Threshold
  <2>1. PICK s, t, k : t = h.pool /\ s = <<n>> \o t /\ k = Len(t)
    OBVIOUS
  <2>2. FreeNode(h, n) = [pool |-> s, used |-> h.used]
    BY <1>0, <1>2, <2>1 DEF FreeNode
  <2>3. n \in NodeIds /\ n \in h.used /\ n \notin ToSet(t)
    BY <1>0, <1>2, <2>1 DEF Live
  <2>4. /\ s \in Seq(NodeIds) /\ k \in Nat /\ s[1] = n
        /\ t \in [1 .. k -> NodeIds] /\ s \in [1 .. k + 1 -> NodeIds]
        /\ \A i \in 1 .. k : t[i] = s[i + 1]
    <3>1. t \in Seq(NodeIds) /\ k \in Nat /\ t \in [1 .. k -> NodeIds]
      BY <1>0, <2>1
    <3>2. <<n>> \in Seq(NodeIds) /\ Len(<<n>>) = 1
      BY <2>3
    <3>3. s \in Seq(NodeIds) /\ Len(s) = k + 1 /\ s[1] = n
      BY <2>1, <3>1, <3>2
    <3>4. s \in [1 .. k + 1 -> NodeIds]
      BY <3>3
    <3>5. \A i \in 1 .. k : t[i] = s[i + 1]
      BY <2>1, <3>1, <3>2
    <3> QED
      BY <3>1, <3>3, <3>4, <3>5
  <2>5. IsInjective(t) /\ ToSet(t) \subseteq h.used
    BY <2>1 DEF GoodHeap
  <2>6. ToSet(s) = ToSet(t) \cup {n} /\ IsInjective(s)
    <3>1. /\ ToSet(s) = ToSet(t) \cup {s[1]}
          /\ IsInjective(s) => IsInjective(t) /\ s[1] \notin ToSet(t)
          /\ IsInjective(t) /\ s[1] \notin ToSet(t) => IsInjective(s)
      BY <2>4, Shift
    <3> QED
      BY <2>3, <2>4, <2>5, <3>1
  <2> QED
    BY <1>0, <2>1, <2>2, <2>3, <2>4, <2>5, <2>6 DEF GoodHeap, Live
<1>3. CASE n # Null /\ ~(Len(h.pool) < Threshold)
  <2>1. FreeNode(h, n) = [pool |-> h.pool, used |-> h.used \ {n}]
    BY <1>0, <1>3 DEF FreeNode
  <2> QED
    BY <1>0, <1>3, <2>1 DEF GoodHeap, Live
<1> QED
  BY <1>1, <1>2, <1>3
-----------------------------------------------------------------------------
(* What an activation does to the owners *)

\* The first activation allocates the root and its child_node.
LEMMA Begun ==
    ASSUME NEW h, GoodHeap(h), Live(h) = {}, HasRoom(h), HasRoom(AllocNode(h)),
           NEW c \in Family(1), NEW b \in Family(1),
           c[1] = NextNode(AllocNode(h)), b[1] = Null
    PROVE  Owns(NextNode(h), c, b, AllocNode(AllocNode(h)))
<1>1. /\ GoodHeap(AllocNode(h)) /\ Live(AllocNode(h)) = {NextNode(h)}
      /\ NextNode(h) \in NodeIds
  BY AllocAdds
<1>2. /\ GoodHeap(AllocNode(AllocNode(h))) /\ c[1] \in NodeIds /\ c[1] # NextNode(h)
      /\ Live(AllocNode(AllocNode(h))) = {NextNode(h), c[1]}
  <2> DEFINE g == AllocNode(h)
  <2> HIDE DEF g
  <2>1. /\ GoodHeap(AllocNode(g)) /\ NextNode(g) \in NodeIds \ Live(g)
        /\ Live(AllocNode(g)) = Live(g) \cup {NextNode(g)}
    BY <1>1, AllocAdds DEF g
  <2> QED
    BY <1>1, <2>1 DEF g
<1>3. Null \notin NodeIds
  BY DEF Null, NodeIds
<1>4. 1 \in 1 .. 1 /\ \A i \in 1 .. 1 : i = 1
  OBVIOUS
<1>5. Held(NextNode(h), c, b) = {NextNode(h), c[1]}
  BY <1>1, <1>2, <1>3, <1>4 DEF Held, ToSet, Family
<1>6. Apart(NextNode(h), c, b)
  BY <1>1, <1>2, <1>3, <1>4 DEF Apart, Family
<1> QED
  BY <1>1, <1>2, <1>5, <1>6 DEF Owns

\* A child_node is allocated where there was none.
LEMMA Refilled ==
    ASSUME NEW L \in Nat \ {0}, NEW c \in Family(L), NEW b \in Family(L), NEW r, NEW h,
           Owns(r, c, b, h), HasRoom(h), c[L] = Null,
           NEW d \in Family(L), d[L] = NextNode(h), \A i \in 1 .. L - 1 : d[i] = c[i]
    PROVE  Owns(r, d, b, AllocNode(h))
<1> DEFINE n == NextNode(h)
           g == AllocNode(h)
<1>1. /\ n \in NodeIds /\ n \notin Held(r, c, b) /\ GoodHeap(g)
      /\ Live(g) = Held(r, c, b) \cup {n}
  BY AllocAdds DEF Owns
<1> HIDE DEF n, g
<1>2. /\ L \in 1 .. L /\ \A i \in 1 .. L : i = L \/ i \in 1 .. L - 1
      /\ \A i \in 1 .. L - 1 : i \in 1 .. L
      /\ d[L] = n /\ DOMAIN c = 1 .. L /\ DOMAIN b = 1 .. L /\ DOMAIN d = 1 .. L
  BY DEF Family, n
<1>3. Null \notin NodeIds
  BY DEF Null, NodeIds
<1>4. n # r /\ n # Null /\ \A i \in 1 .. L : n # c[i] /\ n # b[i]
  BY <1>1, <1>2, <1>3 DEF Held, ToSet
<1>5. Held(r, d, b) = Held(r, c, b) \cup {n}
  <2>1. ToSet(d) \subseteq ToSet(c) \cup {n}
    BY <1>2 DEF ToSet
  <2>2. ToSet(c) \subseteq ToSet(d) \cup {Null} /\ n \in ToSet(d)
    BY <1>2 DEF ToSet
  <2> QED
    BY <1>4, <2>1, <2>2 DEF Held
<1>6. Apart(r, d, b)
  <2> SUFFICES ASSUME NEW i \in 1 .. L, NEW j \in 1 .. L
               PROVE  /\ d[i] # Null => /\ d[i] # r /\ d[i] # b[j]
                                        /\ d[i] = d[j] => i = j
                      /\ b[i] # Null => b[i] # r /\ (b[i] = b[j] => i = j)
    BY <1>2 DEF Apart
  <2>1. /\ c[i] # Null => /\ c[i] # r /\ c[i] # b[j] /\ (c[i] = c[j] => i = j)
        /\ b[i] # Null => b[i] # r /\ (b[i] = b[j] => i = j)
    BY <1>2 DEF Owns, Apart
  <2> QED
    BY <1>2, <1>4, <2>1
<1> QED
  BY <1>1, <1>5, <1>6 DEF Owns, g

\* A leaf becomes the candidate, and the candidate before it the child_node.
LEMMA Swapped ==
    ASSUME NEW L \in Nat \ {0}, NEW c \in Family(L), NEW b \in Family(L), NEW r, NEW h,
           Owns(r, c, b, h),
           NEW d \in Family(L), d[L] = b[L], \A i \in 1 .. L - 1 : d[i] = c[i],
           NEW e \in Family(L), e[L] = c[L], \A i \in 1 .. L - 1 : e[i] = b[i]
    PROVE  Owns(r, d, e, h)
<1>2. /\ L \in 1 .. L /\ \A i \in 1 .. L : i = L \/ i \in 1 .. L - 1
      /\ \A i \in 1 .. L - 1 : i \in 1 .. L /\ i # L
      /\ DOMAIN c = 1 .. L /\ DOMAIN b = 1 .. L /\ DOMAIN d = 1 .. L /\ DOMAIN e = 1 .. L
  BY DEF Family
<1>3. Held(r, d, e) = Held(r, c, b)
  <2>1. ToSet(d) \cup ToSet(e) \subseteq ToSet(c) \cup ToSet(b)
    BY <1>2 DEF ToSet
  <2>2. ToSet(c) \cup ToSet(b) \subseteq ToSet(d) \cup ToSet(e)
    BY <1>2 DEF ToSet
  <2> QED
    BY <2>1, <2>2 DEF Held
<1>4. \A i, j \in 1 .. L : /\ c[i] # Null => /\ c[i] # r /\ c[i] # b[j]
                                             /\ c[i] = c[j] => i = j
                           /\ b[i] # Null => b[i] # r /\ (b[i] = b[j] => i = j)
  BY <1>2 DEF Owns, Apart
<1>5. Apart(r, d, e)
  <2> SUFFICES ASSUME NEW i \in 1 .. L, NEW j \in 1 .. L
               PROVE  /\ d[i] # Null => /\ d[i] # r /\ d[i] # e[j]
                                        /\ d[i] = d[j] => i = j
                      /\ e[i] # Null => e[i] # r /\ (e[i] = e[j] => i = j)
    BY <1>2 DEF Apart
  <2>1. CASE i = L /\ j = L
    BY <1>2, <1>4, <2>1
  <2>2. CASE i = L /\ j # L
    BY <1>2, <1>4, <2>2
  <2>3. CASE i # L /\ j = L
    BY <1>2, <1>4, <2>3
  <2>4. CASE i # L /\ j # L
    BY <1>2, <1>4, <2>4
  <2> QED
    BY <2>1, <2>2, <2>3, <2>4
<1> QED
  BY <1>3, <1>5 DEF Owns

\* A candidate goes up one activation, in exchange for the one there.
LEMMA Exchanged ==
    ASSUME NEW L \in Nat, L > 1, NEW c \in Family(L), NEW b \in Family(L), NEW r, NEW h,
           Owns(r, c, b, h),
           NEW e \in Family(L), e[L] = b[L - 1], e[L - 1] = b[L],
           \A i \in 1 .. L - 2 : e[i] = b[i]
    PROVE  Owns(r, c, e, h)
<1>2. /\ L \in 1 .. L /\ L - 1 \in 1 .. L /\ L # L - 1
      /\ \A i \in 1 .. L : i = L \/ i = L - 1 \/ (i \in 1 .. L - 2 /\ i # L /\ i # L - 1)
      /\ DOMAIN c = 1 .. L /\ DOMAIN b = 1 .. L /\ DOMAIN e = 1 .. L
  BY DEF Family
<1>3. Held(r, c, e) = Held(r, c, b)
  <2>1. ToSet(e) \subseteq ToSet(b)
    BY <1>2 DEF ToSet
  <2>2. ToSet(b) \subseteq ToSet(e)
    BY <1>2 DEF ToSet
  <2> QED
    BY <2>1, <2>2 DEF Held
<1>4. \A i, j \in 1 .. L : /\ c[i] # Null => /\ c[i] # r /\ c[i] # b[j]
                                             /\ c[i] = c[j] => i = j
                           /\ b[i] # Null => b[i] # r /\ (b[i] = b[j] => i = j)
  BY <1>2 DEF Owns, Apart
<1> DEFINE at(i) == IF i = L THEN L - 1 ELSE IF i = L - 1 THEN L ELSE i
<1>5. \A i \in 1 .. L : at(i) \in 1 .. L /\ e[i] = b[at(i)]
  BY <1>2
<1>6. \A i, j \in 1 .. L : at(i) = at(j) => i = j
  BY <1>2
<1> HIDE DEF at
<1>7. Apart(r, c, e)
  <2> SUFFICES ASSUME NEW i \in 1 .. L, NEW j \in 1 .. L
               PROVE  /\ c[i] # Null => /\ c[i] # r /\ c[i] # e[j]
                                        /\ c[i] = c[j] => i = j
                      /\ e[i] # Null => e[i] # r /\ (e[i] = e[j] => i = j)
    BY <1>2 DEF Apart
  <2>1. c[i] # Null => c[i] # r /\ c[i] # e[j] /\ (c[i] = c[j] => i = j)
    BY <1>4, <1>5
  <2>2. e[i] # Null => e[i] # r /\ (e[i] = e[j] => i = j)
    BY <1>4, <1>5, <1>6
  <2> QED
    BY <2>1, <2>2
<1> QED
  BY <1>3, <1>7 DEF Owns

\* An activation begins with a child_node and no candidate.
LEMMA Pushed ==
    ASSUME NEW L \in Nat, NEW c \in Family(L), NEW b \in Family(L), NEW r, NEW h,
           Owns(r, c, b, h), HasRoom(h),
           NEW d \in Family(L + 1), d[L + 1] = NextNode(h), \A i \in 1 .. L : d[i] = c[i],
           NEW e \in Family(L + 1), e[L + 1] = Null, \A i \in 1 .. L : e[i] = b[i]
    PROVE  Owns(r, d, e, AllocNode(h))
<1> DEFINE n == NextNode(h)
           g == AllocNode(h)
<1>1. /\ n \in NodeIds /\ n \notin Held(r, c, b) /\ GoodHeap(g)
      /\ Live(g) = Held(r, c, b) \cup {n}
  BY AllocAdds DEF Owns
<1> HIDE DEF n, g
<1>2. /\ L + 1 \in 1 .. L + 1 /\ \A i \in 1 .. L + 1 : i = L + 1 \/ i \in 1 .. L
      /\ \A i \in 1 .. L : i \in 1 .. L + 1 /\ i # L + 1
      /\ d[L + 1] = n /\ DOMAIN c = 1 .. L /\ DOMAIN b = 1 .. L
      /\ DOMAIN d = 1 .. L + 1 /\ DOMAIN e = 1 .. L + 1
  BY DEF Family, n
<1>3. Null \notin NodeIds
  BY DEF Null, NodeIds
<1>4. n # r /\ n # Null /\ \A i \in 1 .. L : n # c[i] /\ n # b[i]
  BY <1>1, <1>2, <1>3 DEF Held, ToSet
<1>5. Held(r, d, e) = Held(r, c, b) \cup {n}
  <2>1. ToSet(d) = ToSet(c) \cup {n}
    BY <1>2 DEF ToSet
  <2>2. ToSet(e) = ToSet(b) \cup {Null}
    BY <1>2 DEF ToSet
  <2> QED
    BY <1>4, <2>1, <2>2 DEF Held
<1>6. Apart(r, d, e)
  <2> SUFFICES ASSUME NEW i \in 1 .. L + 1, NEW j \in 1 .. L + 1
               PROVE  /\ d[i] # Null => /\ d[i] # r /\ d[i] # e[j]
                                        /\ d[i] = d[j] => i = j
                      /\ e[i] # Null => e[i] # r /\ (e[i] = e[j] => i = j)
    BY <1>2 DEF Apart
  <2>1. \A k, l \in 1 .. L :
          /\ c[k] # Null => /\ c[k] # r /\ c[k] # b[l] /\ (c[k] = c[l] => k = l)
          /\ b[k] # Null => b[k] # r /\ (b[k] = b[l] => k = l)
    BY <1>2 DEF Owns, Apart
  <2>2. CASE i = L + 1 /\ j = L + 1
    BY <1>2, <1>4, <2>2
  <2>3. CASE i = L + 1 /\ j \in 1 .. L
    BY <1>2, <1>4, <2>3
  <2>4. CASE i \in 1 .. L /\ j = L + 1
    BY <1>2, <1>4, <2>1, <2>4
  <2>5. CASE i \in 1 .. L /\ j \in 1 .. L
    BY <1>2, <2>1, <2>5
  <2> QED
    BY <1>2, <2>2, <2>3, <2>4, <2>5
<1> QED
  BY <1>1, <1>5, <1>6 DEF Owns, g

\* An activation ends: what it still owns is freed.
LEMMA Popped ==
    ASSUME NEW L \in Nat, L > 0, NEW c \in Family(L), NEW b \in Family(L), NEW r, NEW h,
           Owns(r, c, b, h),
           NEW d \in Family(L - 1), \A i \in 1 .. L - 1 : d[i] = c[i],
           NEW e \in Family(L - 1), \A i \in 1 .. L - 1 : e[i] = b[i]
    PROVE  Owns(r, d, e, FreeNode(FreeNode(h, c[L]), b[L]))
<1> DEFINE g == FreeNode(h, c[L])
           f == FreeNode(g, b[L])
<1>1. /\ L \in 1 .. L /\ \A i \in 1 .. L : i = L \/ i \in 1 .. L - 1
      /\ \A i \in 1 .. L - 1 : i \in 1 .. L /\ i # L
      /\ DOMAIN c = 1 .. L /\ DOMAIN b = 1 .. L
      /\ DOMAIN d = 1 .. L - 1 /\ DOMAIN e = 1 .. L - 1
  BY DEF Family
<1>2. \A k, l \in 1 .. L :
          /\ c[k] # Null => /\ c[k] # r /\ c[k] # b[l] /\ (c[k] = c[l] => k = l)
          /\ b[k] # Null => b[k] # r /\ (b[k] = b[l] => k = l)
  BY <1>1 DEF Owns, Apart
<1>3. GoodHeap(g) /\ Live(g) = Held(r, c, b) \ {c[L]}
  <2>1. c[L] \in Live(h) \cup {Null}
    BY <1>1 DEF Owns, Held, ToSet
  <2> QED
    BY <2>1, FreeRemoves DEF Owns
<1>4. GoodHeap(f) /\ Live(f) = (Held(r, c, b) \ {c[L]}) \ {b[L]}
  <2>1. b[L] \in Live(g) \cup {Null}
    BY <1>1, <1>2, <1>3 DEF Held, ToSet
  <2> HIDE DEF g
  <2> QED
    BY <2>1, <1>3, FreeRemoves
<1> HIDE DEF f, g
<1>5. (Held(r, c, b) \ {c[L]}) \ {b[L]} = Held(r, d, e)
  <2>1. \A x \in (Held(r, c, b) \ {c[L]}) \ {b[L]} : x \in Held(r, d, e)
    BY <1>1 DEF Held, ToSet
  <2>2. \A x \in ToSet(d) : x \in ToSet(c) /\ (x # Null => x # c[L] /\ x # b[L])
    BY <1>1, <1>2 DEF ToSet
  <2>3. \A x \in ToSet(e) : x \in ToSet(b) /\ (x # Null => x # c[L] /\ x # b[L])
    <3> SUFFICES ASSUME NEW i \in 1 .. L - 1
                 PROVE  /\ b[i] \in ToSet(b)
                        /\ b[i] # Null => b[i] # c[L] /\ b[i] # b[L]
      BY <1>1 DEF ToSet
    <3>1. i \in 1 .. L /\ i # L /\ b[i] \in ToSet(b)
      BY <1>1 DEF ToSet
    <3> QED
      BY <1>1, <1>2, <3>1
  <2>4. r # Null => r # c[L] /\ r # b[L]
    BY <1>1, <1>2
  <2> QED
    BY <2>1, <2>2, <2>3, <2>4 DEF Held
<1>6. Apart(r, d, e)
  BY <1>1, <1>2 DEF Apart
<1> QED
  BY <1>4, <1>5, <1>6 DEF Owns, f, g
-----------------------------------------------------------------------------
(* The search *)

\* What is true of the activation at the top.
LEMMA TopFacts ==
    ASSUME Inv, state = "search"
    PROVE  /\ Len(stack) \in 1 .. NumProcs /\ stack \in [1 .. Len(stack) -> Frame]
           /\ Len(stack) \in Nat \ {0} /\ {1, Len(stack)} \subseteq 1 .. Len(stack)
           /\ stack # <<>> /\ Top = stack[Len(stack)]
           /\ Top.node \in NodeIds /\ Top.child \in NodeIds \cup {Null}
           /\ Top.next \in 0 .. NumSockets
           /\ TopNode \in TreeNode /\ Len(TopNode.placed) = Len(stack) - 1
           /\ Children \in Family(Len(stack)) /\ Candidates \in Family(Len(stack))
           /\ \A i \in 1 .. Len(stack) : /\ Children[i] = stack[i].child
                                         /\ Candidates[i] = mem[stack[i].node].best
           /\ Owns(stack[1].node, Children, Candidates, heap)
<1>1. /\ Running /\ stack # <<>> /\ Len(stack) <= NumProcs /\ stack \in Seq(Frame)
      /\ mem \in [NodeIds -> TreeNode]
  BY DEF Inv, Running, TypeOK
<1>2. /\ Len(stack) \in 1 .. NumProcs /\ stack \in [1 .. Len(stack) -> Frame]
      /\ Top = stack[Len(stack)] /\ {1, Len(stack)} \subseteq 1 .. Len(stack)
      /\ Len(stack) \in Nat \ {0}
  <2>1. NumProcs \in Nat
    BY PoolAssumption, TopologyAssumption
  <2>2. Len(stack) \in Nat /\ Len(stack) # 0
    BY <1>1
  <2> QED
    BY <1>1, <2>1, <2>2 DEF Top
<1>3. \A i \in 1 .. Len(stack) :
          /\ stack[i].node \in NodeIds /\ stack[i].child \in NodeIds \cup {Null}
          /\ stack[i].next \in 0 .. NumSockets /\ mem[stack[i].node] \in TreeNode
          /\ mem[stack[i].node].best \in NodeIds \cup {Null}
  BY <1>1, <1>2 DEF Frame, TreeNode
<1>4. TopNode \in TreeNode /\ Len(TopNode.placed) = Len(stack) - 1
  BY <1>1, <1>2, <1>3 DEF Running, Links, TopNode
<1>5. Children \in Family(Len(stack)) /\ Candidates \in Family(Len(stack))
  BY <1>2, <1>3 DEF Children, Candidates, Family
<1>6. Owns(stack[1].node, Children, Candidates, heap)
  BY <1>1 DEF Running, Ownership
<1>7. \A i \in 1 .. Len(stack) : /\ Children[i] = stack[i].child
                                 /\ Candidates[i] = mem[stack[i].node].best
  BY <1>2 DEF Children, Candidates
<1> QED
  BY <1>1, <1>2, <1>3, <1>4, <1>5, <1>6, <1>7

\* The nodes being explored are all different, no candidates, and not the
\* child_node at the top.
LEMMA NodesApart ==
    ASSUME Inv, state = "search"
    PROVE  \A i, j \in 1 .. Len(stack) :
               /\ stack[i].node = stack[j].node => i = j
               /\ stack[i].node # Candidates[j]
               /\ stack[i].node # Top.child
               /\ stack[i].node \in NodeIds \cap Held(stack[1].node, Children, Candidates)
<1> DEFINE L == Len(stack)
           r == stack[1].node
<1>1. /\ L \in Nat \ {0} /\ DOMAIN Children = 1 .. L /\ DOMAIN Candidates = 1 .. L
      /\ Top = stack[L] /\ Null \notin NodeIds /\ DOMAIN stack = 1 .. L
      /\ \A i \in 1 .. L : /\ Children[i] = stack[i].child /\ stack[i].node \in NodeIds
      /\ 1 \in 1 .. L /\ L \in 1 .. L /\ Top.child = Children[L]
  <2>1. L \in Nat \ {0} /\ 1 \in 1 .. L /\ L \in 1 .. L
    BY TopFacts
  <2>2. /\ DOMAIN Children = 1 .. L /\ DOMAIN Candidates = 1 .. L
        /\ DOMAIN stack = 1 .. L
    BY TopFacts DEF Family
  <2>3. \A i \in 1 .. L : Children[i] = stack[i].child /\ stack[i].node \in NodeIds
    <3>1. \A i \in 1 .. L : stack[i] \in Frame /\ Children[i] = stack[i].child
      BY TopFacts
    <3> QED
      BY <3>1 DEF Frame
  <2>4. Top = stack[L]
    BY TopFacts
  <2> QED
    BY <2>1, <2>2, <2>3, <2>4 DEF Null, NodeIds
<1>2. \A i, j \in 1 .. L :
        /\ Children[i] # Null => /\ Children[i] # r /\ Children[i] # Candidates[j]
                                 /\ Children[i] = Children[j] => i = j
        /\ Candidates[i] # Null => Candidates[i] # r
  <2>1. Owns(r, Children, Candidates, heap)
    BY TopFacts
  <2> HIDE DEF r
  <2> QED
    BY <1>1, <2>1 DEF Owns, Apart
<1>3. \A i \in 1 .. L : i = 1 \/ (i - 1 \in 1 .. L /\ i - 1 # L
                                  /\ stack[i].node = Children[i - 1])
  <2>1. \A i \in 1 .. L : i > 1 => stack[i].node = stack[i - 1].child
    BY <1>1 DEF Inv, Running, Links
  <2>2. \A i \in 1 .. L : i = 1 \/ (i > 1 /\ i - 1 \in 1 .. L /\ i - 1 # L)
    BY <1>1
  <2> HIDE DEF L
  <2> QED
    BY <1>1, <2>1, <2>2
<1>4. ASSUME NEW i \in 1 .. L, NEW j \in 1 .. L, stack[i].node = stack[j].node
      PROVE  i = j
  <2>1. CASE i = 1 \/ j = 1
    BY <1>1, <1>2, <1>3, <1>4, <2>1
  <2>2. CASE i # 1 /\ j # 1
    <3>1. i - 1 = j - 1
      BY <1>1, <1>2, <1>3, <1>4, <2>2
    <3> QED
      BY <3>1
  <2> QED
    BY <2>1, <2>2
<1>5. ASSUME NEW i \in 1 .. L, NEW j \in 1 .. L
      PROVE  stack[i].node # Candidates[j] /\ stack[i].node # Top.child
  <2>1. CASE i = 1
    BY <1>1, <1>2, <2>1
  <2>2. CASE i # 1
    BY <1>1, <1>2, <1>3, <2>2
  <2> QED
    BY <2>1, <2>2
<1>6. ASSUME NEW i \in 1 .. L
      PROVE  stack[i].node \in NodeIds \cap Held(r, Children, Candidates)
  <2>1. CASE i = 1
    BY <1>1, <2>1 DEF Held
  <2>2. CASE i # 1
    BY <1>1, <1>3, <2>2 DEF Held, ToSet
  <2> QED
    BY <2>1, <2>2
<1> QED
  BY <1>4, <1>5, <1>6

\* The child_node of this turn, allocated or not, is nobody else's.
LEMMA ChildFacts ==
    ASSUME Inv, Searching
    PROVE  /\ CurrentChild \in NodeIds
           /\ \A i \in 1 .. Len(stack) :
                  stack[i].node # CurrentChild /\ Candidates[i] # CurrentChild
           /\ Owns(stack[1].node, [Children EXCEPT ![Len(stack)] = CurrentChild],
                   Candidates, HeapNow)
<1> DEFINE L == Len(stack)
           r == stack[1].node
           d == [Children EXCEPT ![L] = CurrentChild]
<1>1. /\ L \in 1 .. NumProcs /\ L \in Nat \ {0} /\ Top = stack[L] /\ L \in 1 .. L
      /\ Top.child \in NodeIds \cup {Null} /\ Top.child = Children[L]
      /\ Children \in Family(L) /\ Candidates \in Family(L)
      /\ Owns(r, Children, Candidates, heap) /\ Null \notin NodeIds
  <2>1. L \in 1 .. NumProcs /\ L \in Nat \ {0} /\ L \in 1 .. L
    BY TopFacts DEF Searching
  <2>2. Top = stack[L] /\ \A i \in 1 .. L : Children[i] = stack[i].child
    BY TopFacts DEF Searching
  <2>3. /\ Top.child \in NodeIds \cup {Null}
        /\ Children \in Family(L) /\ Candidates \in Family(L)
        /\ Owns(r, Children, Candidates, heap)
    BY TopFacts DEF Searching
  <2> QED
    BY <2>1, <2>2, <2>3 DEF Null, NodeIds
<1>2. \A i \in 1 .. L : /\ stack[i].node # Top.child
                        /\ stack[i].node \in Held(r, Children, Candidates)
  BY NodesApart DEF Searching
<1>3. CASE Top.child # Null
  <2>1. CurrentChild = Top.child /\ HeapNow = heap
    BY <1>3 DEF CurrentChild, HeapNow
  <2>2. d = Children
    BY <1>1, <2>1 DEF Family
  <2>3. \A i \in 1 .. L : Candidates[i] # Top.child
    BY <1>1, <1>3 DEF Owns, Apart, Family
  <2> QED
    BY <1>1, <1>2, <1>3, <2>1, <2>2, <2>3
<1>4. CASE Top.child = Null
  <2>1. CurrentChild = NextNode(heap) /\ HeapNow = AllocNode(heap)
    BY <1>4 DEF CurrentChild, HeapNow
  <2>2. GoodHeap(heap) /\ Live(heap) = Held(r, Children, Candidates) /\ HasRoom(heap)
    <3>1. GoodHeap(heap) /\ Live(heap) = Held(r, Children, Candidates)
      BY <1>1 DEF Owns
    <3>2. L \in Nat /\ L <= NumProcs
      BY <1>1, PoolAssumption, TopologyAssumption
    <3> QED
      BY <1>1, <3>1, <3>2, RoomLeft
  <2>3. CurrentChild \in NodeIds /\ CurrentChild \notin Held(r, Children, Candidates)
    BY <2>1, <2>2, AllocAdds
  <2>4. d \in Family(L) /\ d[L] = NextNode(heap)
        /\ \A i \in 1 .. L - 1 : d[i] = Children[i]
    BY <1>1, <2>1, <2>3 DEF Family
  <2>5. Owns(r, d, Candidates, AllocNode(heap))
    <3> HIDE DEF d, L, r
    <3> QED
      BY <1>1, <1>4, <2>2, <2>4, Refilled
  <2>6. \A i \in 1 .. L : Candidates[i] # CurrentChild
    BY <1>1, <2>3 DEF Held, ToSet, Family
  <2> QED
    BY <1>2, <2>1, <2>3, <2>5, <2>6
<1> QED
  BY <1>3, <1>4

\* Whoever is next is a process, and its node a node.
LEMMA PlacedTyped ==
    ASSUME Inv, Searching
    PROVE  /\ Placed \in TreeNode /\ Leaf \in TreeNode
           /\ Placed.best = Null /\ Placed.father = Top.node
           /\ Len(Placed.placed) = Len(stack)
           /\ Leaf.best = Null /\ Leaf.placed = Placed.placed
<1>1. /\ Len(stack) \in 1 .. NumProcs /\ TopNode \in TreeNode /\ Top.node \in NodeIds
      /\ Len(TopNode.placed) = Len(stack) - 1 /\ Top.next \in 0 .. NumSockets
  BY TopFacts DEF Searching
<1>2. /\ TopNode.min \in Int /\ TopNode.norme \in Int /\ TopNode.changes \in Nat
      /\ TopNode.free \in [Sockets -> Int] /\ TopNode.placed \in Seq(Sockets)
  BY <1>1 DEF TreeNode
<1>3. Top.next \in Sockets
  BY <1>1, PoolAssumption, TopologyAssumption DEF Searching, Exhausted, Sockets
<1>4. demand \in [Ranks -> Nat]
  BY DEF Inv, TypeOK
<1>5. NextProcess \in Ranks
  <2>1. Len(TopNode.placed) + 1 \in 1 .. NumProcs
    BY <1>1, PoolAssumption, TopologyAssumption
  <2> QED
    BY <1>4, <2>1, Positions DEF NextProcess, Requests
<1> DEFINE left == TopNode.free[Top.next] - demand[NextProcess]
           norme == IF left > 0 THEN TopNode.norme
                    ELSE IF TopNode.norme = IntMin THEN left
                    ELSE TopNode.norme + left
           changes == TopNode.changes
                        + (IF prevSocket[NextProcess] = Top.next THEN 0 ELSE 1)
<1>6. left \in Int /\ norme \in Int /\ changes \in Nat
  BY <1>2, <1>3, <1>4, <1>5
<1>7. Append(TopNode.placed, Top.next) \in Seq(Sockets)
      /\ Len(Append(TopNode.placed, Top.next)) = Len(stack)
  BY <1>1, <1>2, <1>3
<1>8. Placed = [min |-> TopNode.min, norme |-> norme, changes |-> changes,
                free |-> [TopNode.free EXCEPT ![Top.next] = left],
                placed |-> Append(TopNode.placed, Top.next),
                best |-> Null, father |-> Top.node]
  BY DEF Placed
<1>9. [TopNode.free EXCEPT ![Top.next] = left] \in [Sockets -> Int]
  BY <1>2, <1>6
<1> HIDE DEF left, norme, changes
<1>10. Placed \in TreeNode
  BY <1>1, <1>2, <1>6, <1>7, <1>8, <1>9 DEF TreeNode
<1>11. Leaf = [Placed EXCEPT !.min = norme]
  BY <1>8 DEF Leaf
<1>12. Leaf \in TreeNode /\ Leaf.best = Null /\ Leaf.placed = Placed.placed
  BY <1>6, <1>8, <1>10, <1>11 DEF TreeNode
<1> QED
  BY <1>7, <1>8, <1>10, <1>12
-----------------------------------------------------------------------------
(* The steps *)

\* The activations when the loop at the top goes on with another child_node.
LEMMA AdvancedFacts ==
    ASSUME Inv, Searching, NEW c \in NodeIds \cup {Null}
    PROVE  /\ Advanced(c) \in Seq(Frame) /\ Len(Advanced(c)) = Len(stack)
           /\ Advanced(c) \in [1 .. Len(stack) -> Frame] /\ Advanced(c) # <<>>
           /\ \A i \in 1 .. Len(stack) :
                 /\ Advanced(c)[i].node = stack[i].node
                 /\ Advanced(c)[i].child = IF i = Len(stack) THEN c ELSE stack[i].child
                 /\ Advanced(c)[i].next = IF i = Len(stack) THEN Top.next + 1
                                          ELSE stack[i].next
<1> DEFINE L == Len(stack)
           top == [node |-> Top.node, child |-> c, next |-> Top.next + 1]
<1>1. /\ L \in Nat \ {0} /\ L \in 1 .. L /\ stack \in [1 .. L -> Frame] /\ Top = stack[L]
      /\ Top \in Frame
  <2>1. L \in Nat \ {0} /\ L \in 1 .. L /\ stack \in [1 .. L -> Frame] /\ Top = stack[L]
    BY TopFacts DEF Searching
  <2> HIDE DEF L
  <2> QED
    BY <2>1
<1>2. Top.next \in 0 .. NumSockets /\ Top.next # NumSockets /\ NumSockets \in Nat
  BY TopFacts, PoolAssumption, TopologyAssumption DEF Searching, Exhausted
<1>3. top \in Frame
  BY <1>1, <1>2 DEF Frame
<1>4. Advanced(c) = [stack EXCEPT ![L] = top]
  <2>1. Top = [node |-> Top.node, child |-> Top.child, next |-> Top.next]
    BY <1>1 DEF Frame
  <2> DEFINE one == [stack EXCEPT ![L].child = c]
  <2>2. one \in [1 .. L -> Frame]
        /\ one[L] = [node |-> Top.node, child |-> c, next |-> Top.next]
        /\ \A i \in 1 .. L : i # L => one[i] = stack[i]
    BY <1>1, <2>1 DEF Frame
  <2>3. Advanced(c) = [one EXCEPT ![L].next = @ + 1]
    BY DEF Advanced
  <2> HIDE DEF one
  <2>4. /\ Advanced(c) = [one EXCEPT ![L] = [one[L] EXCEPT !.next = @ + 1]]
    BY <2>3
  <2>5. [one[L] EXCEPT !.next = @ + 1] = top
    BY <2>2
  <2>6. [one EXCEPT ![L] = top] = [stack EXCEPT ![L] = top]
    BY <1>1, <2>2
  <2> QED
    BY <2>4, <2>5, <2>6
<1> HIDE DEF top
<1>5. /\ Advanced(c) \in [1 .. L -> Frame] /\ Advanced(c)[L] = top
      /\ \A i \in 1 .. L : i # L => Advanced(c)[i] = stack[i]
  BY <1>1, <1>3, <1>4
<1>6. Advanced(c) \in Seq(Frame) /\ Len(Advanced(c)) = L /\ Advanced(c) # <<>>
  BY <1>1, <1>5
<1>7. top.node = stack[L].node /\ top.child = c /\ top.next = Top.next + 1
  BY <1>1 DEF top
<1> QED
  BY <1>1, <1>5, <1>6, <1>7

\* A turn of the loop that leaves the candidates alone.
LEMMA TurnEnds ==
    ASSUME Inv, Searching, stack' = Advanced(CurrentChild), heap' = HeapNow,
           mem' \in [NodeIds -> TreeNode],
           \A n \in NodeIds \ {CurrentChild} : mem'[n] = mem[n],
           UNCHANGED <<state, caller>>
    PROVE  Inv'
<1> DEFINE L == Len(stack)
           c == CurrentChild
<1>1. /\ L \in Nat \ {0} /\ L \in 1 .. L /\ 1 \in 1 .. L
      /\ Children \in Family(L) /\ Candidates \in Family(L)
      /\ \A i \in 1 .. L : /\ Children[i] = stack[i].child
                           /\ Candidates[i] = mem[stack[i].node].best
                           /\ stack[i].node \in NodeIds
  <2>1. \A i \in 1 .. L : stack[i].node \in NodeIds
    BY NodesApart DEF Searching
  <2> QED
    BY <2>1, TopFacts DEF Searching
<1>2. /\ c \in NodeIds
      /\ \A i \in 1 .. L : stack[i].node # c /\ Candidates[i] # c
      /\ Owns(stack[1].node, [Children EXCEPT ![L] = c], Candidates, HeapNow)
  BY ChildFacts
<1> HIDE DEF c
<1>3. /\ stack' \in Seq(Frame) /\ Len(stack') = L /\ stack' \in [1 .. L -> Frame]
      /\ stack' # <<>> /\ DOMAIN stack' = 1 .. L
      /\ \A i \in 1 .. L : /\ stack'[i].node = stack[i].node
                           /\ stack'[i].child = IF i = L THEN c ELSE stack[i].child
  BY <1>2, AdvancedFacts DEF c
<1>4. \A i \in 1 .. L : mem'[stack[i].node] = mem[stack[i].node]
  BY <1>1, <1>2 DEF c
<1>5. Children' = [Children EXCEPT ![L] = c]
  <2>1. Children' = [i \in 1 .. L |-> stack'[i].child]
    BY <1>3 DEF Children
  <2>2. \A i \in 1 .. L : stack'[i].child = IF i = L THEN c ELSE Children[i]
    BY <1>1, <1>3
  <2> QED
    BY <1>1, <2>1, <2>2 DEF Family
<1>6. Candidates' = Candidates
  <2>1. Candidates' = [i \in 1 .. L |-> mem'[stack'[i].node].best]
    BY <1>3 DEF Candidates
  <2>2. \A i \in 1 .. L : mem'[stack'[i].node].best = Candidates[i]
    <3>1. \A i \in 1 .. L : mem'[stack'[i].node] = mem[stack[i].node]
      BY <1>3, <1>4
    <3>2. \A i \in 1 .. L : Candidates[i] = mem[stack[i].node].best
      BY <1>1
    <3> QED
      BY <3>1, <3>2
  <2> QED
    BY <1>1, <2>1, <2>2 DEF Family
<1>7. Ownership'
  BY <1>1, <1>2, <1>3, <1>5, <1>6 DEF Ownership
<1>8. Links'
  <2> SUFFICES ASSUME NEW i \in 1 .. L
               PROVE  /\ Len(mem'[stack'[i].node].placed) = i - 1
                      /\ i = 1 => mem'[stack'[i].node].father = Null
                      /\ i > 1 => /\ stack'[i].node = stack'[i - 1].child
                                  /\ mem'[stack'[i].node].father = stack'[i - 1].node
    BY <1>3 DEF Links
  <2>1. /\ Len(mem[stack[i].node].placed) = i - 1
        /\ i = 1 => mem[stack[i].node].father = Null
        /\ i > 1 => /\ stack[i].node = stack[i - 1].child
                    /\ mem[stack[i].node].father = stack[i - 1].node
    <3>1. DOMAIN stack = 1 .. L
      BY TopFacts DEF Searching
    <3> QED
      BY <3>1 DEF Inv, Running, Links, Searching
  <2>2. i > 1 => i - 1 \in 1 .. L /\ i - 1 # L
    BY <1>1
  <2> QED
    BY <1>3, <1>4, <2>1, <2>2
<1>9. CandidatesComplete'
  <2> SUFFICES ASSUME NEW i \in 1 .. L, Candidates[i] # Null
               PROVE  Len(mem'[Candidates[i]].placed) = NumProcs
    BY <1>3, <1>6 DEF CandidatesComplete
  <2>1. Len(mem[Candidates[i]].placed) = NumProcs
    <3>1. i \in DOMAIN stack
      BY TopFacts DEF Searching
    <3> QED
      BY <3>1 DEF Inv, Running, CandidatesComplete, Searching
  <2>2. Candidates[i] \in NodeIds /\ Candidates[i] # c
    BY <1>1, <1>2 DEF Family
  <2> QED
    BY <2>1, <2>2 DEF c
<1>10. state' = "search" /\ Len(stack') <= NumProcs
  BY <1>3 DEF Searching, Inv, Running
<1>11. TypeOK'
  <2>1. GoodHeap(heap')
    BY <1>2 DEF Owns
  <2>2. /\ demand' = demand /\ socket' = socket /\ prevSocket' = prevSocket
    BY DEF caller
  <2> QED
    BY <1>3, <1>10, <2>1, <2>2 DEF TypeOK, Inv, GoodHeap
<1> QED
  BY <1>3, <1>7, <1>8, <1>9, <1>10, <1>11 DEF Inv, Running

\* A socket that is full, a child that is cut, a leaf that is rejected.
LEMMA LoopSteps ==
    ASSUME Inv, SkipSocket \/ CutChild \/ RejectLeaf
    PROVE  Inv'
<1>0. mem \in [NodeIds -> TreeNode] /\ Searching
  BY DEF Inv, TypeOK, SkipSocket, CutChild, RejectLeaf
<1>1. CurrentChild \in NodeIds /\ Placed \in TreeNode /\ Leaf \in TreeNode
  BY <1>0, ChildFacts, PlacedTyped
<1>2. CASE SkipSocket
  BY <1>0, <1>2, TurnEnds DEF SkipSocket, caller
<1>3. CASE CutChild
  <2>1. /\ mem' \in [NodeIds -> TreeNode]
        /\ \A n \in NodeIds \ {CurrentChild} : mem'[n] = mem[n]
    BY <1>0, <1>1, <1>3 DEF CutChild
  <2> QED
    BY <1>0, <1>3, <2>1, TurnEnds DEF CutChild
<1>4. CASE RejectLeaf
  <2>1. /\ mem' \in [NodeIds -> TreeNode]
        /\ \A n \in NodeIds \ {CurrentChild} : mem'[n] = mem[n]
    BY <1>0, <1>1, <1>4 DEF RejectLeaf
  <2> QED
    BY <1>0, <1>4, <2>1, TurnEnds DEF RejectLeaf
<1> QED
  BY <1>2, <1>3, <1>4

\* What the steps look at, gathered.
LEMMA StackFacts ==
    ASSUME Inv, state = "search"
    PROVE  /\ Len(stack) \in Nat \ {0} /\ {1, Len(stack)} \subseteq 1 .. Len(stack)
           /\ Len(stack) <= NumProcs /\ DOMAIN stack = 1 .. Len(stack)
           /\ Top = stack[Len(stack)] /\ TopNode = mem[stack[Len(stack)].node]
           /\ Children \in Family(Len(stack)) /\ Candidates \in Family(Len(stack))
           /\ \A i \in 1 .. Len(stack) :
                 /\ Children[i] = stack[i].child
                 /\ Candidates[i] = mem[stack[i].node].best
                 /\ stack[i].node \in NodeIds
                 /\ Len(mem[stack[i].node].placed) = i - 1
                 /\ i = 1 => mem[stack[i].node].father = Null
                 /\ i > 1 => /\ stack[i].node = stack[i - 1].child
                             /\ mem[stack[i].node].father = stack[i - 1].node
                 /\ Candidates[i] # Null =>
                       Len(mem[Candidates[i]].placed) = NumProcs
           /\ mem \in [NodeIds -> TreeNode]
<1>1. /\ Len(stack) \in Nat \ {0} /\ {1, Len(stack)} \subseteq 1 .. Len(stack)
      /\ DOMAIN stack = 1 .. Len(stack) /\ Top = stack[Len(stack)]
      /\ Children \in Family(Len(stack)) /\ Candidates \in Family(Len(stack))
      /\ \A i \in 1 .. Len(stack) : /\ Children[i] = stack[i].child
                                    /\ Candidates[i] = mem[stack[i].node].best
  BY TopFacts
<1>2. Running /\ mem \in [NodeIds -> TreeNode]
  BY DEF Inv, TypeOK
<1>3. \A i \in 1 .. Len(stack) : stack[i].node \in NodeIds
  BY NodesApart
<1>4. \A i \in 1 .. Len(stack) :
          /\ Len(mem[stack[i].node].placed) = i - 1
          /\ i = 1 => mem[stack[i].node].father = Null
          /\ i > 1 => /\ stack[i].node = stack[i - 1].child
                      /\ mem[stack[i].node].father = stack[i - 1].node
          /\ Candidates[i] # Null => Len(mem[Candidates[i]].placed) = NumProcs
  BY <1>1, <1>2 DEF Running, Links, CandidatesComplete
<1>5. TopNode = mem[stack[Len(stack)].node]
  BY <1>1 DEF TopNode
<1> QED
  BY <1>1, <1>2, <1>3, <1>4, <1>5 DEF Running

\* The leaf becomes the candidate of its father.
LEMMA AcceptLeafStep ==
    ASSUME Inv, AcceptLeaf
    PROVE  Inv'
<1> DEFINE L == Len(stack)
           c == CurrentChild
           d == [Children EXCEPT ![L] = c]
<1>0. Searching /\ Complete
  BY DEF AcceptLeaf
<1>1. /\ L \in Nat \ {0} /\ L \in 1 .. L /\ 1 \in 1 .. L
      /\ L <= NumProcs /\ DOMAIN stack = 1 .. L
      /\ Top = stack[L] /\ TopNode = mem[stack[L].node]
      /\ Children \in Family(L) /\ Candidates \in Family(L)
      /\ mem \in [NodeIds -> TreeNode]
  BY <1>0, StackFacts DEF Searching
<1>2. \A i \in 1 .. L :
        /\ Children[i] = stack[i].child /\ Candidates[i] = mem[stack[i].node].best
        /\ stack[i].node \in NodeIds /\ stack[i].node # c
        /\ Len(mem[stack[i].node].placed) = i - 1
        /\ i = 1 => mem[stack[i].node].father = Null
        /\ i > 1 => /\ stack[i].node = stack[i - 1].child
                    /\ mem[stack[i].node].father = stack[i - 1].node
        /\ Candidates[i] # Null => Len(mem[Candidates[i]].placed) = NumProcs
  BY <1>0, StackFacts, ChildFacts DEF Searching
<1>3. /\ c \in NodeIds /\ \A i \in 1 .. L : Candidates[i] # c
      /\ Owns(stack[1].node, d, Candidates, HeapNow)
  BY <1>0, ChildFacts
<1>4. /\ Leaf \in TreeNode /\ Len(Leaf.placed) = NumProcs
  BY <1>0, PlacedTyped DEF Complete
<1>5. /\ stack' = Advanced(TopNode.best) /\ heap' = HeapNow
      /\ UNCHANGED <<state, demand, socket, prevSocket>>
      /\ mem' = [mem EXCEPT ![c] = Leaf, ![Top.node].best = c,
                            ![Top.node].min = Leaf.min, ![Top.node].changes = Leaf.changes]
  BY DEF AcceptLeaf, caller
<1>6. TopNode.best = Candidates[L] /\ Candidates[L] \in NodeIds \cup {Null}
  BY <1>1, <1>2 DEF Family
<1> HIDE DEF c, L
<1>7. /\ stack' \in Seq(Frame) /\ Len(stack') = L /\ DOMAIN stack' = 1 .. L
      /\ stack' # <<>>
      /\ \A i \in 1 .. L : /\ stack'[i].node = stack[i].node
                           /\ stack'[i].child = IF i = L THEN Candidates[L] ELSE stack[i].child
  BY <1>0, <1>5, <1>6, AdvancedFacts DEF L
<1>8. /\ mem' \in [NodeIds -> TreeNode] /\ mem'[c] = Leaf
      /\ mem'[stack[L].node].best = c
      /\ mem'[stack[L].node].placed = mem[stack[L].node].placed
      /\ mem'[stack[L].node].father = mem[stack[L].node].father
      /\ \A n \in NodeIds \ {c, stack[L].node} : mem'[n] = mem[n]
  <2> DEFINE t == Top.node
             one == [mem EXCEPT ![c] = Leaf]
  <2>1. t \in NodeIds /\ t # c /\ t = stack[L].node
    BY <1>1, <1>2
  <2>2. PICK y \in Int, z \in Nat : y = Leaf.min /\ z = Leaf.changes
    BY <1>4 DEF TreeNode
  <2>3. mem' = [one EXCEPT ![t].best = c, ![t].min = y, ![t].changes = z]
    BY <1>5, <2>2
  <2>4. /\ one \in [NodeIds -> TreeNode] /\ one[c] = Leaf
        /\ \A n \in NodeIds \ {c} : one[n] = mem[n]
    BY <1>1, <1>3, <1>4
  <2> HIDE DEF t, one
  <2> DEFINE v == [one[t] EXCEPT !.best = c, !.min = y, !.changes = z]
  <2>5. mem' = [one EXCEPT ![t] = v]
    BY <2>1, <2>3, <2>4
  <2>6. /\ v \in TreeNode /\ v.best = c
        /\ v.placed = one[t].placed /\ v.father = one[t].father
    <3>1. one[t] \in TreeNode
      BY <2>1, <2>4
    <3> QED
      BY <1>3, <3>1 DEF TreeNode
  <2> HIDE DEF v
  <2> QED
    BY <1>3, <2>1, <2>4, <2>5, <2>6
<1>9. \A i \in 1 .. L : stack[i].node = stack[L].node => i = L
  BY <1>0, <1>1, NodesApart DEF Searching, L
<1>10. \A i \in 1 .. L : i # L => mem'[stack[i].node] = mem[stack[i].node]
  <2>1. \A i \in 1 .. L : stack[i].node \in NodeIds /\ stack[i].node # c
    BY <1>2
  <2>2. \A n \in NodeIds \ {c, stack[L].node} : mem'[n] = mem[n]
    BY <1>8
  <2> QED
    BY <1>9, <2>1, <2>2
<1>11. /\ Children' \in Family(L) /\ Children'[L] = Candidates[L]
       /\ \A i \in 1 .. L - 1 : Children'[i] = d[i]
       /\ d \in Family(L) /\ d[L] = c
  <2>1. Children' = [i \in 1 .. L |-> stack'[i].child]
    BY <1>7 DEF Children
  <2>2. \A i \in 1 .. L : stack'[i].child = IF i = L THEN Candidates[L] ELSE Children[i]
    BY <1>2, <1>7
  <2>3. Children' = [Children EXCEPT ![L] = Candidates[L]]
    BY <1>1, <2>1, <2>2 DEF Family
  <2> QED
    BY <1>1, <1>3, <1>6, <2>3 DEF Family
<1>12. /\ Candidates' \in Family(L) /\ Candidates'[L] = c
       /\ \A i \in 1 .. L - 1 : Candidates'[i] = Candidates[i]
  <2>1. Candidates' = [i \in 1 .. L |-> mem'[stack'[i].node].best]
    BY <1>7 DEF Candidates
  <2>2. /\ mem'[stack'[L].node].best = c
        /\ \A i \in 1 .. L : i # L => mem'[stack'[i].node].best = Candidates[i]
    BY <1>1, <1>2, <1>7, <1>8, <1>10
  <2>3. \A i \in 1 .. L : mem'[stack'[i].node].best \in NodeIds \cup {Null}
    BY <1>1, <1>3, <2>2 DEF Family
  <2>4. \A i \in 1 .. L - 1 : i \in 1 .. L /\ i # L
    BY <1>1
  <2> QED
    BY <1>1, <2>1, <2>2, <2>3, <2>4 DEF Family
<1>13. Ownership'
  <2>1. Owns(stack[1].node, Children', Candidates', HeapNow)
    <3> HIDE DEF d
    <3> QED
      BY <1>1, <1>3, <1>11, <1>12, Swapped
  <2>2. stack'[1].node = stack[1].node
    BY <1>1, <1>7
  <2> QED
    BY <1>5, <1>7, <2>1, <2>2 DEF Ownership
<1>14. Links'
  <2> SUFFICES ASSUME NEW i \in 1 .. L
               PROVE  /\ Len(mem'[stack'[i].node].placed) = i - 1
                      /\ i = 1 => mem'[stack'[i].node].father = Null
                      /\ i > 1 => /\ stack'[i].node = stack'[i - 1].child
                                  /\ mem'[stack'[i].node].father = stack'[i - 1].node
    BY <1>7 DEF Links
  <2>1. i > 1 => i - 1 \in 1 .. L /\ i - 1 # L
    BY <1>1
  <2>2. /\ mem'[stack[i].node].placed = mem[stack[i].node].placed
        /\ mem'[stack[i].node].father = mem[stack[i].node].father
    BY <1>8, <1>10
  <2>3. /\ stack'[i].node = stack[i].node
        /\ i > 1 => /\ stack'[i - 1].node = stack[i - 1].node
                    /\ stack'[i - 1].child = stack[i - 1].child
    BY <1>7, <2>1
  <2>4. /\ Len(mem[stack[i].node].placed) = i - 1
        /\ i = 1 => mem[stack[i].node].father = Null
        /\ i > 1 => /\ stack[i].node = stack[i - 1].child
                    /\ mem[stack[i].node].father = stack[i - 1].node
    BY <1>2
  <2> QED
    BY <2>2, <2>3, <2>4
<1>15. CandidatesComplete'
  <2> SUFFICES ASSUME NEW i \in 1 .. L, Candidates'[i] # Null
               PROVE  Len(mem'[Candidates'[i]].placed) = NumProcs
    BY <1>7 DEF CandidatesComplete
  <2>1. CASE i = L
    BY <1>4, <1>8, <1>12, <2>1
  <2>2. CASE i # L
    <3>1. Candidates'[i] = Candidates[i]
      BY <1>1, <1>12, <2>2
    <3>2. Candidates[i] \in NodeIds /\ Candidates[i] # c
      BY <1>1, <1>3, <3>1 DEF Family
    <3>3. Candidates[i] # stack[L].node
      BY <1>0, <1>1, NodesApart DEF Searching, L
    <3> QED
      BY <1>2, <1>8, <3>1, <3>2, <3>3
  <2> QED
    BY <2>1, <2>2
<1>16. state' = "search" /\ Len(stack') <= NumProcs
  BY <1>0, <1>1, <1>5, <1>7 DEF Searching
<1>17. TypeOK'
  <2>1. GoodHeap(heap')
    BY <1>3, <1>5 DEF Owns
  <2> QED
    BY <1>5, <1>7, <1>8, <1>16, <2>1 DEF TypeOK, Inv, GoodHeap
<1> QED
  BY <1>7, <1>13, <1>14, <1>15, <1>16, <1>17 DEF Inv, Running

\* The loop goes down into the child.
LEMMA DescendStep ==
    ASSUME Inv, Descend
    PROVE  Inv'
<1> DEFINE L == Len(stack)
           c == CurrentChild
           d == [Children EXCEPT ![L] = c]
           n == NextNode(HeapNow)
           frame == [node |-> c, child |-> n, next |-> 0]
<1>0. Searching /\ ~Complete
  BY DEF Descend
<1>1. /\ L \in Nat \ {0} /\ L \in 1 .. L /\ 1 \in 1 .. L
      /\ L <= NumProcs /\ DOMAIN stack = 1 .. L
      /\ Top = stack[L]
      /\ Children \in Family(L) /\ Candidates \in Family(L)
      /\ mem \in [NodeIds -> TreeNode]
  BY <1>0, StackFacts DEF Searching
<1>2. \A i \in 1 .. L :
        /\ Children[i] = stack[i].child /\ Candidates[i] = mem[stack[i].node].best
        /\ stack[i].node \in NodeIds /\ stack[i].node # c
        /\ Len(mem[stack[i].node].placed) = i - 1
        /\ i = 1 => mem[stack[i].node].father = Null
        /\ i > 1 => /\ stack[i].node = stack[i - 1].child
                    /\ mem[stack[i].node].father = stack[i - 1].node
        /\ Candidates[i] # Null => Len(mem[Candidates[i]].placed) = NumProcs
  BY <1>0, StackFacts, ChildFacts DEF Searching
<1>3. /\ c \in NodeIds /\ \A i \in 1 .. L : Candidates[i] # c
      /\ Owns(stack[1].node, d, Candidates, HeapNow)
  BY <1>0, ChildFacts
<1>4. /\ Placed \in TreeNode /\ Placed.best = Null /\ Placed.father = stack[L].node
      /\ Len(Placed.placed) = L /\ L # NumProcs
  BY <1>0, <1>1, PlacedTyped DEF Complete
<1>5. /\ stack' = Append(Advanced(c), frame) /\ heap' = AllocNode(HeapNow)
      /\ UNCHANGED <<state, demand, socket, prevSocket>>
      /\ mem' = [mem EXCEPT ![c] = Placed]
  BY DEF Descend, caller
<1> HIDE DEF c, L
<1>6. d \in Family(L) /\ d[L] = c /\ \A i \in 1 .. L - 1 : d[i] = Children[i]
  BY <1>1, <1>3 DEF Family
<1>7. HasRoom(HeapNow) /\ GoodHeap(HeapNow)
  <2>1. GoodHeap(HeapNow) /\ Live(HeapNow) = Held(stack[1].node, d, Candidates)
    BY <1>3 DEF Owns
  <2>2. L \in Nat
    BY <1>1
  <2> HIDE DEF d
  <2> QED
    BY <1>1, <1>6, <2>1, <2>2, RoomLeft
<1>8. n \in NodeIds /\ GoodHeap(heap')
  BY <1>5, <1>7, AllocAdds
<1>9. frame \in Frame
  BY <1>3, <1>8, PoolAssumption, TopologyAssumption DEF Frame
<1> DEFINE a == Advanced(c)
<1>10. /\ a \in Seq(Frame) /\ Len(a) = L /\ DOMAIN a = 1 .. L
       /\ \A i \in 1 .. L : /\ a[i].node = stack[i].node
                            /\ a[i].child = IF i = L THEN c ELSE stack[i].child
  BY <1>0, <1>3, AdvancedFacts DEF L
<1> HIDE DEF a
<1>11. /\ stack' \in Seq(Frame) /\ Len(stack') = L + 1 /\ DOMAIN stack' = 1 .. L + 1
       /\ stack' # <<>> /\ stack'[L + 1] = frame /\ \A i \in 1 .. L : stack'[i] = a[i]
  <2>1. stack' = Append(a, frame)
    BY <1>5 DEF a
  <2> HIDE DEF frame
  <2> QED
    BY <1>1, <1>9, <1>10, <2>1
<1>12. /\ \A i \in 1 .. L : /\ stack'[i].node = stack[i].node
                            /\ stack'[i].child = d[i]
       /\ stack'[L + 1].node = c /\ stack'[L + 1].child = n
  <2>1. \A i \in 1 .. L : i = L \/ i \in 1 .. L - 1
    BY <1>1
  <2> QED
    BY <1>2, <1>6, <1>10, <1>11, <2>1
<1> HIDE DEF n, frame
<1>13. /\ mem' \in [NodeIds -> TreeNode] /\ mem'[c] = Placed
       /\ \A i \in 1 .. L : mem'[stack[i].node] = mem[stack[i].node]
       /\ \A m \in NodeIds \ {c} : mem'[m] = mem[m]
  BY <1>1, <1>2, <1>3, <1>4, <1>5
<1>14. \A i \in 1 .. L + 1 : i = L + 1 \/ i \in 1 .. L
  BY <1>1
<1>15. /\ Children' \in Family(L + 1) /\ Children'[L + 1] = n
       /\ \A i \in 1 .. L : Children'[i] = d[i]
  <2>1. /\ DOMAIN Children' = 1 .. L + 1
        /\ Children' = [i \in 1 .. L + 1 |-> stack'[i].child]
    BY <1>11 DEF Children
  <2>2. \A i \in 1 .. L + 1 : stack'[i].child \in NodeIds \cup {Null}
    BY <1>6, <1>8, <1>12, <1>14 DEF Family
  <2> QED
    BY <1>1, <1>12, <2>1, <2>2 DEF Family
<1>16. /\ Candidates' \in Family(L + 1) /\ Candidates'[L + 1] = Null
       /\ \A i \in 1 .. L : Candidates'[i] = Candidates[i]
  <2>1. Candidates' = [i \in 1 .. L + 1 |-> mem'[stack'[i].node].best]
    BY <1>11 DEF Candidates
  <2>2. /\ mem'[stack'[L + 1].node].best = Null
        /\ \A i \in 1 .. L : mem'[stack'[i].node].best = Candidates[i]
    BY <1>2, <1>4, <1>12, <1>13
  <2>3. \A i \in 1 .. L + 1 : mem'[stack'[i].node].best \in NodeIds \cup {Null}
    BY <1>1, <1>14, <2>2 DEF Family
  <2> QED
    BY <1>1, <2>1, <2>2, <2>3 DEF Family
<1>17. Ownership'
  <2>1. Owns(stack[1].node, Children', Candidates', AllocNode(HeapNow))
    <3>1. L \in Nat /\ Children'[L + 1] = NextNode(HeapNow)
      BY <1>1, <1>15 DEF n
    <3> HIDE DEF d
    <3> QED
      BY <1>1, <1>3, <1>6, <1>7, <1>15, <1>16, <3>1, Pushed
  <2>2. stack'[1].node = stack[1].node
    BY <1>1, <1>12
  <2> QED
    BY <1>5, <1>11, <2>1, <2>2 DEF Ownership
<1>18. Links'
  <2> SUFFICES ASSUME NEW i \in 1 .. L + 1
               PROVE  /\ Len(mem'[stack'[i].node].placed) = i - 1
                      /\ i = 1 => mem'[stack'[i].node].father = Null
                      /\ i > 1 => /\ stack'[i].node = stack'[i - 1].child
                                  /\ mem'[stack'[i].node].father = stack'[i - 1].node
    BY <1>11 DEF Links
  <2>1. CASE i = L + 1
    <3>1. i - 1 = L /\ i > 1 /\ i # 1 /\ L \in 1 .. L
      BY <1>1, <2>1
    <3>2. stack'[i].node = c /\ stack'[L].child = c /\ stack'[L].node = stack[L].node
      BY <1>6, <1>12, <2>1, <3>1
    <3>3. Len(mem'[c].placed) = L /\ mem'[c].father = stack[L].node
      BY <1>4, <1>13
    <3> QED
      BY <3>1, <3>2, <3>3
  <2>2. CASE i \in 1 .. L
    <3>1. i > 1 => i - 1 \in 1 .. L /\ i - 1 \in 1 .. L - 1
      BY <1>1, <2>2
    <3>2. mem'[stack'[i].node] = mem[stack[i].node] /\ stack'[i].node = stack[i].node
      BY <1>12, <1>13, <2>2
    <3>3. i > 1 => /\ stack'[i - 1].child = stack[i - 1].child
                   /\ stack'[i - 1].node = stack[i - 1].node
      BY <1>2, <1>6, <1>12, <3>1
    <3> QED
      BY <1>2, <2>2, <3>2, <3>3
  <2> QED
    BY <1>14, <2>1, <2>2
<1>19. CandidatesComplete'
  <2> SUFFICES ASSUME NEW i \in 1 .. L + 1, Candidates'[i] # Null
               PROVE  Len(mem'[Candidates'[i]].placed) = NumProcs
    BY <1>11 DEF CandidatesComplete
  <2>1. i \in 1 .. L /\ Candidates'[i] = Candidates[i]
    BY <1>14, <1>16
  <2>2. Candidates[i] \in NodeIds /\ Candidates[i] # c
    BY <1>1, <1>3, <2>1 DEF Family
  <2> QED
    BY <1>2, <1>13, <2>1, <2>2
<1>20. state' = "search" /\ Len(stack') <= NumProcs
  <2>1. NumProcs \in Nat
    BY PoolAssumption, TopologyAssumption
  <2> QED
    BY <1>0, <1>1, <1>4, <1>5, <1>11, <2>1 DEF Searching
<1>21. TypeOK'
  BY <1>5, <1>8, <1>11, <1>13, <1>20 DEF TypeOK, Inv, GoodHeap
<1> QED
  BY <1>11, <1>17, <1>18, <1>19, <1>20, <1>21 DEF Inv, Running

\* The activations when the one at the top returns.
LEMMA FrontFacts ==
    ASSUME Inv, state = "search", Len(stack) > 1
    PROVE  /\ Front(stack) \in Seq(Frame) /\ Len(Front(stack)) = Len(stack) - 1
           /\ DOMAIN Front(stack) = 1 .. Len(stack) - 1 /\ Front(stack) # <<>>
           /\ \A i \in 1 .. Len(stack) - 1 : Front(stack)[i] = stack[i]
<1>1. stack \in Seq(Frame) /\ Len(stack) \in Nat
  BY DEF Inv, TypeOK
<1> DEFINE n == Len(stack) - 1
<1>2. n \in Nat \ {0}
  <2>1. PICK l \in Nat : l = Len(stack)
    BY <1>1
  <2> QED
    BY <2>1
<1>3. /\ SubSeq(stack, 1, n) \in Seq(Frame) /\ Len(SubSeq(stack, 1, n)) = n
      /\ \A i \in 1 .. n : SubSeq(stack, 1, n)[i] = stack[i]
  <2>1. /\ SubSeq(stack, 1, n) \in Seq(Frame)
        /\ Len(SubSeq(stack, 1, n)) = IF 1 <= n THEN n - 1 + 1 ELSE 0
        /\ \A i \in 1 .. n - 1 + 1 : SubSeq(stack, 1, n)[i] = stack[1 + i - 1]
    BY <1>1, <1>2, SubSeqProperties DEF n
  <2>2. \A i \in 1 .. n : i \in 1 .. n - 1 + 1 /\ 1 + i - 1 = i
    BY <1>2
  <2> QED
    BY <1>2, <2>1, <2>2
<1>4. Front(stack) = SubSeq(stack, 1, n)
  BY DEF Front
<1> HIDE DEF n
<1>5. DOMAIN Front(stack) = 1 .. n /\ Front(stack) # <<>>
  BY <1>2, <1>3, <1>4
<1> QED
  BY <1>3, <1>4, <1>5 DEF n

\* The candidate of a subtree goes to the father, or to the pool.
LEMMA ReturnStep ==
    ASSUME Inv, Return
    PROVE  Inv'
<1> DEFINE L == Len(stack)
           t == stack[L - 1].node
           better == mem[t].min < TopNode.min
           e == IF better THEN [Candidates EXCEPT ![L] = Candidates[L - 1],
                                                  ![L - 1] = Candidates[L]]
                ELSE Candidates
<1>0. state = "search" /\ TopNode.father # Null
  BY DEF Return
<1>1. /\ L \in Nat \ {0} /\ L \in 1 .. L /\ 1 \in 1 .. L
      /\ L <= NumProcs /\ DOMAIN stack = 1 .. L
      /\ Top = stack[L] /\ TopNode = mem[stack[L].node]
      /\ Children \in Family(L) /\ Candidates \in Family(L)
      /\ mem \in [NodeIds -> TreeNode]
  BY <1>0, StackFacts
<1>2. \A i \in 1 .. L :
        /\ Children[i] = stack[i].child /\ Candidates[i] = mem[stack[i].node].best
        /\ stack[i].node \in NodeIds
        /\ Len(mem[stack[i].node].placed) = i - 1
        /\ i = 1 => mem[stack[i].node].father = Null
        /\ i > 1 => /\ stack[i].node = stack[i - 1].child
                    /\ mem[stack[i].node].father = stack[i - 1].node
        /\ Candidates[i] # Null => Len(mem[Candidates[i]].placed) = NumProcs
  BY <1>0, StackFacts
<1> HIDE DEF L
<1>3. /\ L > 1 /\ L - 1 \in 1 .. L - 1 /\ TopNode.father = t
      /\ \A i \in 1 .. L - 1 : i \in 1 .. L /\ i # L
  BY <1>0, <1>1, <1>2
<1>4. /\ t \in NodeIds /\ t = stack[L - 1].node
      /\ Candidates[L - 1] = mem[t].best /\ Candidates[L] = TopNode.best
      /\ Children[L] = Top.child /\ TopNode.min \in Int
      /\ \A i \in 1 .. L : Candidates[i] \in NodeIds \cup {Null}
  BY <1>1, <1>2, <1>3 DEF TreeNode, Family
<1> HIDE DEF t
<1>5. /\ heap' = FreeNode(FreeNode(heap, Children[L]),
                          IF better THEN mem[t].best ELSE Candidates[L])
      /\ mem' = IF better THEN [mem EXCEPT ![t].min = TopNode.min,
                                           ![t].best = Candidates[L]]
                ELSE mem
      /\ stack' = Front(stack)
      /\ UNCHANGED <<state, demand, socket, prevSocket>>
  BY <1>3, <1>4 DEF Return, caller
<1> HIDE DEF better
<1>6. /\ stack' \in Seq(Frame) /\ Len(stack') = L - 1 /\ DOMAIN stack' = 1 .. L - 1
      /\ stack' # <<>> /\ \A i \in 1 .. L - 1 : stack'[i] = stack[i]
  BY <1>0, <1>3, <1>5, FrontFacts DEF L
<1>7. /\ e \in Family(L)
      /\ better => /\ e[L] = Candidates[L - 1] /\ e[L - 1] = Candidates[L]
                   /\ \A i \in 1 .. L - 2 : e[i] = Candidates[i]
      /\ ~better => e = Candidates
  <2>1. Candidates \in [1 .. L -> NodeIds \cup {Null}] /\ L - 1 \in 1 .. L
    BY <1>1, <1>3 DEF Family
  <2>2. L - 1 # L /\ L - 1 \notin 1 .. L - 2 /\ L \notin 1 .. L - 2
        /\ \A i \in 1 .. L - 2 : i \in 1 .. L
    BY <1>1
  <2>3. Candidates[L] \in NodeIds \cup {Null}
        /\ Candidates[L - 1] \in NodeIds \cup {Null}
    BY <1>1, <2>1
  <2>4. CASE better
    <3>1. e = [[Candidates EXCEPT ![L] = Candidates[L - 1]] EXCEPT
                  ![L - 1] = Candidates[L]]
      BY <2>4
    <3> HIDE DEF e
    <3> QED
      BY <1>1, <2>1, <2>2, <2>3, <2>4, <3>1 DEF Family
  <2> QED
    BY <1>1, <2>4
<1> HIDE DEF e
<1>8. Owns(stack[1].node, Children, e, heap)
  <2>1. Owns(stack[1].node, Children, Candidates, heap)
    BY <1>0, TopFacts
  <2>2. CASE better
    BY <1>1, <1>3, <1>7, <2>1, <2>2, Exchanged
  <2> QED
    BY <1>7, <2>1, <2>2
<1>9. heap' = FreeNode(FreeNode(heap, Children[L]), e[L])
  BY <1>4, <1>5, <1>7
<1>10. \A i \in 1 .. L : stack[i].node = t => i = L - 1
  <2>1. \A i \in 1 .. L : stack[i].node = stack[L - 1].node => i = L - 1
    BY <1>0, <1>3, NodesApart DEF L
  <2> QED
    BY <1>4, <2>1
<1>11. /\ mem' \in [NodeIds -> TreeNode]
       /\ mem'[t].placed = mem[t].placed /\ mem'[t].father = mem[t].father
       /\ mem'[t].best = e[L - 1]
       /\ \A n \in NodeIds \ {t} : mem'[n] = mem[n]
  <2>1. CASE ~better
    BY <1>1, <1>4, <1>5, <1>7, <2>1
  <2>2. CASE better
    <3> DEFINE v == [mem[t] EXCEPT !.min = TopNode.min, !.best = Candidates[L]]
    <3>1. mem[t] \in TreeNode /\ Candidates[L] \in NodeIds \cup {Null}
      BY <1>1, <1>4
    <3>2. /\ v \in TreeNode /\ v.best = Candidates[L]
          /\ v.placed = mem[t].placed /\ v.father = mem[t].father
      BY <1>4, <3>1 DEF TreeNode
    <3>3. mem' = [mem EXCEPT ![t] = v]
      BY <1>1, <1>4, <1>5, <2>2
    <3> HIDE DEF v
    <3> QED
      BY <1>1, <1>4, <1>7, <2>2, <3>2, <3>3
  <2> QED
    BY <2>1, <2>2
<1>12. \A i \in 1 .. L - 1 : /\ mem'[stack[i].node].placed = mem[stack[i].node].placed
                             /\ mem'[stack[i].node].father = mem[stack[i].node].father
                             /\ mem'[stack[i].node].best = e[i]
  <2> SUFFICES ASSUME NEW i \in 1 .. L - 1
               PROVE  /\ mem'[stack[i].node].placed = mem[stack[i].node].placed
                      /\ mem'[stack[i].node].father = mem[stack[i].node].father
                      /\ mem'[stack[i].node].best = e[i]
    OBVIOUS
  <2>1. CASE i = L - 1
    BY <1>4, <1>11, <2>1
  <2>2. CASE i # L - 1
    <3>1. i \in 1 .. L /\ i \in 1 .. L - 2
      BY <1>1, <2>2
    <3>2. mem'[stack[i].node] = mem[stack[i].node]
      BY <1>2, <1>10, <1>11, <2>2, <3>1
    <3>3. e[i] = Candidates[i]
      BY <1>7, <3>1
    <3> QED
      BY <1>2, <3>1, <3>2, <3>3
  <2> QED
    BY <2>1, <2>2
<1>13. /\ Children' \in Family(L - 1)
       /\ \A i \in 1 .. L - 1 : Children'[i] = Children[i]
  <2>1. Children' = [i \in 1 .. L - 1 |-> stack'[i].child]
    BY <1>6 DEF Children
  <2>2. \A i \in 1 .. L - 1 : stack'[i].child = Children[i]
    BY <1>2, <1>3, <1>6
  <2>3. \A i \in 1 .. L - 1 : Children[i] \in NodeIds \cup {Null}
    BY <1>1, <1>3 DEF Family
  <2> QED
    BY <2>1, <2>2, <2>3 DEF Family
<1>14. /\ Candidates' \in Family(L - 1)
       /\ \A i \in 1 .. L - 1 : Candidates'[i] = e[i]
  <2>1. Candidates' = [i \in 1 .. L - 1 |-> mem'[stack'[i].node].best]
    BY <1>6 DEF Candidates
  <2>2. \A i \in 1 .. L - 1 : mem'[stack'[i].node].best = e[i]
    BY <1>6, <1>12
  <2>3. \A i \in 1 .. L - 1 : e[i] \in NodeIds \cup {Null}
    BY <1>3, <1>7 DEF Family
  <2> QED
    BY <2>1, <2>2, <2>3 DEF Family
<1>15. Ownership' /\ GoodHeap(heap')
  <2>1. Owns(stack[1].node, Children', Candidates', heap')
    BY <1>1, <1>3, <1>7, <1>8, <1>9, <1>13, <1>14, Popped
  <2>2. stack'[1].node = stack[1].node
    BY <1>1, <1>3, <1>6
  <2> QED
    BY <1>6, <2>1, <2>2 DEF Ownership, Owns
<1>16. Links'
  <2> SUFFICES ASSUME NEW i \in 1 .. L - 1
               PROVE  /\ Len(mem'[stack'[i].node].placed) = i - 1
                      /\ i = 1 => mem'[stack'[i].node].father = Null
                      /\ i > 1 => /\ stack'[i].node = stack'[i - 1].child
                                  /\ mem'[stack'[i].node].father = stack'[i - 1].node
    BY <1>6 DEF Links
  <2>1. i > 1 => i - 1 \in 1 .. L - 1
    BY <1>1
  <2>2. /\ stack'[i] = stack[i] /\ i \in 1 .. L
        /\ i > 1 => stack'[i - 1] = stack[i - 1]
    BY <1>3, <1>6, <2>1
  <2>3. /\ mem'[stack[i].node].placed = mem[stack[i].node].placed
        /\ mem'[stack[i].node].father = mem[stack[i].node].father
    BY <1>12
  <2> QED
    BY <1>2, <2>2, <2>3
<1>17. CandidatesComplete'
  <2> SUFFICES ASSUME NEW i \in 1 .. L - 1, e[i] # Null
               PROVE  Len(mem'[e[i]].placed) = NumProcs
    BY <1>6, <1>14 DEF CandidatesComplete
  <2>1. \E j \in 1 .. L : e[i] = Candidates[j]
    <3>1. i = L - 1 \/ (i \in 1 .. L - 2 /\ i # L - 1)
      BY <1>1
    <3> QED
      BY <1>1, <1>3, <1>7, <3>1
  <2>2. PICK j \in 1 .. L : e[i] = Candidates[j]
    BY <2>1
  <2>3. Len(mem[e[i]].placed) = NumProcs
    BY <1>2, <2>2
  <2>4. e[i] \in NodeIds /\ e[i] # t
    <3>1. stack[L - 1].node # Candidates[j]
      BY <1>0, <1>3, NodesApart DEF L
    <3> QED
      BY <1>4, <2>2, <3>1
  <2> QED
    BY <1>11, <2>3, <2>4
<1>18. state' = "search" /\ Len(stack') <= NumProcs
  <2>1. NumProcs \in Nat
    BY PoolAssumption, TopologyAssumption
  <2> QED
    BY <1>0, <1>1, <1>5, <1>6, <2>1
<1>19. TypeOK'
  BY <1>5, <1>6, <1>11, <1>15, <1>18 DEF TypeOK, Inv, GoodHeap
<1> QED
  BY <1>6, <1>15, <1>16, <1>17, <1>18, <1>19 DEF Inv, Running

\* Nothing is owned when nothing is being explored.
LEMMA Idle ==
    ASSUME Inv, state \in {"down", "idle"}
    PROVE  stack = <<>> /\ GoodHeap(heap) /\ Live(heap) = {}
BY DEF Inv, Running, Ownership

\* What an empty stack leaves to check.
LEMMA IdleAgain ==
    ASSUME TypeOK', state' \in {"down", "idle"}, stack' = <<>>,
           GoodHeap(heap'), Live(heap') = {}
    PROVE  Inv'
<1>1. DOMAIN stack' = {} /\ Len(stack') = 0
  OBVIOUS
<1>2. 0 <= NumProcs
  BY PoolAssumption, TopologyAssumption
<1>3. Links' /\ CandidatesComplete'
  BY <1>1 DEF Links, CandidatesComplete
<1>4. Ownership'
  BY DEF Ownership
<1> QED
  BY <1>1, <1>2, <1>3, <1>4 DEF Inv, Running

\* No child_node, no candidate.
LEMMA NoFamily ==
    ASSUME NEW r, NEW e \in Family(0)
    PROVE  Held(r, e, e) = {r} \ {Null}
BY DEF Family, Held, ToSet

\* The root returns its candidate: every node is back in the pool, and every
\* process has a socket.
LEMMA AnswerStep ==
    ASSUME Inv, Answer
    PROVE  Inv'
<1> DEFINE L == Len(stack)
           r == stack[1].node
           best == TopNode.best
<1>0. state = "search" /\ TopNode.father = Null /\ best # Null
  BY DEF Answer
<1>1. /\ L \in Nat \ {0} /\ L \in 1 .. L /\ Top = stack[L] /\ TopNode = mem[stack[L].node]
      /\ Children \in Family(L) /\ Candidates \in Family(L)
      /\ mem \in [NodeIds -> TreeNode]
  BY <1>0, StackFacts
<1>2. \A i \in 1 .. L :
        /\ Children[i] = stack[i].child /\ Candidates[i] = mem[stack[i].node].best
        /\ stack[i].node \in NodeIds
        /\ i > 1 => mem[stack[i].node].father = stack[i - 1].node
        /\ Candidates[i] # Null => Len(mem[Candidates[i]].placed) = NumProcs
  BY <1>0, StackFacts
<1> HIDE DEF L
<1>3. L = 1
  <2> SUFFICES ASSUME L > 1
               PROVE  FALSE
    BY <1>1
  <2>1. L - 1 \in 1 .. L /\ mem[stack[L].node].father = stack[L - 1].node
    BY <1>1, <1>2
  <2>2. stack[L - 1].node \in NodeIds
    BY <1>2, <2>1
  <2> QED
    BY <1>0, <1>1, <2>1, <2>2 DEF Null, NodeIds
<1>4. /\ Children[L] = Top.child /\ Candidates[L] = best /\ r = Top.node
      /\ r \in NodeIds /\ best \in NodeIds /\ Len(mem[best].placed) = NumProcs
  <2>1. Candidates[L] = best /\ Candidates[L] \in NodeIds \cup {Null}
    BY <1>1, <1>2 DEF Family
  <2> QED
    BY <1>0, <1>1, <1>2, <1>3, <2>1
<1> DEFINE g == FreeNode(FreeNode(heap, Children[L]), Candidates[L])
           e == [i \in 1 .. 0 |-> Null]
<1>5. /\ heap' = FreeNode(g, r) /\ stack' = <<>> /\ state' = "idle"
      /\ socket' = [p \in Ranks |-> mem[best].placed[Position(demand, p)]]
      /\ UNCHANGED <<demand, mem>> /\ prevSocket' = socket
  BY <1>4 DEF Answer
<1>6. Owns(r, e, e, g)
  <2>1. Owns(r, Children, Candidates, heap)
    BY <1>0, TopFacts
  <2>2. e \in Family(L - 1) /\ L \in Nat /\ L > 0 /\ \A i \in 1 .. L - 1 : FALSE
    BY <1>3 DEF Family
  <2> HIDE DEF r, e
  <2> QED
    BY <1>1, <2>1, <2>2, Popped
<1> HIDE DEF g, r
<1>7. GoodHeap(g) /\ Live(g) = {r}
  <2>1. e \in Family(0)
    BY DEF Family
  <2> HIDE DEF e
  <2>2. Held(r, e, e) = {r} \ {Null} /\ Null \notin NodeIds
    BY <2>1, NoFamily DEF Null, NodeIds
  <2> QED
    BY <1>4, <1>6, <2>2 DEF Owns
<1>8. GoodHeap(heap') /\ Live(heap') = {}
  BY <1>5, <1>7, FreeRemoves
<1>9. socket' \in [Ranks -> Sockets \cup {-1}]
  <2>1. demand \in [Ranks -> Nat]
    BY DEF Inv, TypeOK
  <2>2. \A p \in Ranks : Position(demand, p) \in 1 .. NumProcs
    BY <2>1, Positions DEF Requests
  <2>3. mem[best].placed \in Seq(Sockets)
    BY <1>1, <1>4 DEF TreeNode
  <2>4. \A k \in 1 .. NumProcs : mem[best].placed[k] \in Sockets
    BY <1>4, <2>3
  <2> QED
    BY <1>5, <2>2, <2>4
<1>10. TypeOK'
  BY <1>5, <1>8, <1>9 DEF TypeOK, Inv, GoodHeap
<1> QED
  BY <1>5, <1>8, <1>10, IdleAgain

\* No placement at all: the program ends.
LEMMA GiveUpStep ==
    ASSUME Inv, GiveUp
    PROVE  Inv'
<1>0. state = "search" /\ heap' = FreeNode(heap, Top.child) /\ state' = "failed"
      /\ UNCHANGED <<demand, socket, prevSocket, mem, stack>>
  BY DEF GiveUp, caller
<1>1. GoodHeap(heap) /\ Top.child \in Live(heap) \cup {Null}
  <2>1. /\ Owns(stack[1].node, Children, Candidates, heap)
        /\ Len(stack) \in DOMAIN Children /\ Top.child = Children[Len(stack)]
    <3>1. /\ Children \in Family(Len(stack)) /\ Len(stack) \in 1 .. Len(stack)
          /\ Top = stack[Len(stack)] /\ Owns(stack[1].node, Children, Candidates, heap)
      BY <1>0, TopFacts
    <3>2. Children[Len(stack)] = stack[Len(stack)].child
      BY <1>0, <3>1, StackFacts
    <3> QED
      BY <3>1, <3>2 DEF Family
  <2> QED
    BY <2>1 DEF Owns, Held, ToSet
<1>2. GoodHeap(heap')
  BY <1>0, <1>1, FreeRemoves
<1> QED
  BY <1>0, <1>2 DEF Inv, TypeOK, GoodHeap

\* The call begins: a root, and the first child_node.
LEMMA AskStep ==
    ASSUME Inv, NEW threads \in Demands, Ask(threads)
    PROVE  Inv'
<1> DEFINE root == NextNode(heap)
           h == AllocNode(heap)
           child == NextNode(h)
           frame == [node |-> root, child |-> child, next |-> 0]
           e == [i \in 1 .. 0 |-> Null]
<1>1. /\ state = "idle" /\ state' = "search" /\ demand' = threads
      /\ mem' = [mem EXCEPT ![root] = RootNode] /\ stack' = <<frame>>
      /\ heap' = AllocNode(h) /\ UNCHANGED <<socket, prevSocket>>
  BY DEF Ask
<1>2. GoodHeap(heap) /\ Live(heap) = {} /\ mem \in [NodeIds -> TreeNode]
  BY <1>1, Idle DEF Inv, TypeOK
<1>3. e \in Family(0) /\ 0 \in Nat /\ 0 <= NumProcs
  BY PoolAssumption, TopologyAssumption DEF Family
<1> HIDE DEF e
<1>4. HasRoom(heap)
  <2>1. Live(heap) \subseteq Held(Null, e, e)
    BY <1>2
  <2> QED
    BY <1>2, <1>3, <2>1, RoomLeft
<1>5. root \in NodeIds /\ GoodHeap(h) /\ Live(h) = {root} /\ HasRoom(h)
  <2>1. root \in NodeIds /\ GoodHeap(h) /\ Live(h) = {root}
    BY <1>2, <1>4, AllocAdds
  <2> HIDE DEF h, root
  <2>2. Live(h) \subseteq Held(root, e, e)
    <3>1. Held(root, e, e) = {root} \ {Null} /\ Null \notin NodeIds
      BY <1>3, NoFamily DEF Null, NodeIds
    <3> QED
      BY <2>1, <3>1
  <2>3. HasRoom(h)
    BY <1>3, <2>1, <2>2, RoomLeft
  <2> QED
    BY <2>1, <2>3
<1>6. child \in NodeIds
  <2> HIDE DEF h, root
  <2> QED
    BY <1>5, AllocAdds
<1>7. RootNode \in TreeNode /\ RootNode.best = Null /\ RootNode.father = Null
      /\ Len(RootNode.placed) = 0
  BY PoolAssumption, TopologyAssumption DEF RootNode, TreeNode, IntMin
<1>8. /\ mem' \in [NodeIds -> TreeNode] /\ mem'[root] = RootNode
  BY <1>1, <1>2, <1>5, <1>7
<1>9. frame \in Frame /\ frame.node = root /\ frame.child = child
  BY <1>5, <1>6, PoolAssumption, TopologyAssumption DEF Frame
<1> HIDE DEF root, child, frame
<1>10. /\ stack' \in Seq(Frame) /\ Len(stack') = 1 /\ DOMAIN stack' = 1 .. 1
       /\ stack'[1] = frame /\ stack' # <<>> /\ \A i \in 1 .. 1 : i = 1
  BY <1>1, <1>9
<1>11. /\ Children' \in Family(1) /\ Children'[1] = child
       /\ Candidates' \in Family(1) /\ Candidates'[1] = Null
  <2>1. /\ Children' = [i \in 1 .. 1 |-> stack'[i].child]
        /\ Candidates' = [i \in 1 .. 1 |-> mem'[stack'[i].node].best]
    BY <1>10 DEF Children, Candidates
  <2>2. \A i \in 1 .. 1 : stack'[i].child = child /\ mem'[stack'[i].node].best = Null
    BY <1>7, <1>8, <1>9, <1>10
  <2> QED
    BY <1>6, <1>10, <2>1, <2>2 DEF Family
<1>12. Owns(root, Children', Candidates', heap')
  <2>1. Children'[1] = NextNode(AllocNode(heap)) /\ heap' = AllocNode(AllocNode(heap))
    BY <1>1, <1>11 DEF child
  <2>2. HasRoom(AllocNode(heap))
    BY <1>5
  <2>3. Owns(NextNode(heap), Children', Candidates', AllocNode(AllocNode(heap)))
    BY <1>2, <1>4, <1>11, <2>1, <2>2, Begun
  <2> QED
    BY <2>1, <2>3 DEF root
<1>13. Ownership' /\ GoodHeap(heap')
  BY <1>9, <1>10, <1>12 DEF Ownership, Owns
<1>14. Links' /\ CandidatesComplete'
  <2>1. \A i \in DOMAIN stack' : i = 1 /\ ~(i > 1) /\ i - 1 = 0
    BY <1>10
  <2>2. /\ Len(mem'[stack'[1].node].placed) = 0 /\ mem'[stack'[1].node].father = Null
    BY <1>7, <1>8, <1>9, <1>10
  <2>3. Links'
    BY <2>1, <2>2 DEF Links
  <2> QED
    BY <1>11, <2>1, <2>3 DEF CandidatesComplete
<1>15. demand' \in [Ranks -> Nat]
  BY <1>1, DemandAssumption DEF IsDemand
<1>16. 1 <= NumProcs
  BY PoolAssumption, TopologyAssumption
<1>17. TypeOK'
  BY <1>1, <1>8, <1>10, <1>13, <1>15 DEF TypeOK, Inv, GoodHeap
<1> QED
  BY <1>1, <1>10, <1>13, <1>14, <1>16, <1>17 DEF Inv, Running

\* The module is initialised: the pool is full.
LEMMA StartStep ==
    ASSUME Inv, Start
    PROVE  Inv'
<1> DEFINE pool == [i \in 1 .. Threshold |-> Threshold + 1 - i]
<1>1. /\ state = "down" /\ state' = "idle" /\ stack' = stack
      /\ heap' = [pool |-> pool, used |-> 1 .. Threshold]
      /\ UNCHANGED <<demand, socket, prevSocket, mem>>
  BY DEF Start, caller
<1>2. Threshold \in Nat /\ MaxNodes \in Nat /\ Threshold <= MaxNodes
  BY PoolAssumption, TopologyAssumption
<1>3. /\ pool \in [1 .. Threshold -> 1 .. Threshold] /\ 1 .. Threshold \subseteq NodeIds
      /\ DOMAIN pool = 1 .. Threshold
  BY <1>2 DEF NodeIds
<1>4. pool \in Seq(NodeIds)
  BY <1>2, <1>3
<1>5. IsInjective(pool)
  BY <1>2 DEF IsInjective
<1>6. ToSet(pool) = 1 .. Threshold
  <2>1. \A n \in 1 .. Threshold : /\ Threshold + 1 - n \in 1 .. Threshold
                                  /\ pool[Threshold + 1 - n] = n
    BY <1>2
  <2> QED
    BY <1>3, <2>1 DEF ToSet
<1> HIDE DEF pool
<1>7. GoodHeap(heap') /\ Live(heap') = {}
  BY <1>1, <1>3, <1>4, <1>5, <1>6 DEF GoodHeap, Live
<1>8. TypeOK'
  BY <1>1, <1>7 DEF TypeOK, Inv, GoodHeap
<1> QED
  BY <1>1, <1>7, <1>8, Idle, IdleAgain

\* The module is finalised: the pool is emptied.
LEMMA ShutdownStep ==
    ASSUME Inv, Shutdown
    PROVE  Inv'
<1>1. /\ state = "idle" /\ state' = "down" /\ stack' = stack
      /\ heap' = [pool |-> <<>>, used |-> Live(heap)]
      /\ UNCHANGED <<demand, socket, prevSocket, mem>>
  BY DEF Shutdown, caller, Live
<1>2. Live(heap) = {}
  BY <1>1, Idle
<1>3. GoodHeap(heap') /\ Live(heap') = {}
  <2>1. IsInjective(<<>>) /\ ToSet(<<>>) = {} /\ <<>> \in Seq(NodeIds)
    BY DEF IsInjective, ToSet
  <2> QED
    BY <1>1, <1>2, <2>1 DEF GoodHeap, Live
<1>4. TypeOK'
  BY <1>1, <1>3 DEF TypeOK, Inv, GoodHeap
<1> QED
  BY <1>1, <1>3, <1>4, Idle, IdleAgain
-----------------------------------------------------------------------------
(* The theorems *)

\* The module starts down, with nothing allocated.
LEMMA InitInv == Init => Inv
<1> SUFFICES ASSUME Init
             PROVE  Inv
  OBVIOUS
<1>1. Blank \in TreeNode
  BY DEF Blank, TreeNode
<1>2. TypeOK
  BY <1>1 DEF Init, TypeOK
<1>3. DOMAIN stack = {} /\ Len(stack) = 0 /\ stack = <<>> /\ 0 <= NumProcs
  BY PoolAssumption, TopologyAssumption DEF Init
<1>4. GoodHeap(heap) /\ Live(heap) = {}
  <2>1. IsInjective(<<>>) /\ ToSet(<<>>) = {} /\ <<>> \in Seq(NodeIds)
    BY DEF IsInjective, ToSet
  <2> QED
    BY <2>1 DEF Init, GoodHeap, Live
<1>5. Links /\ CandidatesComplete /\ Ownership
  BY <1>3, <1>4 DEF Links, CandidatesComplete, Ownership
<1> QED
  BY <1>2, <1>3, <1>5 DEF Inv, Running, Init

\* The ownership of the nodes is preserved by every step.
LEMMA NextInv == Inv /\ [Next]_vars => Inv'
<1> SUFFICES ASSUME Inv, [Next]_vars
             PROVE  Inv'
  OBVIOUS
<1>1. CASE Start
  BY <1>1, StartStep
<1>2. CASE Shutdown
  BY <1>2, ShutdownStep
<1>3. ASSUME NEW threads \in Demands, Ask(threads)
      PROVE  Inv'
  BY <1>3, AskStep
<1>4. CASE SkipSocket \/ CutChild \/ RejectLeaf
  BY <1>4, LoopSteps
<1>5. CASE Descend
  BY <1>5, DescendStep
<1>6. CASE AcceptLeaf
  BY <1>6, AcceptLeafStep
<1>7. CASE Return
  BY <1>7, ReturnStep
<1>8. CASE Answer
  BY <1>8, AnswerStep
<1>9. CASE GiveUp
  BY <1>9, GiveUpStep
<1>10. CASE UNCHANGED vars
  BY <1>10 DEF vars, Inv, TypeOK, Running, Ownership, Links, CandidatesComplete,
               Children, Candidates
<1>11. CASE Ended
  BY <1>10, <1>11 DEF Ended
<1> QED
  BY <1>1, <1>2, <1>3, <1>4, <1>5, <1>6, <1>7, <1>8, <1>9, <1>10, <1>11
  DEF Next, Step

\* What Inv says of a state, for the reader.
LEMMA InvOneOwner == Inv => OneOwner
<1> SUFFICES ASSUME Inv, state # "failed"
             PROVE  /\ stack # <<>> => Apart(stack[1].node, Children, Candidates)
                    /\ IsInjective(heap.pool) /\ ToSet(heap.pool) \subseteq heap.used
                    /\ Owned = heap.used \ ToSet(heap.pool)
  BY DEF OneOwner
<1>1. Ownership /\ Null \notin NodeIds /\ stack \in Seq(Frame)
  BY DEF Inv, TypeOK, Running, Null, NodeIds
<1>2. CASE stack = <<>>
  <2>1. DOMAIN stack = {} /\ DOMAIN Children = {} /\ DOMAIN Candidates = {}
    BY <1>2 DEF Children, Candidates
  <2>2. Owned = {}
    BY <2>1 DEF Owned, ToSet
  <2> QED
    BY <1>1, <1>2, <2>2 DEF Ownership, GoodHeap, Live
<1>3. CASE stack # <<>>
  <2>1. Owns(stack[1].node, Children, Candidates, heap)
    BY <1>1, <1>3 DEF Ownership
  <2>2. 1 \in DOMAIN stack
    BY <1>1, <1>3
  <2>3. {stack[i].node : i \in DOMAIN stack \cap {1}} = {stack[1].node}
    BY <2>2
  <2>4. Owned = Held(stack[1].node, Children, Candidates)
    BY <2>3 DEF Owned, Held
  <2> QED
    BY <2>1, <2>4 DEF Owns, GoodHeap, Live
<1> QED
  BY <1>2, <1>3

\* Whatever the number of processes and sockets and the size of the pool, the
\* nodes of the search are never leaked, freed twice or used once freed
\* (decision_tree.c:93-128, 335-362).
THEOREM NodesOwned == Spec => []OneOwner
<1>1. Inv => OneOwner
  BY InvOneOwner
<1> QED
  BY <1>1, InitInv, NextInv, PTL DEF Spec

\* Two nodes for each process and one are enough for the search, so there
\* always is a node to allocate; and what is stored in the core processes are
\* sockets (decision_tree.c:365-413).
THEOREM TreeTyped == Spec => []TypeOK
<1>1. Inv => TypeOK
  BY DEF Inv
<1> QED
  BY <1>1, InitInv, NextInv, PTL DEF Spec
-----------------------------------------------------------------------------
(* What the nodes in memory stand for *)

\* The node of Placement that node n of a memory m is.
Meaning(m, n) ==
    [min |-> m[n].min, norme |-> m[n].norme, changes |-> m[n].changes,
     free |-> m[n].free, placed |-> m[n].placed,
     best        |-> IF m[n].best = Null THEN NoBest ELSE m[m[n].best].placed,
     bestChanges |-> IF m[n].best = Null THEN 0 ELSE m[m[n].best].changes]

At(node, s) == [node |-> node, from |-> s]

\* It is a node, and has a candidate exactly when there is one in memory.
LEMMA MeaningTyped ==
    ASSUME NEW m \in [NodeIds -> TreeNode], NEW n \in NodeIds,
           m[n].best # Null => Len(m[m[n].best].placed) = NumProcs
    PROVE  /\ Meaning(m, n) \in Node
           /\ Meaning(m, n).best = NoBest <=> m[n].best = Null
<1>1. m[n] \in TreeNode /\ (m[n].best # Null => m[m[n].best] \in TreeNode)
  BY DEF TreeNode
<1> DEFINE best == IF m[n].best = Null THEN NoBest ELSE m[m[n].best].placed
           changes == IF m[n].best = Null THEN 0 ELSE m[m[n].best].changes
<1>2. best \in Seq(Sockets) /\ changes \in Int /\ (best = NoBest <=> m[n].best = Null)
  <2>1. NoBest \in Seq(Sockets) /\ Len(NoBest) = 0 /\ NumProcs # 0
    BY TopologyAssumption DEF NoBest
  <2>2. CASE m[n].best = Null
    BY <2>1, <2>2
  <2>3. CASE m[n].best # Null
    BY <1>1, <2>1, <2>3 DEF TreeNode
  <2> QED
    BY <2>2, <2>3
<1>3. Meaning(m, n) = [min |-> m[n].min, norme |-> m[n].norme, changes |-> m[n].changes,
                       free |-> m[n].free, placed |-> m[n].placed, best |-> best,
                       bestChanges |-> changes]
  BY DEF Meaning
<1> HIDE DEF best, changes
<1> QED
  BY <1>1, <1>2, <1>3 DEF TreeNode, Node

\* It depends on the node and its candidate only.
LEMMA MeaningKept ==
    ASSUME NEW m, NEW w, NEW n, w[n] = m[n],
           m[n].best # Null => w[m[n].best] = m[m[n].best]
    PROVE  Meaning(w, n) = Meaning(m, n)
BY DEF Meaning

\* The turn of the loop over the sockets at a branch.
LEMMA OneTurn ==
    ASSUME NEW threads \in Requests, NEW before, NEW g,
           IsExploring(g, threads, before),
           NEW node \in Node, Len(node.placed) < NumProcs, NEW s \in Sockets,
           NEW child, child = Child(node, threads, before, s)
    PROVE  /\ node.free[s] < 0 => g[At(node, s)] = g[At(node, s + 1)]
           /\ ~(node.free[s] < 0) /\ Pruned(node, child)
                => g[At(node, s)] = g[At(node, s + 1)]
           /\ ~(node.free[s] < 0) /\ ~Pruned(node, child) /\ IsLeaf(child)
                => g[At(node, s)] = g[At(OfferLeaf(node, child), s + 1)]
           /\ ~(node.free[s] < 0) /\ ~Pruned(node, child) /\ ~IsLeaf(child)
                => g[At(node, s)] = g[At(OfferSubtree(node, g[At(child, 0)]), s + 1)]
<1> DEFINE b == At(node, s)
<1>1. b \in Branch /\ b.node = node /\ b.from = s /\ s # NumSockets
  BY TopologyAssumption DEF At, Branch, Sockets
<1>2. Below(threads, before, b) = At(child, 0)
  BY <1>1 DEF Below, At
<1> HIDE DEF b
<1> DEFINE next == Offered(threads, before, b, g[At(child, 0)])
<1>3. g[b] = g[At(next, s + 1)]
  <2>1. g[b] = g[Beside(threads, before, b, g[Below(threads, before, b)])]
    BY <1>1, Zenon DEF IsExploring
  <2>2. Beside(threads, before, b, g[At(child, 0)]) = At(next, s + 1)
    BY <1>1 DEF Beside, At
  <2> QED
    BY <1>2, <2>1, <2>2
<1>4. next = IF node.free[s] < 0 THEN node
             ELSE IF Pruned(node, child) THEN node
             ELSE IF IsLeaf(child) THEN OfferLeaf(node, child)
             ELSE OfferSubtree(node, g[At(child, 0)])
  BY <1>1 DEF Offered
<1> HIDE DEF next
<1> QED
  BY <1>3, <1>4 DEF b

\* When every socket has been tried, the node is the outcome.
LEMMA LastTurn ==
    ASSUME NEW threads, NEW before, NEW g, IsExploring(g, threads, before),
           NEW node \in Node, Len(node.placed) < NumProcs
    PROVE  g[At(node, NumSockets)] = node
<1>1. At(node, NumSockets) \in Branch /\ At(node, NumSockets).from = NumSockets
      /\ At(node, NumSockets).node = node
  BY TopologyAssumption DEF At, Branch
<1> QED
  BY <1>1, Zenon DEF IsExploring

\* What is placed in memory is the child of the node at the top.
LEMMA PlacedIsChild ==
    ASSUME Inv, Searching
    PROVE  LET node  == Meaning(mem, Top.node)
               child == Child(node, demand, prevSocket, Top.next)
           IN  /\ node \in Node /\ Len(node.placed) < NumProcs /\ Top.next \in Sockets
               /\ node.best = NoBest <=> TopNode.best = Null
               /\ child = [min |-> Placed.min, norme |-> Placed.norme,
                           changes |-> Placed.changes, free |-> Placed.free,
                           placed |-> Placed.placed, best |-> NoBest, bestChanges |-> 0]
               /\ Full <=> node.free[Top.next] < 0
               /\ Cut <=> Pruned(node, child)
               /\ Complete <=> IsLeaf(child)
<1> DEFINE node == Meaning(mem, Top.node)
           s == Top.next
           child == Child(node, demand, prevSocket, s)
           p == NextProcess
           left == TopNode.free[s] - demand[p]
           norme == IF left > 0 THEN TopNode.norme
                    ELSE IF TopNode.norme = IntMin THEN left ELSE TopNode.norme + left
           changes == IF prevSocket[p] = s THEN TopNode.changes ELSE TopNode.changes + 1
           free == [TopNode.free EXCEPT ![s] = left]
           placed == Append(TopNode.placed, s)
<1>1. /\ Len(stack) \in 1 .. NumProcs /\ TopNode \in TreeNode /\ Top.node \in NodeIds
      /\ Len(TopNode.placed) = Len(stack) - 1 /\ Top.next \in 0 .. NumSockets
      /\ TopNode = mem[Top.node] /\ mem \in [NodeIds -> TreeNode]
  BY TopFacts DEF Searching, TopNode, Inv, TypeOK
<1>2. TopNode.best # Null => Len(mem[TopNode.best].placed) = NumProcs
  BY StackFacts DEF Searching
<1>3. node \in Node /\ (node.best = NoBest <=> TopNode.best = Null)
  BY <1>1, <1>2, MeaningTyped
<1>4. /\ node.min = TopNode.min /\ node.norme = TopNode.norme
      /\ node.changes = TopNode.changes /\ node.free = TopNode.free
      /\ node.placed = TopNode.placed
  BY <1>1 DEF Meaning
<1>5. Len(node.placed) < NumProcs /\ s \in Sockets
  BY <1>1, <1>4, TopologyAssumption DEF Searching, Exhausted, Sockets
<1>6. p = NextOf(demand, node)
  BY <1>4, Zenon DEF NextProcess, NextOf
<1>7. /\ node = [min |-> node.min, norme |-> node.norme, changes |-> node.changes,
                 free |-> node.free, placed |-> node.placed, best |-> node.best,
                 bestChanges |-> node.bestChanges]
  BY DEF Meaning
<1>8. Placed = [min |-> TopNode.min, norme |-> norme,
                changes |-> TopNode.changes + (IF prevSocket[p] = s THEN 0 ELSE 1),
                free |-> free, placed |-> placed, best |-> Null, father |-> Top.node]
  BY DEF Placed
<1> HIDE DEF p, node
<1>9. child = [node EXCEPT !.free[s] = left, !.placed = placed, !.changes = changes,
                           !.norme = norme, !.best = NoBest, !.bestChanges = 0]
  <2> DEFINE q    == NextOf(demand, node)
             core == node.free[s] - demand[q]
             all  == Append(node.placed, s)
             same == IF prevSocket[q] = s THEN node.changes ELSE node.changes + 1
             over == IF core > 0 THEN node.norme
                     ELSE IF node.norme = IntMin THEN core ELSE node.norme + core
  <2>1. child = [node EXCEPT !.free[s] = core, !.placed = all, !.changes = same,
                             !.norme = over, !.best = NoBest, !.bestChanges = 0]
    BY Zenon DEF Child, NextOf
  <2>2. core = left /\ all = placed /\ same = changes
    BY <1>4, <1>6
  <2>3. over = norme
    BY <1>4, <1>6
  <2> HIDE DEF core, all, same, over, left, placed, changes, norme, child
  <2> QED
    BY <2>1, <2>2, <2>3
<1> HIDE DEF left
<1>10. child = [min |-> node.min, norme |-> norme, changes |-> changes, free |-> free,
                placed |-> placed, best |-> NoBest, bestChanges |-> 0]
  <2>1. child = [node EXCEPT !.free = [node.free EXCEPT ![s] = left], !.placed = placed,
                             !.changes = changes, !.norme = norme, !.best = NoBest,
                             !.bestChanges = 0]
    BY <1>9
  <2> HIDE DEF child, norme, changes, placed
  <2>2. free = [node.free EXCEPT ![s] = left]
    BY <1>4
  <2> HIDE DEF free
  <2> QED
    BY <1>7, <2>1, <2>2, Zenon
<1>11. changes = TopNode.changes + (IF prevSocket[p] = s THEN 0 ELSE 1)
  BY <1>1 DEF TreeNode
<1> HIDE DEF child, norme, changes, free, placed
<1>12. /\ Placed.min = TopNode.min /\ Placed.norme = norme /\ Placed.changes = changes
       /\ Placed.free = free /\ Placed.placed = placed
  BY <1>8, <1>11
<1>13. child.norme = norme /\ child.placed = placed
  BY <1>10
<1>14. /\ Full <=> node.free[s] < 0
       /\ Cut <=> Pruned(node, child)
       /\ Complete <=> IsLeaf(child)
  BY <1>4, <1>12, <1>13 DEF Full, Cut, Complete, Pruned, IsLeaf
<1> QED
  BY <1>3, <1>4, <1>5, <1>10, <1>12, <1>14 DEF node, child

-----------------------------------------------------------------------------
(* What the activations return *)

\* The search as a function of a branch.
Searches(threads, before) == CHOOSE g : IsExploring(g, threads, before)

\* v[i] is the node the i-th activation will return, on the memory m: the one
\* at the top goes on from where it is, and each other one from the socket after
\* that of its child, to which it has yet to offer what the next one returns.
Goes(g, m, frames, v, i) ==
    v[i] = g[At(IF i = Len(frames) THEN Meaning(m, frames[i].node)
                ELSE OfferSubtree(Meaning(m, frames[i].node), v[i + 1]),
                frames[i].next)]

Promised(g, m, frames, v) ==
    v[1] = g[AtRoot] /\ \A i \in 1 .. Len(frames) : Goes(g, m, frames, v, i)

Promise ==
    state = "search" => \E v : Promised(Searches(demand, prevSocket), mem, stack, v)

\* The search is one.
LEMMA SearchesExplores ==
    ASSUME NEW threads \in Requests, NEW before
    PROVE  /\ IsExploring(Searches(threads, before), threads, before)
           /\ Explore(threads, before) = Searches(threads, before)[AtRoot]
<1>1. IsExploring(Searches(threads, before), threads, before)
  BY ExploreExists DEF Searches
<1> QED
  BY <1>1, ExploreUnfolded DEF Searches

\* A turn at the top that keeps what the top will return.
LEMMA TurnKeeps ==
    ASSUME NEW g, NEW m, NEW w, NEW frames, NEW new, NEW v,
           Promised(g, m, frames, v),
           Len(new) = Len(frames), Len(frames) \in Nat \ {0},
           \A i \in 1 .. Len(frames) - 1 :
               /\ new[i].node = frames[i].node /\ new[i].next = frames[i].next
               /\ Meaning(w, frames[i].node) = Meaning(m, frames[i].node),
           g[At(Meaning(m, frames[Len(frames)].node), frames[Len(frames)].next)]
             = g[At(Meaning(w, new[Len(frames)].node), new[Len(frames)].next)]
    PROVE  Promised(g, w, new, v)
<1> DEFINE L == Len(frames)
<1>1. ASSUME NEW i \in 1 .. L PROVE Goes(g, w, new, v, i)
  <2>1. Goes(g, m, frames, v, i)
    BY DEF Promised
  <2>2. CASE i = L
    BY <2>1, <2>2 DEF Goes
  <2>3. CASE i # L
    <3>1. i \in 1 .. L - 1
      BY <2>3
    <3> QED
      BY <2>1, <2>3, <3>1 DEF Goes
  <2> QED
    BY <2>2, <2>3
<1> QED
  BY <1>1 DEF Promised

\* The activations under the top, their nodes and their candidates.
LEMMA Beneath ==
    ASSUME Inv, state = "search"
    PROVE  \A i \in 1 .. Len(stack) :
              /\ stack[i].node \in NodeIds /\ mem[stack[i].node] \in TreeNode
              /\ mem[stack[i].node].best = Candidates[i]
              /\ Candidates[i] \in NodeIds \cup {Null}
              /\ Meaning(mem, stack[i].node) \in Node
              /\ Len(Meaning(mem, stack[i].node).placed) = i - 1
              /\ \A j \in 1 .. Len(stack) : /\ stack[i].node # Candidates[j]
                                            /\ stack[i].node = stack[j].node => i = j
              /\ Searching => stack[i].node # CurrentChild /\ Candidates[i] # CurrentChild
<1>1. /\ Candidates \in Family(Len(stack)) /\ mem \in [NodeIds -> TreeNode]
      /\ \A i \in 1 .. Len(stack) :
            /\ Candidates[i] = mem[stack[i].node].best
            /\ stack[i].node \in NodeIds
            /\ Len(mem[stack[i].node].placed) = i - 1
            /\ Candidates[i] # Null => Len(mem[Candidates[i]].placed) = NumProcs
  BY StackFacts
<1>2. \A i \in 1 .. Len(stack) : Candidates[i] \in NodeIds \cup {Null}
  BY <1>1 DEF Family
<1>3. \A i \in 1 .. Len(stack) : Meaning(mem, stack[i].node) \in Node
  BY <1>1, MeaningTyped
<1>4. \A i \in 1 .. Len(stack) : Len(Meaning(mem, stack[i].node).placed) = i - 1
  BY <1>1 DEF Meaning
<1> QED
  BY <1>1, <1>2, <1>3, <1>4, NodesApart, ChildFacts

\* A socket that is full, a child that is cut, a leaf that is rejected: the node
\* stays as it is.
LEMMA LoopKeeps ==
    ASSUME Inv, Promise, SkipSocket \/ CutChild \/ RejectLeaf
    PROVE  Promise'
<1> DEFINE L == Len(stack)
           g == Searches(demand, prevSocket)
           node == Meaning(mem, Top.node)
           s == Top.next
           child == Child(node, demand, prevSocket, s)
<1>1. /\ Searching /\ stack' = Advanced(CurrentChild)
      /\ state' = state /\ demand' = demand /\ prevSocket' = prevSocket
  BY DEF SkipSocket, CutChild, RejectLeaf, caller
<1>2. /\ CurrentChild \in NodeIds
      /\ \A n \in NodeIds \ {CurrentChild} : mem'[n] = mem[n]
  <2>1. CurrentChild \in NodeIds /\ mem \in [NodeIds -> TreeNode]
    BY <1>1, ChildFacts DEF Inv, TypeOK
  <2> QED
    BY <2>1 DEF SkipSocket, CutChild, RejectLeaf
<1>3. PICK v : Promised(g, mem, stack, v)
  BY <1>1 DEF Promise, Searching
<1>4. /\ L \in Nat \ {0} /\ L \in 1 .. L /\ Top = stack[L] /\ state = "search"
      /\ demand \in Requests /\ TopNode = mem[Top.node]
  BY <1>1, TopFacts DEF Searching, Inv, TypeOK, Requests, TopNode
<1>5. /\ node \in Node /\ Len(node.placed) < NumProcs /\ s \in Sockets
      /\ node.best = NoBest <=> TopNode.best = Null
      /\ child = [min |-> Placed.min, norme |-> Placed.norme,
                  changes |-> Placed.changes, free |-> Placed.free,
                  placed |-> Placed.placed, best |-> NoBest, bestChanges |-> 0]
      /\ Full <=> node.free[s] < 0
      /\ Cut <=> Pruned(node, child)
      /\ Complete <=> IsLeaf(child)
  BY <1>1, PlacedIsChild
<1>6. /\ Len(stack') = L
      /\ \A i \in 1 .. L : /\ stack'[i].node = stack[i].node
                           /\ stack'[i].next = IF i = L THEN s + 1 ELSE stack[i].next
  BY <1>1, <1>2, AdvancedFacts
<1>7. \A i \in 1 .. L : Meaning(mem', stack[i].node) = Meaning(mem, stack[i].node)
  <2> SUFFICES ASSUME NEW i \in 1 .. L
               PROVE  Meaning(mem', stack[i].node) = Meaning(mem, stack[i].node)
    OBVIOUS
  <2>1. /\ stack[i].node \in NodeIds \ {CurrentChild}
        /\ mem[stack[i].node].best = Candidates[i]
        /\ Candidates[i] \in NodeIds \cup {Null} /\ Candidates[i] # CurrentChild
    BY <1>1, <1>4, Beneath
  <2> QED
    BY <1>2, <2>1, MeaningKept
<1>8. IsExploring(g, demand, prevSocket)
  BY <1>4, SearchesExplores
<1>9. Complete /\ Rejected => OfferLeaf(node, child) = node
  <2>1. Leaf.norme = Placed.norme /\ Leaf.changes = Placed.changes
    BY DEF Leaf, Placed
  <2>2. node.min = TopNode.min
        /\ (TopNode.best # Null => node.bestChanges = mem[TopNode.best].changes)
    BY <1>4 DEF Meaning
  <2> HIDE DEF node, child
  <2> QED
    BY <1>5, <2>1, <2>2 DEF Rejected, OfferLeaf
<1>10. g[At(node, s)] = g[At(node, s + 1)]
  <2> HIDE DEF g, node, s
  <2>1. /\ node.free[s] < 0 => g[At(node, s)] = g[At(node, s + 1)]
        /\ ~(node.free[s] < 0) /\ Pruned(node, child)
             => g[At(node, s)] = g[At(node, s + 1)]
        /\ ~(node.free[s] < 0) /\ ~Pruned(node, child) /\ IsLeaf(child)
             => g[At(node, s)] = g[At(OfferLeaf(node, child), s + 1)]
    BY <1>4, <1>5, <1>8, OneTurn
  <2> HIDE DEF child
  <2> QED
    BY <1>5, <1>9, <2>1 DEF SkipSocket, CutChild, RejectLeaf
<1> HIDE DEF g
<1>11. Promised(g, mem', stack', v)
  <2>1. \A i \in 1 .. L - 1 : i \in 1 .. L /\ i # L
    BY <1>4
  <2>2. g[At(Meaning(mem, stack[L].node), stack[L].next)]
          = g[At(Meaning(mem', stack'[L].node), stack'[L].next)]
    BY <1>4, <1>6, <1>7, <1>10
  <2>3. \A i \in 1 .. L - 1 :
          /\ stack'[i].node = stack[i].node /\ stack'[i].next = stack[i].next
          /\ Meaning(mem', stack[i].node) = Meaning(mem, stack[i].node)
    BY <1>6, <1>7, <2>1
  <2> QED
    BY <1>3, <1>4, <1>6, <2>2, <2>3, TurnKeeps
<1> QED
  BY <1>1, <1>11 DEF Promise, g

\* What the memory is after a leaf has become the candidate.
LEMMA AcceptedMemory ==
    ASSUME Inv, AcceptLeaf
    PROVE  /\ mem'[CurrentChild] = Leaf
           /\ mem'[Top.node] = [TopNode EXCEPT !.best = CurrentChild, !.min = Leaf.min,
                                               !.changes = Leaf.changes]
           /\ \A n \in NodeIds \ {CurrentChild, Top.node} : mem'[n] = mem[n]
<1> DEFINE c == CurrentChild
           t == Top.node
           one == [mem EXCEPT ![c] = Leaf]
<1>1. mem \in [NodeIds -> TreeNode] /\ t \in NodeIds /\ Searching /\ TopNode = mem[t]
  BY TopFacts DEF Inv, TypeOK, AcceptLeaf, Searching, TopNode
<1>2. c \in NodeIds /\ t # c
  <2>1. Len(stack) \in 1 .. Len(stack) /\ Top = stack[Len(stack)]
    BY <1>1, TopFacts DEF Searching
  <2> QED
    BY <1>1, <2>1, ChildFacts
<1> DEFINE y == Leaf.min
           z == Leaf.changes
<1>3. mem' = [one EXCEPT ![t].best = c, ![t].min = y, ![t].changes = z]
  BY DEF AcceptLeaf
<1>4. /\ one \in [NodeIds -> {Leaf} \cup TreeNode] /\ one[c] = Leaf
      /\ \A n \in NodeIds \ {c} : one[n] = mem[n]
  BY <1>1, <1>2
<1> HIDE DEF c, t, one, y, z
<1>5. mem' = [one EXCEPT ![t] = [one[t] EXCEPT !.best = c, !.min = y, !.changes = z]]
  BY <1>1, <1>3, <1>4
<1>6. /\ mem'[c] = Leaf /\ \A n \in NodeIds \ {c, t} : mem'[n] = mem[n]
      /\ mem'[t] = [TopNode EXCEPT !.best = c, !.min = y, !.changes = z]
  BY <1>1, <1>2, <1>4, <1>5
<1> QED
  BY <1>6 DEF c, t, y, z

\* A leaf that becomes the candidate.
LEMMA AcceptKeeps ==
    ASSUME Inv, Promise, AcceptLeaf
    PROVE  Promise'
<1> DEFINE L == Len(stack)
           g == Searches(demand, prevSocket)
           t == Top.node
           c == CurrentChild
           node == Meaning(mem, t)
           s == Top.next
           child == Child(node, demand, prevSocket, s)
           offered == OfferLeaf(node, child)
<1>1. /\ Searching /\ ~Full /\ ~Cut /\ Complete /\ ~Rejected
      /\ stack' = Advanced(TopNode.best)
      /\ state' = state /\ demand' = demand /\ prevSocket' = prevSocket
  BY DEF AcceptLeaf, caller
<1>2. PICK v : Promised(g, mem, stack, v)
  BY <1>1 DEF Promise, Searching
<1>3. /\ L \in Nat \ {0} /\ L \in 1 .. L /\ Top = stack[L] /\ state = "search"
      /\ demand \in Requests /\ TopNode = mem[t] /\ t \in NodeIds
      /\ TopNode \in TreeNode /\ c \in NodeIds
  BY <1>1, TopFacts, ChildFacts DEF Searching, Inv, TypeOK, Requests, TopNode
<1>4. /\ node \in Node /\ Len(node.placed) < NumProcs /\ s \in Sockets
      /\ node.best = NoBest <=> TopNode.best = Null
      /\ child = [min |-> Placed.min, norme |-> Placed.norme,
                  changes |-> Placed.changes, free |-> Placed.free,
                  placed |-> Placed.placed, best |-> NoBest, bestChanges |-> 0]
      /\ Full <=> node.free[s] < 0
      /\ Cut <=> Pruned(node, child)
      /\ Complete <=> IsLeaf(child)
  BY <1>1, PlacedIsChild
<1>5. /\ Len(stack') = L
      /\ \A i \in 1 .. L : /\ stack'[i].node = stack[i].node
                           /\ stack'[i].next = IF i = L THEN s + 1 ELSE stack[i].next
  <2>1. TopNode.best \in NodeIds \cup {Null}
    BY <1>3 DEF TreeNode
  <2> QED
    BY <1>1, <2>1, AdvancedFacts
<1>6. /\ mem'[c] = Leaf
      /\ mem'[t] = [TopNode EXCEPT !.best = c, !.min = Leaf.min, !.changes = Leaf.changes]
      /\ \A n \in NodeIds \ {c, t} : mem'[n] = mem[n]
  BY AcceptedMemory
<1>7. \A i \in 1 .. L - 1 : Meaning(mem', stack[i].node) = Meaning(mem, stack[i].node)
  <2> SUFFICES ASSUME NEW i \in 1 .. L - 1
               PROVE  Meaning(mem', stack[i].node) = Meaning(mem, stack[i].node)
    OBVIOUS
  <2>1. i \in 1 .. L /\ i # L
    BY <1>3
  <2>2. /\ stack[i].node \in NodeIds /\ stack[i].node # c /\ stack[i].node # t
        /\ mem[stack[i].node].best = Candidates[i]
        /\ Candidates[i] \in NodeIds \cup {Null} /\ Candidates[i] # c
    BY <1>1, <1>3, <2>1, Beneath
  <2>3. Candidates[i] # t
    BY <1>3, <2>1, Beneath
  <2> QED
    BY <1>6, <2>2, <2>3, MeaningKept
<1>8. Leaf.norme = Placed.norme /\ Leaf.changes = Placed.changes
      /\ Leaf.placed = Placed.placed /\ Leaf.min = Placed.norme
  BY DEF Leaf, Placed
<1>9. offered = [node EXCEPT !.best = child.placed, !.bestChanges = child.changes,
                             !.min = child.norme, !.changes = child.changes]
  <2>1. node.min = TopNode.min
        /\ (TopNode.best # Null => node.bestChanges = mem[TopNode.best].changes)
    BY <1>3 DEF Meaning
  <2> HIDE DEF node, child
  <2> QED
    BY <1>1, <1>4, <1>8, <2>1 DEF Rejected, OfferLeaf
<1>10. Meaning(mem', t) = offered
  <2>1. /\ node.norme = TopNode.norme /\ node.free = TopNode.free
        /\ node.placed = TopNode.placed
        /\ node = [min |-> node.min, norme |-> node.norme, changes |-> node.changes,
                   free |-> node.free, placed |-> node.placed, best |-> node.best,
                   bestChanges |-> node.bestChanges]
    BY <1>3 DEF Meaning
  <2> HIDE DEF node, child, offered
  <2>2. /\ child.placed = Leaf.placed /\ child.changes = Leaf.changes
        /\ child.norme = Leaf.min
    BY <1>4, <1>8
  <2>3. offered = [min |-> Leaf.min, norme |-> TopNode.norme, changes |-> Leaf.changes,
                   free |-> TopNode.free, placed |-> TopNode.placed,
                   best |-> Leaf.placed, bestChanges |-> Leaf.changes]
    BY <1>9, <2>1, <2>2
  <2>4. /\ mem'[t].min = Leaf.min /\ mem'[t].norme = TopNode.norme
        /\ mem'[t].changes = Leaf.changes /\ mem'[t].free = TopNode.free
        /\ mem'[t].placed = TopNode.placed /\ mem'[t].best = c
    BY <1>3, <1>6 DEF TreeNode
  <2>5. c # Null
    BY <1>3 DEF Null, NodeIds
  <2> QED
    BY <1>6, <2>3, <2>4, <2>5 DEF Meaning
<1>11. IsExploring(g, demand, prevSocket)
  BY <1>3, SearchesExplores
<1>12. g[At(node, s)] = g[At(offered, s + 1)]
  <2> HIDE DEF g, node, s
  <2>1. ~(node.free[s] < 0) /\ ~Pruned(node, child) /\ IsLeaf(child)
             => g[At(node, s)] = g[At(OfferLeaf(node, child), s + 1)]
    BY <1>3, <1>4, <1>11, OneTurn
  <2> QED
    BY <1>1, <1>4, <2>1
<1> HIDE DEF g, offered, node, s, c
<1>13. Promised(g, mem', stack', v)
  <2>1. \A i \in 1 .. L - 1 : i \in 1 .. L /\ i # L
    BY <1>3
  <2>2. g[At(Meaning(mem, stack[L].node), stack[L].next)]
          = g[At(Meaning(mem', stack'[L].node), stack'[L].next)]
    BY <1>3, <1>5, <1>10, <1>12 DEF node, s
  <2>3. \A i \in 1 .. L - 1 :
          /\ stack'[i].node = stack[i].node /\ stack'[i].next = stack[i].next
          /\ Meaning(mem', stack[i].node) = Meaning(mem, stack[i].node)
    BY <1>5, <1>7, <2>1
  <2> QED
    BY <1>2, <1>3, <1>5, <2>2, <2>3, TurnKeeps
<1> QED
  BY <1>1, <1>13 DEF Promise, g

\* The loop goes down: what the child will return is promised to its father.
LEMMA DescendKeeps ==
    ASSUME Inv, Promise, Descend
    PROVE  Promise'
<1> DEFINE L == Len(stack)
           g == Searches(demand, prevSocket)
           c == CurrentChild
           node == Meaning(mem, Top.node)
           s == Top.next
           child == Child(node, demand, prevSocket, s)
           a == Advanced(c)
           frame == [node |-> c, child |-> NextNode(HeapNow), next |-> 0]
<1>1. /\ Searching /\ ~Full /\ ~Cut /\ ~Complete
      /\ stack' = Append(a, frame) /\ mem' = [mem EXCEPT ![c] = Placed]
      /\ state' = state /\ demand' = demand /\ prevSocket' = prevSocket
  BY DEF Descend, caller
<1>2. PICK v : Promised(g, mem, stack, v)
  BY <1>1 DEF Promise, Searching
<1>3. /\ L \in Nat \ {0} /\ L \in 1 .. L /\ Top = stack[L] /\ state = "search"
      /\ demand \in Requests /\ mem \in [NodeIds -> TreeNode]
      /\ c \in NodeIds /\ Placed.best = Null
  BY <1>1, TopFacts, ChildFacts, PlacedTyped DEF Searching, Inv, TypeOK, Requests
<1>4. /\ node \in Node /\ Len(node.placed) < NumProcs /\ s \in Sockets
      /\ child = [min |-> Placed.min, norme |-> Placed.norme,
                  changes |-> Placed.changes, free |-> Placed.free,
                  placed |-> Placed.placed, best |-> NoBest, bestChanges |-> 0]
      /\ Full <=> node.free[s] < 0
      /\ Cut <=> Pruned(node, child)
      /\ Complete <=> IsLeaf(child)
  BY <1>1, PlacedIsChild
<1>5. /\ Len(a) = L /\ a \in Seq(Frame)
      /\ \A i \in 1 .. L : /\ a[i].node = stack[i].node
                           /\ a[i].next = IF i = L THEN s + 1 ELSE stack[i].next
  BY <1>1, <1>3, AdvancedFacts
<1>6. /\ mem'[c] = Placed /\ \A n \in NodeIds \ {c} : mem'[n] = mem[n]
  BY <1>1, <1>3
<1>7. \A i \in 1 .. L : Meaning(mem', stack[i].node) = Meaning(mem, stack[i].node)
  <2> SUFFICES ASSUME NEW i \in 1 .. L
               PROVE  Meaning(mem', stack[i].node) = Meaning(mem, stack[i].node)
    OBVIOUS
  <2>1. /\ stack[i].node \in NodeIds \ {c}
        /\ mem[stack[i].node].best = Candidates[i]
        /\ Candidates[i] \in NodeIds \cup {Null} /\ Candidates[i] # c
    BY <1>1, <1>3, Beneath
  <2> QED
    BY <1>6, <2>1, MeaningKept
<1>8. Meaning(mem', c) = child
  <2> HIDE DEF child, c
  <2> QED
    BY <1>3, <1>4, <1>6 DEF Meaning
<1> HIDE DEF a
<1>9. /\ Len(stack') = L + 1 /\ stack'[L + 1] = frame
      /\ \A i \in 1 .. L : stack'[i] = a[i]
  <2> HIDE DEF frame
  <2> QED
    BY <1>1, <1>3, <1>5
<1>10. stack'[L + 1].node = c /\ stack'[L + 1].next = 0
  BY <1>9
<1>11. IsExploring(g, demand, prevSocket)
  BY <1>3, SearchesExplores
<1> HIDE DEF g, s, frame
<1> DEFINE u == g[At(child, 0)]
<1>12. g[At(node, s)] = g[At(OfferSubtree(node, u), s + 1)]
  <2> HIDE DEF node
  <2>1. ~(node.free[s] < 0) /\ ~Pruned(node, child) /\ ~IsLeaf(child)
          => g[At(node, s)] = g[At(OfferSubtree(node, g[At(child, 0)]), s + 1)]
    BY <1>3, <1>4, <1>11, OneTurn
  <2> QED
    BY <1>1, <1>4, <2>1
<1>13. Goes(g, mem, stack, v, L) /\ v[1] = g[AtRoot]
       /\ \A i \in 1 .. L : Goes(g, mem, stack, v, i)
  BY <1>2, <1>3 DEF Promised
<1>14. v[L] = g[At(node, s)]
  BY <1>3, <1>13 DEF Goes, s
<1> DEFINE w == [i \in 1 .. L + 1 |-> IF i = L + 1 THEN u ELSE v[i]]
<1>15. w[L + 1] = u /\ \A i \in 1 .. L : w[i] = v[i] /\ i # L + 1
  BY <1>3
<1> HIDE DEF w, c
<1>16. Goes(g, mem', stack', w, L + 1)
  <2> HIDE DEF child
  <2> QED
    BY <1>8, <1>9, <1>10, <1>15 DEF Goes
<1>17. Goes(g, mem', stack', w, L)
  <2>1. L # L + 1 /\ w[L] = v[L] /\ w[L + 1] = u /\ stack'[L].node = stack[L].node
        /\ stack'[L].next = s + 1 /\ Meaning(mem', stack[L].node) = node
    BY <1>3, <1>5, <1>7, <1>9, <1>15
  <2> HIDE DEF node, u
  <2> QED
    BY <1>9, <1>12, <1>14, <2>1 DEF Goes
<1>18. ASSUME NEW i \in 1 .. L - 1 PROVE Goes(g, mem', stack', w, i)
  <2>1. i \in 1 .. L /\ i # L /\ i # L + 1 /\ i + 1 \in 1 .. L
    BY <1>3
  <2>2. /\ stack'[i].node = stack[i].node /\ stack'[i].next = stack[i].next
        /\ Meaning(mem', stack[i].node) = Meaning(mem, stack[i].node)
        /\ w[i] = v[i] /\ w[i + 1] = v[i + 1] /\ Goes(g, mem, stack, v, i)
    BY <1>5, <1>7, <1>9, <1>13, <1>15, <2>1
  <2> QED
    BY <1>9, <2>1, <2>2 DEF Goes
<1>19. Promised(g, mem', stack', w)
  <2>1. \A i \in 1 .. L + 1 : i = L + 1 \/ i = L \/ i \in 1 .. L - 1
    BY <1>3
  <2>2. w[1] = g[AtRoot]
    BY <1>3, <1>13, <1>15
  <2> QED
    BY <1>9, <1>16, <1>17, <1>18, <2>1, <2>2 DEF Promised
<1> QED
  BY <1>1, <1>19 DEF Promise, g

\* A node that is offered another.
LEMMA ThreeFields ==
    ASSUME NEW f, NEW x, NEW y, NEW z,
           f = [min |-> f.min, norme |-> f.norme, changes |-> f.changes, free |-> f.free,
                placed |-> f.placed, best |-> f.best, bestChanges |-> f.bestChanges]
    PROVE  [f EXCEPT !.min = x, !.best = y, !.bestChanges = z]
             = [min |-> x, norme |-> f.norme, changes |-> f.changes, free |-> f.free,
                placed |-> f.placed, best |-> y, bestChanges |-> z]
<1> DEFINE one == [f EXCEPT !.min = x]
           two == [one EXCEPT !.best = y]
<1>1. one = [min |-> x, norme |-> f.norme, changes |-> f.changes, free |-> f.free,
             placed |-> f.placed, best |-> f.best, bestChanges |-> f.bestChanges]
  OBVIOUS
<1> HIDE DEF one
<1>2. two = [min |-> x, norme |-> f.norme, changes |-> f.changes, free |-> f.free,
             placed |-> f.placed, best |-> y, bestChanges |-> f.bestChanges]
  BY <1>1
<1> HIDE DEF two
<1>3. [two EXCEPT !.bestChanges = z]
        = [min |-> x, norme |-> f.norme, changes |-> f.changes, free |-> f.free,
           placed |-> f.placed, best |-> y, bestChanges |-> z]
  BY <1>2
<1> QED
  BY <1>3 DEF one, two

\* The memory after a return: the father is offered what was explored.
LEMMA ReturnedMemory ==
    ASSUME Inv, Return
    PROVE  /\ Len(stack) > 1 /\ Len(stack) - 1 \in 1 .. Len(stack)
           /\ stack[Len(stack) - 1].node = TopNode.father
           /\ Meaning(mem', TopNode.father)
                = OfferSubtree(Meaning(mem, TopNode.father), Meaning(mem, Top.node))
           /\ \A n \in NodeIds \ {TopNode.father} : mem'[n] = mem[n]
<1> DEFINE L == Len(stack)
           t == TopNode.father
           r == Top.node
           better == mem[t].min < TopNode.min
           x == TopNode.min
           y == TopNode.best
<1>1. state = "search" /\ t # Null
  BY DEF Return
<1>2. /\ L \in Nat \ {0} /\ L \in 1 .. L /\ Top = stack[L] /\ TopNode = mem[r]
      /\ mem \in [NodeIds -> TreeNode] /\ r \in NodeIds /\ TopNode \in TreeNode
  BY <1>1, TopFacts DEF Inv, TypeOK, TopNode
<1>3. L = 1 => t = Null
  BY <1>1, <1>2, StackFacts
<1>4. L > 1 /\ L - 1 \in 1 .. L
  BY <1>1, <1>2, <1>3
<1>5. t = stack[L - 1].node
  BY <1>1, <1>2, <1>4, StackFacts
<1>6. t \in NodeIds /\ mem[t].best # t /\ y # t
  <2>1. /\ stack[L - 1].node \in NodeIds
        /\ mem[stack[L - 1].node].best = Candidates[L - 1]
        /\ mem[stack[L].node].best = Candidates[L]
        /\ \A j \in 1 .. L : stack[L - 1].node # Candidates[j]
    BY <1>1, <1>2, <1>4, Beneath
  <2> QED
    BY <1>2, <1>4, <1>5, <2>1
<1>7. mem' = IF better THEN [mem EXCEPT ![t].min = x, ![t].best = y] ELSE mem
  BY DEF Return
<1>8. mem[t] \in TreeNode /\ y \in NodeIds \cup {Null} /\ x \in Int
  BY <1>2, <1>6 DEF TreeNode
<1>9. /\ Meaning(mem, t).min = mem[t].min /\ Meaning(mem, r).min = x
      /\ Meaning(mem, t)
           = [min |-> mem[t].min, norme |-> mem[t].norme, changes |-> mem[t].changes,
              free |-> mem[t].free, placed |-> mem[t].placed,
              best |-> Meaning(mem, t).best, bestChanges |-> Meaning(mem, t).bestChanges]
      /\ Meaning(mem, r).best = IF y = Null THEN NoBest ELSE mem[y].placed
      /\ Meaning(mem, r).bestChanges = IF y = Null THEN 0 ELSE mem[y].changes
  BY <1>2 DEF Meaning
<1> HIDE DEF t, x, y, r
<1>10. CASE ~better
  <2>1. mem' = mem
    BY <1>7, <1>10
  <2>2. Meaning(mem, t).min >= Meaning(mem, r).min
    BY <1>2, <1>8, <1>9, <1>10 DEF TreeNode, x
  <2>3. OfferSubtree(Meaning(mem, t), Meaning(mem, r)) = Meaning(mem, t)
    BY <2>2 DEF OfferSubtree
  <2> QED
    BY <1>4, <1>5, <2>1, <2>3 DEF t, r
<1>11. CASE better
  <2> DEFINE new == [mem[t] EXCEPT !.min = x, !.best = y]
  <2>1. mem' = [mem EXCEPT ![t] = new]
    BY <1>2, <1>6, <1>7, <1>11
  <2>2. /\ new.min = x /\ new.norme = mem[t].norme /\ new.changes = mem[t].changes
        /\ new.free = mem[t].free /\ new.placed = mem[t].placed /\ new.best = y
    BY <1>8 DEF TreeNode
  <2> HIDE DEF new
  <2>3. mem'[t] = new /\ \A n \in NodeIds \ {t} : mem'[n] = mem[n]
    BY <1>2, <1>6, <2>1
  <2>4. y # Null => mem'[y] = mem[y]
    BY <1>6, <1>8, <2>3
  <2>5. Meaning(mem', t)
          = [min |-> x, norme |-> mem[t].norme, changes |-> mem[t].changes,
             free |-> mem[t].free, placed |-> mem[t].placed,
             best |-> Meaning(mem, r).best, bestChanges |-> Meaning(mem, r).bestChanges]
    BY <1>9, <2>2, <2>3, <2>4 DEF Meaning
  <2> DEFINE f == Meaning(mem, t)
             e == Meaning(mem, r)
  <2>6. ~(f.min >= e.min)
    BY <1>2, <1>8, <1>9, <1>11 DEF TreeNode, x
  <2>7. OfferSubtree(f, e) = [f EXCEPT !.min = e.min, !.best = e.best,
                                       !.bestChanges = e.bestChanges]
    BY <2>6 DEF OfferSubtree
  <2>8. /\ e.min = x
        /\ f = [min |-> mem[t].min, norme |-> mem[t].norme, changes |-> mem[t].changes,
                free |-> mem[t].free, placed |-> mem[t].placed, best |-> f.best,
                bestChanges |-> f.bestChanges]
    BY <1>9
  <2>11. f = [min |-> f.min, norme |-> f.norme, changes |-> f.changes, free |-> f.free,
              placed |-> f.placed, best |-> f.best, bestChanges |-> f.bestChanges]
    BY DEF Meaning
  <2> HIDE DEF e, f
  <2>10. OfferSubtree(f, e) = [f EXCEPT !.min = x, !.best = e.best,
                                        !.bestChanges = e.bestChanges]
    BY <2>7, <2>8
  <2>9. OfferSubtree(f, e)
          = [min |-> x, norme |-> mem[t].norme, changes |-> mem[t].changes,
             free |-> mem[t].free, placed |-> mem[t].placed, best |-> e.best,
             bestChanges |-> e.bestChanges]
    <3>1. /\ f.norme = mem[t].norme /\ f.changes = mem[t].changes
          /\ f.free = mem[t].free /\ f.placed = mem[t].placed
      BY <2>8
    <3>2. f = [min |-> f.min, norme |-> f.norme, changes |-> f.changes, free |-> f.free,
               placed |-> f.placed, best |-> f.best, bestChanges |-> f.bestChanges]
      BY <2>11
    <3>3. OfferSubtree(f, e)
             = [min |-> x, norme |-> f.norme, changes |-> f.changes, free |-> f.free,
                placed |-> f.placed, best |-> e.best, bestChanges |-> e.bestChanges]
      BY <2>10, <3>2, ThreeFields
    <3> QED
      BY <3>1, <3>3
  <2> QED
    BY <1>4, <1>5, <2>3, <2>5, <2>9 DEF e, f, t, r
<1> QED
  BY <1>10, <1>11

\* An activation that ends: its node is what was promised, and its father takes
\* it over.
LEMMA ReturnKeeps ==
    ASSUME Inv, Promise, Return
    PROVE  Promise'
<1> DEFINE L == Len(stack)
           g == Searches(demand, prevSocket)
           t == stack[L - 1].node
           r == stack[L].node
<1>1. /\ state = "search" /\ Exhausted /\ stack' = Front(stack)
      /\ state' = state /\ demand' = demand /\ prevSocket' = prevSocket
  BY DEF Return, caller
<1>2. PICK v : Promised(g, mem, stack, v)
  BY <1>1 DEF Promise
<1>3. /\ L \in Nat \ {0} /\ L \in 1 .. L /\ Top = stack[L] /\ L <= NumProcs
      /\ demand \in Requests
  BY <1>1, TopFacts, StackFacts DEF Inv, TypeOK, Requests
<1>4. /\ L > 1 /\ L - 1 \in 1 .. L /\ L - 1 \in 1 .. L - 1
      /\ Meaning(mem', t) = OfferSubtree(Meaning(mem, t), Meaning(mem, r))
      /\ \A n \in NodeIds \ {t} : mem'[n] = mem[n]
  BY <1>3, ReturnedMemory
<1>5. /\ Len(stack') = L - 1 /\ \A i \in 1 .. L - 1 : stack'[i] = stack[i]
  BY <1>1, <1>4, FrontFacts
<1>6. IsExploring(g, demand, prevSocket)
  BY <1>3, SearchesExplores
<1>7. \A i \in 1 .. L : Goes(g, mem, stack, v, i)
  BY <1>2 DEF Promised
<1>8. v[L] = Meaning(mem, r)
  <2>1. v[L] = g[At(Meaning(mem, r), NumSockets)]
    BY <1>1, <1>3, <1>7 DEF Goes, Exhausted
  <2>2. Meaning(mem, r) \in Node /\ Len(Meaning(mem, r).placed) < NumProcs
    <3>1. Meaning(mem, r) \in Node /\ Len(Meaning(mem, r).placed) = L - 1
      BY <1>1, <1>3, Beneath
    <3> QED
      BY <1>3, <3>1, TopologyAssumption
  <2> HIDE DEF g, r
  <2> QED
    BY <1>6, <2>1, <2>2, LastTurn
<1>9. \A i \in 1 .. L - 2 : Meaning(mem', stack[i].node) = Meaning(mem, stack[i].node)
  <2> SUFFICES ASSUME NEW i \in 1 .. L - 2
               PROVE  Meaning(mem', stack[i].node) = Meaning(mem, stack[i].node)
    OBVIOUS
  <2>1. i \in 1 .. L /\ i # L - 1
    BY <1>3
  <2>2. /\ stack[i].node \in NodeIds /\ stack[i].node # t
        /\ mem[stack[i].node].best = Candidates[i]
        /\ Candidates[i] \in NodeIds \cup {Null}
    BY <1>1, <1>4, <2>1, Beneath
  <2>3. Candidates[i] # t
    BY <1>1, <1>4, <2>1, Beneath
  <2> HIDE DEF t
  <2>4. mem'[stack[i].node] = mem[stack[i].node]
    BY <1>4, <2>2
  <2>5. mem[stack[i].node].best # Null
          => mem'[mem[stack[i].node].best] = mem[mem[stack[i].node].best]
    BY <1>4, <2>2, <2>3
  <2> QED
    BY <2>4, <2>5, MeaningKept
<1> HIDE DEF g
<1>10. Goes(g, mem', stack', v, L - 1)
  <2>1. L - 1 # L /\ L - 1 + 1 = L
    BY <1>3
  <2>2. v[L - 1] = g[At(OfferSubtree(Meaning(mem, t), v[L]), stack[L - 1].next)]
    BY <1>4, <1>7, <2>1 DEF Goes
  <2>3. stack'[L - 1] = stack[L - 1]
    BY <1>4, <1>5
  <2> QED
    BY <1>4, <1>5, <1>8, <2>2, <2>3 DEF Goes
<1>11. ASSUME NEW i \in 1 .. L - 2 PROVE Goes(g, mem', stack', v, i)
  <2>1. i \in 1 .. L /\ i # L /\ i # L - 1 /\ i \in 1 .. L - 1
    BY <1>3
  <2>2. /\ stack'[i] = stack[i] /\ Goes(g, mem, stack, v, i)
        /\ Meaning(mem', stack[i].node) = Meaning(mem, stack[i].node)
    BY <1>5, <1>7, <1>9, <2>1
  <2> QED
    BY <1>5, <2>1, <2>2 DEF Goes
<1>12. Promised(g, mem', stack', v)
  <2>1. \A i \in 1 .. L - 1 : i = L - 1 \/ i \in 1 .. L - 2
    BY <1>3
  <2> QED
    BY <1>2, <1>5, <1>10, <1>11, <2>1 DEF Promised
<1> QED
  BY <1>1, <1>12 DEF Promise, g

\* The call begins: the root promises the whole search.
LEMMA AskPromises ==
    ASSUME Inv, NEW threads \in Demands, Ask(threads), Inv'
    PROVE  Promise'
<1> DEFINE root == NextNode(heap)
           frame == [node |-> root, child |-> NextNode(AllocNode(heap)), next |-> 0]
<1>1. /\ mem' = [mem EXCEPT ![root] = RootNode] /\ stack' = <<frame>>
      /\ state' = "search"
  BY DEF Ask
<1>2. Len(stack') = 1 /\ stack'[1].node = root /\ stack'[1].next = 0
  BY <1>1
<1>3. root \in NodeIds /\ mem \in [NodeIds -> TreeNode]
  <2>1. stack' \in Seq(Frame)
    BY DEF Inv, TypeOK
  <2>3. 1 \in 1 .. Len(stack')
    BY <1>2
  <2>2. stack'[1] \in Frame
    BY <2>1, <2>3, ElementOfSeq
  <2> QED
    BY <1>2, <2>2 DEF Inv, TypeOK, Frame
<1>4. Meaning(mem', root) = Root
  <2>1. mem'[root] = RootNode
    BY <1>1, <1>3
  <2> QED
    BY <2>1 DEF Meaning, RootNode, Root, NoBest
<1> DEFINE g == Searches(demand', prevSocket')
           v == [i \in {1} |-> g[AtRoot]]
<1>5. At(Root, 0) = AtRoot
  BY DEF At, AtRoot
<1> HIDE DEF g
<1>6. Promised(g, mem', stack', v)
  <2>1. \A i \in 1 .. 1 : i = 1
    OBVIOUS
  <2> QED
    BY <1>2, <1>4, <1>5, <2>1 DEF Promised, Goes
<1> HIDE DEF v
<1> QED
  BY <1>6 DEF Promise, g

\* What the root returns is what the search as a function finds.
LEMMA RootReturns ==
    ASSUME Inv, Promise, state = "search", Exhausted, TopNode.father = Null
    PROVE  /\ Top.node \in NodeIds
           /\ Explore(demand, prevSocket) = Meaning(mem, Top.node)
           /\ Explore(demand, prevSocket).best = NoBest <=> TopNode.best = Null
<1> DEFINE L == Len(stack)
           g == Searches(demand, prevSocket)
           r == Top.node
<1>1. PICK v : Promised(g, mem, stack, v)
  BY DEF Promise
<1>2. /\ L \in Nat \ {0} /\ L \in 1 .. L /\ Top = stack[L] /\ demand \in Requests
      /\ L <= NumProcs /\ mem \in [NodeIds -> TreeNode] /\ TopNode = mem[r]
  BY TopFacts, StackFacts DEF Inv, TypeOK, Requests, TopNode
<1>3. \A i \in 1 .. L : /\ stack[i].node \in NodeIds
                        /\ i > 1 => mem[stack[i].node].father = stack[i - 1].node
                        /\ Candidates[i] = mem[stack[i].node].best
                        /\ Candidates[i] # Null => Len(mem[Candidates[i]].placed) = NumProcs
  BY StackFacts
<1>4. L = 1
  <2>1. L > 1 => L - 1 \in 1 .. L /\ TopNode.father = stack[L - 1].node
    BY <1>2, <1>3
  <2>2. L > 1 => TopNode.father \in NodeIds
    BY <1>3, <2>1
  <2>3. ~(L > 1)
    BY <2>2 DEF Null, NodeIds
  <2>4. L \in Nat \ {0}
    BY <1>2
  <2> HIDE DEF L
  <2> QED
    BY <2>3, <2>4
<1>5. r \in NodeIds /\ Meaning(mem, r) \in Node /\ Len(Meaning(mem, r).placed) < NumProcs
      /\ (Meaning(mem, r).best = NoBest <=> TopNode.best = Null)
  <2>1. Meaning(mem, r) \in Node /\ Len(Meaning(mem, r).placed) = 0 /\ r \in NodeIds
    BY <1>2, <1>4, Beneath
  <2>2. TopNode.best # Null => Len(mem[TopNode.best].placed) = NumProcs
    BY <1>2, <1>3
  <2>3. Meaning(mem, r).best = NoBest <=> mem[r].best = Null
    BY <1>2, <2>1, <2>2, MeaningTyped
  <2> QED
    BY <1>2, <2>1, <2>3, TopologyAssumption
<1>6. IsExploring(g, demand, prevSocket) /\ Explore(demand, prevSocket) = g[AtRoot]
  BY <1>2, SearchesExplores
<1>7. g[AtRoot] = g[At(Meaning(mem, r), NumSockets)]
  BY <1>1, <1>2, <1>4 DEF Promised, Goes, Exhausted
<1> HIDE DEF g, r
<1>8. g[At(Meaning(mem, r), NumSockets)] = Meaning(mem, r)
  BY <1>5, <1>6, LastTurn
<1> QED
  BY <1>5, <1>6, <1>7, <1>8 DEF r

\* An answer, or none, is the one of the search as a function.
LEMMA AnswerIsSolve ==
    ASSUME Inv, Promise
    PROVE  /\ Answer => /\ socket' = Solve(demand, prevSocket).socket
                        /\ Solve(demand, prevSocket).found
           /\ GiveUp => ~Solve(demand, prevSocket).found
<1> DEFINE best == Explore(demand, prevSocket).best
<1>1. ASSUME Answer
      PROVE  /\ socket' = Solve(demand, prevSocket).socket
             /\ Solve(demand, prevSocket).found
  <2>1. /\ state = "search" /\ Exhausted /\ TopNode.father = Null /\ TopNode.best # Null
        /\ socket' = [p \in Ranks |-> mem[TopNode.best].placed[Position(demand, p)]]
    BY <1>1 DEF Answer
  <2>2. best # NoBest /\ best = Meaning(mem, Top.node).best
    BY <2>1, RootReturns
  <2>3. best = mem[TopNode.best].placed
    BY <2>1, <2>2 DEF Meaning, TopNode
  <2>4. /\ Solve(demand, prevSocket).socket
             = [p \in Ranks |-> IF best = NoBest THEN -1 ELSE best[Position(demand, p)]]
        /\ Solve(demand, prevSocket).found = (best # NoBest)
    BY DEF Solve
  <2> HIDE DEF best
  <2> QED
    BY <2>1, <2>2, <2>3, <2>4
<1>2. ASSUME GiveUp PROVE ~Solve(demand, prevSocket).found
  <2>1. state = "search" /\ Exhausted /\ TopNode.father = Null /\ TopNode.best = Null
    BY <1>2 DEF GiveUp
  <2>2. best = NoBest
    BY <2>1, RootReturns
  <2> QED
    BY <2>2 DEF Solve
<1> QED
  BY <1>1, <1>2

\* Before the first call nothing is promised.
LEMMA InitPromise == Init => Promise
BY DEF Init, Promise

\* The promise is kept by every step.
LEMMA PromiseStep == Inv /\ Promise /\ [Next]_vars => Promise'
<1> SUFFICES ASSUME Inv, Promise, [Next]_vars PROVE Promise'
  OBVIOUS
<1>1. CASE Start
  BY <1>1 DEF Start, Promise
<1>2. CASE Shutdown
  BY <1>2 DEF Shutdown, Promise
<1>3. ASSUME NEW threads \in Demands, Ask(threads) PROVE Promise'
  <2>1. Inv'
    BY <1>3, NextInv DEF Next
  <2> QED
    BY <1>3, <2>1, AskPromises
<1>4. CASE SkipSocket \/ CutChild \/ RejectLeaf
  BY <1>4, LoopKeeps
<1>5. CASE AcceptLeaf
  BY <1>5, AcceptKeeps
<1>6. CASE Descend
  BY <1>6, DescendKeeps
<1>7. CASE Return
  BY <1>7, ReturnKeeps
<1>8. CASE Answer
  BY <1>8 DEF Answer, Promise
<1>9. CASE GiveUp
  BY <1>9 DEF GiveUp, Promise
<1>10. CASE Ended \/ UNCHANGED vars
  BY <1>10 DEF Ended, vars, Promise
<1> QED
  BY <1>1, <1>2, <1>3, <1>4, <1>5, <1>6, <1>7, <1>8, <1>9, <1>10 DEF Next, Step

\* Whatever the recycled nodes held, what a call stores in the core processes is
\* the outcome of the search as a function, and it ends the program only when
\* that search finds nothing (decision_tree.c:365-413).
THEOREM AnswersSolve == Spec => AnswersAreSolve
<1>1. Inv /\ Promise /\ [Next]_vars
        => [state = "search" =>
              /\ state' = "idle" => socket' = Solve(demand, prevSocket).socket
              /\ state' = "failed" => ~Solve(demand, prevSocket).found]_vars
  <2> SUFFICES ASSUME Inv, Promise, [Next]_vars, state = "search"
               PROVE  /\ state' = "idle" => socket' = Solve(demand, prevSocket).socket
                      /\ state' = "failed" => ~Solve(demand, prevSocket).found
    OBVIOUS
  <2>1. state' = "idle" => Answer
    BY DEF Next, Step, vars, Start, Shutdown, Ask, SkipSocket, CutChild, Descend,
           RejectLeaf, AcceptLeaf, Return, GiveUp, Ended
  <2>2. state' = "failed" => GiveUp
    BY DEF Next, Step, vars, Start, Shutdown, Ask, SkipSocket, CutChild, Descend,
           RejectLeaf, AcceptLeaf, Return, Answer, Ended
  <2> QED
    BY <2>1, <2>2, AnswerIsSolve
<1> QED
  BY <1>1, InitInv, NextInv, InitPromise, PromiseStep, PTL DEF Spec, AnswersAreSolve

-----------------------------------------------------------------------------
(* The service *)

\* What is searched for is what a round asks.
Asked == state = "search" => IsDemand(demand)

LEMMA AskedStep == Asked /\ [Next]_vars => Asked'
<1> SUFFICES ASSUME Asked, [Next]_vars, state' = "search" PROVE IsDemand(demand')
  BY DEF Asked, IsDemand
<1>1. ASSUME NEW threads \in Demands, Ask(threads) PROVE IsDemand(demand')
  BY <1>1, DemandAssumption DEF Ask
<1>2. CASE Step \/ Start \/ Shutdown \/ Ended \/ UNCHANGED vars
  <2>1. state = "search" /\ demand' = demand
    BY <1>2 DEF Step, Start, Shutdown, Ended, vars, caller, SkipSocket, CutChild,
                Descend, RejectLeaf, AcceptLeaf, Return, Answer, GiveUp
  <2> QED
    BY <2>1 DEF Asked
<1> QED
  BY <1>1, <1>2 DEF Next

\* The service means the same placements.
LEMMA SameSums ==
    \A f : \A S : Service!SumFunctionOnSet(f, S) = SumFunctionOnSet(f, S)
BY DEF SumFunctionOnSet, FoldFunctionOnSet, MapThenFoldSet,
       Service!SumFunctionOnSet, Service!FoldFunctionOnSet, Service!MapThenFoldSet

LEMMA SamePlacements ==
    \A threads : /\ Service!Placements(threads) = Placements(threads)
                 /\ Service!BestPlacements(threads) = BestPlacements(threads)
<1>1. Service!Ranks = Ranks /\ Service!Sockets = Sockets
  BY DEF Service!Ranks, Ranks, Service!Sockets, Sockets
<1>2. \A threads : \A f : Service!Admissible(threads, f) <=> Admissible(threads, f)
  BY <1>1, SameSums DEF Service!Admissible, Admissible, Service!Before, Before
<1>3. \A threads : Service!Placements(threads) = Placements(threads)
  BY <1>1, <1>2 DEF Service!Placements, Placements
<1>4. \A threads : \A f : \A s : Service!Load(threads, f, s) = Load(threads, f, s)
  BY <1>1, SameSums DEF Service!Load, Load
<1>5. \A S : Service!Max(S) = Max(S)
  BY DEF Service!Max, Max
<1>6. \A threads : \A f :
         Service!OverCommitment(threads, f) = OverCommitment(threads, f)
  <2> SUFFICES ASSUME NEW threads, NEW f
               PROVE  Service!OverCommitment(threads, f) = OverCommitment(threads, f)
    OBVIOUS
  <2> DEFINE over == [s \in Sockets |-> Max({0, Load(threads, f, s) - CoresPerSocket})]
             same == [s \in Sockets |->
                         Service!Max({0, Service!Load(threads, f, s) - CoresPerSocket})]
  <2>1. same = over
    BY <1>4, <1>5
  <2>2. Service!OverCommitment(threads, f) = Service!SumFunctionOnSet(same, Sockets)
    BY <1>1 DEF Service!OverCommitment
  <2>3. OverCommitment(threads, f) = SumFunctionOnSet(over, Sockets)
    BY DEF OverCommitment
  <2> HIDE DEF same, over
  <2> QED
    BY <2>1, <2>2, <2>3, SameSums
<1>7. \A threads : Service!BestPlacements(threads) = BestPlacements(threads)
  BY <1>3, <1>6 DEF Service!BestPlacements, BestPlacements
<1> QED
  BY <1>3, <1>7

\* The search starts as the service does.
LEMMA InitServes == Init => Service!Init
BY DEF Init, Service!Init, Service!Ranks, Ranks

\* Every step of the search is one of the service, or none.
LEMMA StepServes ==
    Inv /\ Promise /\ Asked /\ [Next]_vars => [Service!Next]_(Service!vars)
<1> SUFFICES ASSUME Inv, Promise, Asked, [Next]_vars
             PROVE  Service!Next \/ UNCHANGED Service!vars
  OBVIOUS
<1>1. CASE Start
  BY <1>1 DEF Start, caller, Service!Next, Service!Start
<1>2. CASE Shutdown
  BY <1>2 DEF Shutdown, caller, Service!Next, Service!Shutdown
<1>3. ASSUME NEW threads \in Demands, Ask(threads) PROVE Service!Next
  BY <1>3 DEF Ask, Service!Next, Service!Ask
<1>4. CASE SkipSocket \/ CutChild \/ RejectLeaf \/ AcceptLeaf \/ Descend \/ Return
           \/ Ended \/ UNCHANGED vars
  BY <1>4 DEF SkipSocket, CutChild, RejectLeaf, AcceptLeaf, Descend, Return, Ended,
              vars, caller, Service!vars
<1>5. CASE Answer
  <2>1. /\ state = "search" /\ state' = "idle" /\ prevSocket' = socket
        /\ demand' = demand
    BY <1>5 DEF Answer
  <2>2. socket' \in BestPlacements(demand)
    BY <1>5, <2>1, AnswerIsSolve, SolveBest DEF Asked
  <2>3. socket' \in Service!BestPlacements(demand)
    BY <2>2, SamePlacements
  <2> QED
    BY <2>1, <2>3 DEF Service!Next, Service!Answer
<1>6. CASE GiveUp
  <2>1. /\ state = "search" /\ state' = "failed"
        /\ UNCHANGED <<demand, socket, prevSocket>>
    BY <1>6 DEF GiveUp, caller
  <2>2. Placements(demand) = {}
    BY <1>6, <2>1, AnswerIsSolve, SolveComplete DEF Asked
  <2>3. Service!Placements(demand) = {}
    BY <2>2, SamePlacements
  <2> QED
    BY <2>1, <2>3 DEF Service!Next, Service!GiveUp
<1> QED
  BY <1>1, <1>2, <1>3, <1>4, <1>5, <1>6 DEF Next, Step

\* The search with its recycled nodes implements the service: whatever it stores
\* is a placement that over-commits the sockets least, and it ends the program
\* only when there is no placement at all (decision_tree.c:365-413).
THEOREM SearchServes == Spec => Service!Safety
<1>1. Init => Asked
  BY DEF Init, Asked
<1> QED
  BY <1>1, InitInv, NextInv, InitPromise, PromiseStep, AskedStep, InitServes,
     StepServes, PTL DEF Spec, Service!Safety
=============================================================================
