------------------------- MODULE IntrusiveList_proof -------------------------
(***************************************************************************)
(* Whatever the number of nodes, the pointers of IntrusiveList stand for   *)
(* one sequence without repetition.  The argument is a simulation: if they *)
(* stand for s, an addition makes them stand for s with a node inserted,   *)
(* a removal for s with a node deleted.  The walks over the pointers are   *)
(* recursions on their fuel; over the pointers of s they give s and its    *)
(* mirror, so every operation does to the walk what its name says.         *)
(***************************************************************************)
EXTENDS IntrusiveList, FiniteSetTheorems, SequenceTheorems,
        WellFoundedInduction, TLAPS

Insert(s, i, n) == [j \in 1 .. Len(s) + 1 |->
                      IF j < i THEN s[j] ELSE IF j = i THEN n ELSE s[j - 1]]

Delete(s, i) == [j \in 1 .. Len(s) - 1 |-> IF j < i THEN s[j] ELSE s[j + 1]]

\* Inserting into a sequence gives a sequence one longer.
LEMMA InsertSeq ==
    ASSUME NEW s \in Seq(Nodes), NEW i \in 1 .. Len(s) + 1, NEW n \in Nodes
    PROVE  /\ Insert(s, i, n) \in Seq(Nodes)
           /\ Len(Insert(s, i, n)) = Len(s) + 1
           /\ \A j \in 1 .. Len(s) + 1 : Insert(s, i, n)[j] =
                 IF j < i THEN s[j] ELSE IF j = i THEN n ELSE s[j - 1]
<1>1. \A j \in 1 .. Len(s) + 1 :
        (IF j < i THEN s[j] ELSE IF j = i THEN n ELSE s[j - 1]) \in Nodes
  OBVIOUS
<1>2. Insert(s, i, n) \in [1 .. Len(s) + 1 -> Nodes]
  BY <1>1 DEF Insert
<1> QED
  BY <1>2 DEF Insert

\* Deleting from a sequence gives a sequence one shorter.
LEMMA DeleteSeq ==
    ASSUME NEW s \in Seq(Nodes), NEW i \in 1 .. Len(s)
    PROVE  /\ Delete(s, i) \in Seq(Nodes)
           /\ Len(Delete(s, i)) = Len(s) - 1
           /\ \A j \in 1 .. Len(s) - 1 : Delete(s, i)[j] =
                 IF j < i THEN s[j] ELSE s[j + 1]
<1>1. \A j \in 1 .. Len(s) - 1 :
        (IF j < i THEN s[j] ELSE s[j + 1]) \in Nodes
  OBVIOUS
<1>2. Delete(s, i) \in [1 .. Len(s) - 1 -> Nodes]
  BY <1>1 DEF Delete
<1> QED
  BY <1>2 DEF Delete

\* The same, read from the places of s.
LEMMA InsertPlaces ==
    ASSUME NEW s \in Seq(Nodes), NEW i \in 1 .. Len(s) + 1, NEW n \in Nodes
    PROVE  /\ Insert(s, i, n)[i] = n
           /\ \A j \in 1 .. Len(s) :
                /\ j < i => Insert(s, i, n)[j] = s[j]
                /\ j >= i => Insert(s, i, n)[j + 1] = s[j]
<1>1. Insert(s, i, n)[i] = n
  BY InsertSeq
<1>2. ASSUME NEW j \in 1 .. Len(s), j < i PROVE Insert(s, i, n)[j] = s[j]
  BY <1>2, InsertSeq
<1>3. ASSUME NEW j \in 1 .. Len(s), j >= i PROVE Insert(s, i, n)[j + 1] = s[j]
  <2>1. j + 1 \in 1 .. Len(s) + 1 /\ ~(j + 1 < i) /\ j + 1 # i /\ (j + 1) - 1 = j
    BY <1>3
  <2>2. \A k \in 1 .. Len(s) + 1 : Insert(s, i, n)[k] =
           IF k < i THEN s[k] ELSE IF k = i THEN n ELSE s[k - 1]
    BY InsertSeq
  <2>3. Insert(s, i, n)[j + 1] = s[(j + 1) - 1]
    BY <2>1, <2>2
  <2> QED
    BY <2>1, <2>3
<1> QED
  BY <1>1, <1>2, <1>3

\* A node linked at place i by rewriting its own pointers and those of its
\* two neighbours, and the ends when there is no neighbour.
LEMMA Insertion ==
    ASSUME NEW s \in Seq(Nodes), Represents(s),
           NEW i \in 1 .. Len(s) + 1, NEW n \in Nodes, n \notin linked,
           linked' = linked \cup {n},
           first' = IF i = 1 THEN n ELSE first,
           last' = IF i = Len(s) + 1 THEN n ELSE last,
           previous'[n] = IF i = 1 THEN NoNode ELSE s[i - 1],
           next'[n] = IF i = Len(s) + 1 THEN NoNode ELSE s[i],
           \A j \in 1 .. Len(s) : previous'[s[j]] =
               IF j = i THEN n ELSE previous[s[j]],
           \A j \in 1 .. Len(s) : next'[s[j]] =
               IF j + 1 = i THEN n ELSE next[s[j]]
    PROVE  Represents(Insert(s, i, n))'
<1> DEFINE t == Insert(s, i, n)
<1>1. /\ t \in Seq(Nodes) /\ Len(t) = Len(s) + 1 /\ t[i] = n
      /\ \A j \in 1 .. Len(s) : /\ j < i => t[j] = s[j]
                                /\ j >= i => t[j + 1] = s[j]
  BY InsertSeq, InsertPlaces
<1> HIDE DEF t
<1>2. /\ \A j, k \in 1 .. Len(s) : s[j] = s[k] => j = k
      /\ linked = {s[j] : j \in 1 .. Len(s)}
      /\ \A j \in 1 .. Len(s) : s[j] \in Nodes /\ s[j] # n
  BY DEF Represents
<1>3. \A j \in 1 .. Len(t) :
        \/ j = i
        \/ j < i /\ j \in 1 .. Len(s)
        \/ \E k \in 1 .. Len(s) : j = k + 1 /\ k >= i
  <2>1. ASSUME NEW j \in 1 .. Len(t), j > i
        PROVE  j - 1 \in 1 .. Len(s) /\ j = (j - 1) + 1 /\ j - 1 >= i
    BY <2>1, <1>1
  <2> QED
    BY <2>1, <1>1
<1>4. \A j, k \in 1 .. Len(t) : t[j] = t[k] => j = k
  <2>1. ASSUME NEW j \in 1 .. Len(t), j # i
        PROVE  \E h \in 1 .. Len(s) : /\ t[j] = s[h]
                                      /\ \/ h < i /\ j = h
                                         \/ h >= i /\ j = h + 1
    <3>1. CASE j < i /\ j \in 1 .. Len(s)
      BY <3>1, <1>1
    <3>2. ASSUME NEW k \in 1 .. Len(s), j = k + 1, k >= i
          PROVE  t[j] = s[k]
      BY <3>2, <1>1
    <3> QED
      BY <2>1, <3>1, <3>2, <1>3
  <2> SUFFICES ASSUME NEW j \in 1 .. Len(t), NEW k \in 1 .. Len(t), t[j] = t[k]
               PROVE  j = k
    OBVIOUS
  <2>2. CASE j = i \/ k = i
    BY <2>1, <2>2, <1>1, <1>2
  <2>3. CASE j # i /\ k # i
    <3>1. PICK g \in 1 .. Len(s) : /\ t[j] = s[g]
                                   /\ (g < i /\ j = g) \/ (g >= i /\ j = g + 1)
      BY <2>1, <2>3
    <3>2. PICK h \in 1 .. Len(s) : /\ t[k] = s[h]
                                   /\ (h < i /\ k = h) \/ (h >= i /\ k = h + 1)
      BY <2>1, <2>3
    <3>3. s[g] = s[h]
      BY <3>1, <3>2
    <3>4. g = h
      BY <3>3, <1>2
    <3> QED
      BY <3>1, <3>2, <3>4
  <2> QED
    BY <2>2, <2>3
<1>5. linked' = {t[j] : j \in 1 .. Len(t)}
  <2>1. ASSUME NEW j \in 1 .. Len(t) PROVE t[j] \in linked'
    <3>1. CASE j = i
      BY <3>1, <1>1
    <3>2. CASE j < i /\ j \in 1 .. Len(s)
      BY <3>2, <1>1, <1>2
    <3>3. ASSUME NEW k \in 1 .. Len(s), j = k + 1, k >= i PROVE t[j] \in linked'
      BY <3>3, <1>1, <1>2
    <3> QED
      BY <3>1, <3>2, <3>3, <1>3
  <2>2. ASSUME NEW m \in linked' PROVE \E j \in 1 .. Len(t) : t[j] = m
    <3>1. CASE m = n
      BY <3>1, <1>1
    <3>2. CASE m # n
      <4>1. PICK j \in 1 .. Len(s) : s[j] = m
        BY <3>2, <2>2, <1>2
      <4>2. j \in 1 .. Len(t) /\ j + 1 \in 1 .. Len(t)
        BY <1>1
      <4> QED
        BY <4>1, <4>2, <1>1
    <3> QED
      BY <3>1, <3>2
  <2> QED
    BY <2>1, <2>2
<1>6. first' = t[1] /\ last' = t[Len(t)] /\ Len(t) # 0
  <2>1. Len(s) # 0 => 1 \in 1 .. Len(s) /\ Len(s) \in 1 .. Len(s)
    OBVIOUS
  <2> QED
    BY <1>1, <2>1 DEF Represents
<1>7. ASSUME NEW j \in 1 .. Len(t)
      PROVE  /\ previous'[t[j]] = IF j = 1 THEN NoNode ELSE t[j - 1]
             /\ next'[t[j]] = IF j = Len(t) THEN NoNode ELSE t[j + 1]
  <2>1. \A k \in 1 .. Len(s) :
          /\ previous[s[k]] = IF k = 1 THEN NoNode ELSE s[k - 1]
          /\ next[s[k]] = IF k = Len(s) THEN NoNode ELSE s[k + 1]
    BY DEF Represents
  <2>2. CASE j = i
    <3>1. i # 1 => i - 1 \in 1 .. Len(s) /\ t[i - 1] = s[i - 1]
      BY <1>1, SMTT(20)
    <3>2. i # Len(t) => i \in 1 .. Len(s) /\ t[i + 1] = s[i]
      BY <1>1
    <3> QED
      BY <3>1, <3>2, <2>2, <1>1
  <2>3. CASE j < i /\ j \in 1 .. Len(s)
    <3>1. /\ t[j] = s[j] /\ j # Len(t)
          /\ j # 1 => j - 1 \in 1 .. Len(s) /\ t[j - 1] = s[j - 1]
      BY <2>3, <1>1
    <3>2. previous'[t[j]] = IF j = 1 THEN NoNode ELSE t[j - 1]
      BY <2>1, <2>3, <3>1
    <3>3. j + 1 # i => j + 1 \in 1 .. Len(s) /\ t[j + 1] = s[j + 1] /\ j # Len(s)
      BY <2>3, <1>1
    <3>4. next'[t[j]] = t[j + 1]
      BY <2>1, <2>3, <3>1, <3>3, <1>1
    <3> QED
      BY <3>1, <3>2, <3>4
  <2>4. ASSUME NEW k \in 1 .. Len(s), j = k + 1, k >= i
        PROVE  /\ previous'[t[j]] = IF j = 1 THEN NoNode ELSE t[j - 1]
               /\ next'[t[j]] = IF j = Len(t) THEN NoNode ELSE t[j + 1]
    <3>1. t[j] = s[k] /\ j # 1 /\ j - 1 = k /\ k + 1 # i
      BY <2>4, <1>1
    <3>2. k # Len(s) => k + 1 \in 1 .. Len(s) /\ t[j + 1] = s[k + 1]
      BY <2>4, <1>1
    <3>3. next'[t[j]] = IF j = Len(t) THEN NoNode ELSE t[j + 1]
      BY <2>1, <2>4, <3>1, <3>2, <1>1
    <3>4. k # i => k - 1 \in 1 .. Len(s) /\ k - 1 >= i /\ (k - 1) + 1 = k
      BY <2>4
    <3>5. k # i => t[k] = s[k - 1] /\ k # 1
      BY <3>4, <1>1, SMTT(20)
    <3>6. previous'[t[j]] = t[k]
      BY <2>1, <3>1, <3>5, <1>1
    <3> QED
      BY <3>1, <3>3, <3>6
  <2> QED
    BY <2>2, <2>3, <2>4, <1>3
<1>8. Represents(t)'
  BY <1>4, <1>5, <1>6, <1>7 DEF Represents
<1> QED
  BY <1>8 DEF t

\* The same, read from the places of s.
LEMMA DeletePlaces ==
    ASSUME NEW s \in Seq(Nodes), NEW i \in 1 .. Len(s)
    PROVE  \A j \in 1 .. Len(s) :
             /\ j < i => Delete(s, i)[j] = s[j]
             /\ j > i => Delete(s, i)[j - 1] = s[j]
<1>1. ASSUME NEW j \in 1 .. Len(s), j < i PROVE Delete(s, i)[j] = s[j]
  <2>1. j \in 1 .. Len(s) - 1
    BY <1>1
  <2>2. \A k \in 1 .. Len(s) - 1 : Delete(s, i)[k] =
           IF k < i THEN s[k] ELSE s[k + 1]
    BY DeleteSeq
  <2> QED
    BY <2>1, <2>2, <1>1
<1>2. ASSUME NEW j \in 1 .. Len(s), j > i PROVE Delete(s, i)[j - 1] = s[j]
  <2>1. j - 1 \in 1 .. Len(s) - 1 /\ ~(j - 1 < i) /\ (j - 1) + 1 = j
    BY <1>2
  <2>2. Delete(s, i)[j - 1] = s[(j - 1) + 1]
    BY <2>1, DeleteSeq
  <2> QED
    BY <2>1, <2>2
<1> QED
  BY <1>1, <1>2

\* The node at place i unlinked by making its two neighbours point at each
\* other, and the ends at the neighbour that is left.
LEMMA Deletion ==
    ASSUME NEW s \in Seq(Nodes), Represents(s),
           NEW i \in 1 .. Len(s),
           linked' = linked \ {s[i]},
           first' = IF i # 1 THEN first ELSE IF i = Len(s) THEN NoNode ELSE s[i + 1],
           last' = IF i # Len(s) THEN last ELSE IF i = 1 THEN NoNode ELSE s[i - 1],
           \A j \in 1 .. Len(s) : previous'[s[j]] =
               IF j = i + 1 THEN previous[s[i]] ELSE previous[s[j]],
           \A j \in 1 .. Len(s) : next'[s[j]] =
               IF j + 1 = i THEN next[s[i]] ELSE next[s[j]]
    PROVE  Represents(Delete(s, i))'
<1> DEFINE t == Delete(s, i)
<1>1. /\ t \in Seq(Nodes) /\ Len(t) = Len(s) - 1
      /\ \A j \in 1 .. Len(s) : /\ j < i => t[j] = s[j]
                                /\ j > i => t[j - 1] = s[j]
  BY DeleteSeq, DeletePlaces
<1> HIDE DEF t
<1>2. /\ \A j, k \in 1 .. Len(s) : s[j] = s[k] => j = k
      /\ linked = {s[j] : j \in 1 .. Len(s)}
  BY DEF Represents
<1>3. ASSUME NEW j \in 1 .. Len(t)
      PROVE  \E h \in 1 .. Len(s) : /\ t[j] = s[h]
                                    /\ \/ h < i /\ j = h
                                       \/ h > i /\ j = h - 1
  <2>1. CASE j < i
    BY <2>1, <1>1
  <2>2. CASE j >= i
    <3>1. j + 1 \in 1 .. Len(s) /\ j + 1 > i /\ j = (j + 1) - 1
      BY <2>2, <1>1
    <3>2. t[(j + 1) - 1] = s[j + 1]
      BY <3>1, <1>1
    <3> QED
      BY <3>1, <3>2
  <2> QED
    BY <2>1, <2>2, <1>1
<1>4. \A j, k \in 1 .. Len(t) : t[j] = t[k] => j = k
  <2> SUFFICES ASSUME NEW j \in 1 .. Len(t), NEW k \in 1 .. Len(t), t[j] = t[k]
               PROVE  j = k
    OBVIOUS
  <2>1. PICK g \in 1 .. Len(s) : /\ t[j] = s[g]
                                 /\ (g < i /\ j = g) \/ (g > i /\ j = g - 1)
    BY <1>3
  <2>2. PICK h \in 1 .. Len(s) : /\ t[k] = s[h]
                                 /\ (h < i /\ k = h) \/ (h > i /\ k = h - 1)
    BY <1>3
  <2>3. g = h
    BY <2>1, <2>2, <1>2, ZenonT(40)
  <2> QED
    BY <2>1, <2>2, <2>3
<1>5. linked' = {t[j] : j \in 1 .. Len(t)}
  <2>1. ASSUME NEW j \in 1 .. Len(t) PROVE t[j] \in linked'
    <3>1. PICK h \in 1 .. Len(s) : t[j] = s[h] /\ h # i
      BY <1>3
    <3> QED
      BY <3>1, <1>2
  <2>2. ASSUME NEW m \in linked' PROVE \E j \in 1 .. Len(t) : t[j] = m
    <3>1. PICK j \in 1 .. Len(s) : s[j] = m /\ j # i
      BY <2>2, <1>2
    <3>2. CASE j < i
      BY <3>1, <3>2, <1>1
    <3>3. CASE j > i
      <4>1. j - 1 \in 1 .. Len(t) /\ t[j - 1] = m
        BY <3>1, <3>3, <1>1
      <4> QED
        BY <4>1
    <3> QED
      BY <3>1, <3>2, <3>3
  <2> QED
    BY <2>1, <2>2
<1>6. /\ first' = IF Len(t) = 0 THEN NoNode ELSE t[1]
      /\ last' = IF Len(t) = 0 THEN NoNode ELSE t[Len(t)]
  <2>1. first = s[1] /\ last = s[Len(s)]
    BY DEF Represents
  <2>2. i # 1 => 1 \in 1 .. Len(s) /\ t[1] = s[1] /\ Len(t) # 0
    BY <1>1
  <2>3. i = 1 /\ i # Len(s) => /\ 2 \in 1 .. Len(s) /\ Len(t) # 0
                              /\ t[2 - 1] = s[2]
    BY <1>1
  <2>4. i # Len(s) => Len(s) \in 1 .. Len(s) /\ t[Len(s) - 1] = s[Len(s)]
    BY <1>1
  <2>5. i = Len(s) /\ i # 1 => i - 1 \in 1 .. Len(s) /\ t[i - 1] = s[i - 1]
    BY <1>1
  <2>6. first' = IF Len(t) = 0 THEN NoNode ELSE t[1]
    BY <2>1, <2>2, <2>3, <1>1
  <2>7. last' = IF Len(t) = 0 THEN NoNode ELSE t[Len(t)]
    BY <2>1, <2>4, <2>5, <1>1
  <2> QED
    BY <2>6, <2>7
<1>7. ASSUME NEW j \in 1 .. Len(t)
      PROVE  /\ previous'[t[j]] = IF j = 1 THEN NoNode ELSE t[j - 1]
             /\ next'[t[j]] = IF j = Len(t) THEN NoNode ELSE t[j + 1]
  <2>1. \A k \in 1 .. Len(s) :
          /\ previous[s[k]] = IF k = 1 THEN NoNode ELSE s[k - 1]
          /\ next[s[k]] = IF k = Len(s) THEN NoNode ELSE s[k + 1]
    BY DEF Represents
  <2>2. PICK h \in 1 .. Len(s) : /\ t[j] = s[h]
                                 /\ (h < i /\ j = h) \/ (h > i /\ j = h - 1)
    BY <1>3
  <2>3. CASE h < i /\ j = h
    <3>1. h # 1 => h - 1 \in 1 .. Len(s) /\ t[h - 1] = s[h - 1]
      BY <2>3, <1>1
    <3>2. previous'[t[j]] = IF j = 1 THEN NoNode ELSE t[j - 1]
      BY <2>1, <2>2, <2>3, <3>1
    <3>3. h + 1 # i => h + 1 \in 1 .. Len(s) /\ t[h + 1] = s[h + 1]
                       /\ h # Len(s) /\ h # Len(t)
      BY <2>3, <1>1
    <3>4. h + 1 = i /\ i # Len(s) =>
            i + 1 \in 1 .. Len(s) /\ t[(i + 1) - 1] = s[i + 1] /\ h # Len(t)
      BY <1>1
    <3>5. next'[t[j]] = IF j = Len(t) THEN NoNode ELSE t[j + 1]
      BY <2>1, <2>2, <2>3, <3>3, <3>4, <1>1
    <3> QED
      BY <3>2, <3>5
  <2>4. CASE h > i /\ j = h - 1
    <3>1. h # 1 /\ h + 1 # i
      BY <2>4
    <3>2. h # Len(s) => h + 1 \in 1 .. Len(s) /\ t[(h + 1) - 1] = s[h + 1]
      BY <2>4, <1>1
    <3>3. next'[t[j]] = IF j = Len(t) THEN NoNode ELSE t[j + 1]
      BY <2>1, <2>2, <2>4, <3>1, <3>2, <1>1
    <3>4. h # i + 1 => h - 1 \in 1 .. Len(s) /\ t[(h - 1) - 1] = s[h - 1] /\ j # 1
      BY <2>4, <1>1
    <3>5. h = i + 1 /\ i # 1 => i - 1 \in 1 .. Len(s) /\ t[i - 1] = s[i - 1]
      <4>1. i # 1 => i - 1 \in 1 .. Len(s) /\ i - 1 < i
        OBVIOUS
      <4> QED
        BY <4>1, <1>1
    <3>6. previous'[t[j]] = IF j = 1 THEN NoNode ELSE t[j - 1]
      BY <2>1, <2>2, <2>4, <3>1, <3>4, <3>5, <1>1
    <3> QED
      BY <3>3, <3>6
  <2> QED
    BY <2>2, <2>3, <2>4
<1>8. Represents(t)'
  BY <1>4, <1>5, <1>6, <1>7 DEF Represents
<1> QED
  BY <1>8 DEF t
-----------------------------------------------------------------------------
(* The operations *)

\* list_add_first inserts at place 1.
LEMMA AddFirstInserts ==
    ASSUME ListTypeOK, NEW s \in Seq(Nodes), Represents(s), NEW n \in Nodes, AddFirst(n)
    PROVE  Represents(Insert(s, 1, n))'
<1>1. /\ \A j, k \in 1 .. Len(s) : s[j] = s[k] => j = k
      /\ \A j \in 1 .. Len(s) : s[j] \in Nodes /\ s[j] # n /\ s[j] # NoNode
      /\ first = IF Len(s) = 0 THEN NoNode ELSE s[1]
      /\ last = IF Len(s) = 0 THEN NoNode ELSE s[Len(s)]
  BY NodesAssumption DEF Represents, AddFirst
<1>2. first = NoNode <=> Len(s) = 0
  BY <1>1
<1>3. /\ first' = IF 1 = 1 THEN n ELSE first
      /\ last' = IF 1 = Len(s) + 1 THEN n ELSE last
  BY <1>2 DEF AddFirst
<1>4. /\ previous'[n] = IF 1 = 1 THEN NoNode ELSE s[1 - 1]
      /\ next'[n] = IF 1 = Len(s) + 1 THEN NoNode ELSE s[1]
  BY <1>1, <1>2 DEF AddFirst, Through, ListTypeOK
<1>5. ASSUME NEW j \in 1 .. Len(s)
      PROVE  /\ previous'[s[j]] = IF j = 1 THEN n ELSE previous[s[j]]
             /\ next'[s[j]] = IF j + 1 = 1 THEN n ELSE next[s[j]]
  BY <1>1, <1>2 DEF AddFirst, Through, ListTypeOK
<1>6. n \notin linked /\ linked' = linked \cup {n} /\ 1 \in 1 .. Len(s) + 1
  BY DEF AddFirst
<1> QED
  BY <1>3, <1>4, <1>5, <1>6, Insertion

\* list_add_last inserts after the last place.
LEMMA AddLastInserts ==
    ASSUME ListTypeOK, NEW s \in Seq(Nodes), Represents(s), NEW n \in Nodes, AddLast(n)
    PROVE  Represents(Insert(s, Len(s) + 1, n))'
<1>1. /\ \A j, k \in 1 .. Len(s) : s[j] = s[k] => j = k
      /\ \A j \in 1 .. Len(s) : s[j] \in Nodes /\ s[j] # n /\ s[j] # NoNode
      /\ last = IF Len(s) = 0 THEN NoNode ELSE s[Len(s)]
  BY NodesAssumption DEF Represents, AddLast
<1>2. last = NoNode <=> Len(s) = 0
  BY <1>1
<1>3. /\ first' = IF Len(s) + 1 = 1 THEN n ELSE first
      /\ last' = IF Len(s) + 1 = Len(s) + 1 THEN n ELSE last
  BY <1>2 DEF AddLast
<1>4. /\ previous'[n] = IF Len(s) + 1 = 1 THEN NoNode ELSE s[(Len(s) + 1) - 1]
      /\ next'[n] = IF Len(s) + 1 = Len(s) + 1 THEN NoNode ELSE s[Len(s) + 1]
  BY <1>1, <1>2 DEF AddLast, Through, ListTypeOK
<1>5. ASSUME NEW j \in 1 .. Len(s)
      PROVE  /\ previous'[s[j]] = IF j = Len(s) + 1 THEN n ELSE previous[s[j]]
             /\ next'[s[j]] = IF j + 1 = Len(s) + 1 THEN n ELSE next[s[j]]
  BY <1>1, <1>2 DEF AddLast, Through, ListTypeOK
<1>6. n \notin linked /\ linked' = linked \cup {n} /\ Len(s) + 1 \in 1 .. Len(s) + 1
  BY DEF AddLast
<1> QED
  BY <1>3, <1>4, <1>5, <1>6, Insertion

\* list_add_before inserts at the place of the node it is given.
LEMMA AddBeforeInserts ==
    ASSUME ListTypeOK, NEW s \in Seq(Nodes), Represents(s), NEW n \in Nodes,
           NEW i \in 1 .. Len(s), AddBefore(s[i], n)
    PROVE  Represents(Insert(s, i, n))'
<1>1. /\ \A j, k \in 1 .. Len(s) : s[j] = s[k] => j = k
      /\ \A j \in 1 .. Len(s) : s[j] \in Nodes /\ s[j] # n /\ s[j] # NoNode
      /\ previous[s[i]] = IF i = 1 THEN NoNode ELSE s[i - 1]
  BY NodesAssumption DEF Represents, AddBefore
<1>2. previous[s[i]] = NoNode <=> i = 1
  BY <1>1
<1>3. /\ first' = IF i = 1 THEN n ELSE first
      /\ last' = IF i = Len(s) + 1 THEN n ELSE last
  BY <1>2 DEF AddBefore
<1>4. /\ previous'[n] = IF i = 1 THEN NoNode ELSE s[i - 1]
      /\ next'[n] = IF i = Len(s) + 1 THEN NoNode ELSE s[i]
  BY <1>1, <1>2 DEF AddBefore, Through, ListTypeOK
<1>5. ASSUME NEW j \in 1 .. Len(s)
      PROVE  /\ previous'[s[j]] = IF j = i THEN n ELSE previous[s[j]]
             /\ next'[s[j]] = IF j + 1 = i THEN n ELSE next[s[j]]
  <2>1. previous'[s[j]] = IF j = i THEN n ELSE previous[s[j]]
    BY <1>1 DEF AddBefore, ListTypeOK
  <2>2. i # 1 => i - 1 \in 1 .. Len(s) /\ (s[j] = s[i - 1] <=> j + 1 = i)
    BY <1>1
  <2>3. next'[s[j]] = IF j + 1 = i THEN n ELSE next[s[j]]
    BY <1>1, <1>2, <2>2 DEF AddBefore, Through, ListTypeOK
  <2> QED
    BY <2>1, <2>3
<1>6. n \notin linked /\ linked' = linked \cup {n} /\ i \in 1 .. Len(s) + 1
  BY DEF AddBefore
<1> QED
  BY <1>3, <1>4, <1>5, <1>6, Insertion

\* list_add_after inserts after the place of the node it is given.
LEMMA AddAfterInserts ==
    ASSUME ListTypeOK, NEW s \in Seq(Nodes), Represents(s), NEW n \in Nodes,
           NEW i \in 1 .. Len(s), AddAfter(s[i], n)
    PROVE  Represents(Insert(s, i + 1, n))'
<1>1. /\ \A j, k \in 1 .. Len(s) : s[j] = s[k] => j = k
      /\ \A j \in 1 .. Len(s) : s[j] \in Nodes /\ s[j] # n /\ s[j] # NoNode
      /\ next[s[i]] = IF i = Len(s) THEN NoNode ELSE s[i + 1]
  BY NodesAssumption DEF Represents, AddAfter
<1>2. next[s[i]] = NoNode <=> i = Len(s)
  <2>1. i # Len(s) => i + 1 \in 1 .. Len(s)
    OBVIOUS
  <2> QED
    BY <1>1, <2>1
<1>3. /\ first' = IF i + 1 = 1 THEN n ELSE first
      /\ last' = IF i + 1 = Len(s) + 1 THEN n ELSE last
  BY <1>2 DEF AddAfter
<1>4. /\ previous'[n] = IF i + 1 = 1 THEN NoNode ELSE s[(i + 1) - 1]
      /\ next'[n] = IF i + 1 = Len(s) + 1 THEN NoNode ELSE s[i + 1]
  BY <1>1, <1>2 DEF AddAfter, Through, ListTypeOK
<1>5. ASSUME NEW j \in 1 .. Len(s)
      PROVE  /\ previous'[s[j]] = IF j = i + 1 THEN n ELSE previous[s[j]]
             /\ next'[s[j]] = IF j + 1 = i + 1 THEN n ELSE next[s[j]]
  <2>1. next'[s[j]] = IF j = i THEN n ELSE next[s[j]]
    BY <1>1 DEF AddAfter, ListTypeOK
  <2>2. i # Len(s) => i + 1 \in 1 .. Len(s) /\ (s[j] = s[i + 1] <=> j = i + 1)
    BY <1>1
  <2>3. previous'[s[j]] = IF j = i + 1 THEN n ELSE previous[s[j]]
    BY <1>1, <1>2, <2>2 DEF AddAfter, Through, ListTypeOK
  <2> QED
    BY <2>1, <2>3
<1>6. n \notin linked /\ linked' = linked \cup {n} /\ i + 1 \in 1 .. Len(s) + 1
  BY DEF AddAfter
<1> QED
  BY <1>3, <1>4, <1>5, <1>6, Insertion

\* list_remove deletes the place of the node it is given.
LEMMA RemoveDeletes ==
    ASSUME ListTypeOK, NEW s \in Seq(Nodes), Represents(s),
           NEW i \in 1 .. Len(s), RemoveNode(s[i])
    PROVE  Represents(Delete(s, i))'
<1>1. /\ \A j, k \in 1 .. Len(s) : s[j] = s[k] => j = k
      /\ \A j \in 1 .. Len(s) : s[j] \in Nodes /\ s[j] # NoNode
      /\ previous[s[i]] = IF i = 1 THEN NoNode ELSE s[i - 1]
      /\ next[s[i]] = IF i = Len(s) THEN NoNode ELSE s[i + 1]
  BY NodesAssumption DEF Represents
<1>2. previous[s[i]] = NoNode <=> i = 1
  BY <1>1
<1>3. next[s[i]] = NoNode <=> i = Len(s)
  <2>1. i # Len(s) => i + 1 \in 1 .. Len(s)
    OBVIOUS
  <2> QED
    BY <1>1, <2>1
<1>4. /\ linked' = linked \ {s[i]}
      /\ first' = IF i # 1 THEN first ELSE IF i = Len(s) THEN NoNode ELSE s[i + 1]
      /\ last' = IF i # Len(s) THEN last ELSE IF i = 1 THEN NoNode ELSE s[i - 1]
  BY <1>1, <1>2, <1>3 DEF RemoveNode
<1>5. ASSUME NEW j \in 1 .. Len(s)
      PROVE  /\ previous'[s[j]] = IF j = i + 1 THEN previous[s[i]] ELSE previous[s[j]]
             /\ next'[s[j]] = IF j + 1 = i THEN next[s[i]] ELSE next[s[j]]
  <2>1. i # Len(s) => i + 1 \in 1 .. Len(s) /\ (s[j] = s[i + 1] <=> j = i + 1)
    BY <1>1
  <2>2. i # 1 => i - 1 \in 1 .. Len(s) /\ (s[j] = s[i - 1] <=> j + 1 = i)
    BY <1>1
  <2>3. previous'[s[j]] = IF j = i + 1 THEN previous[s[i]] ELSE previous[s[j]]
    BY <1>1, <1>3, <2>1 DEF RemoveNode, Through, ListTypeOK
  <2>4. next'[s[j]] = IF j + 1 = i THEN next[s[i]] ELSE next[s[j]]
    BY <1>1, <1>2, <2>2 DEF RemoveNode, Through, ListTypeOK
  <2> QED
    BY <2>3, <2>4
<1> QED
  BY <1>4, <1>5, Deletion
-----------------------------------------------------------------------------
(* The invariant *)

IInv == ListTypeOK /\ \E s \in Seq(Nodes) : Represents(s)

\* A head that was just initialised stands for the empty list.
LEMMA Initially == ListInit => IInv
<1> SUFFICES ASSUME ListInit PROVE IInv
  OBVIOUS
<1>1. ListTypeOK
  BY DEF ListInit, ListTypeOK, Pointer
<1>2. << >> \in Seq(Nodes) /\ Len(<< >>) = 0
  OBVIOUS
<1>3. Represents(<< >>)
  BY <1>2 DEF ListInit, Represents
<1> QED
  BY <1>1, <1>2, <1>3 DEF IInv

\* Every operation keeps the pointers well typed.
LEMMA TypeStep == ListTypeOK /\ [ListNext]_listVars => ListTypeOK'
<1> SUFFICES ASSUME ListTypeOK, [ListNext]_listVars PROVE ListTypeOK'
  OBVIOUS
<1> USE DEF ListTypeOK, Pointer
<1>1. ASSUME NEW n \in Nodes, AddFirst(n) PROVE ListTypeOK'
  BY <1>1 DEF AddFirst, Through
<1>2. ASSUME NEW n \in Nodes, AddLast(n) PROVE ListTypeOK'
  BY <1>2 DEF AddLast, Through
<1>3. ASSUME NEW n \in Nodes, NEW node \in Nodes, AddBefore(node, n) PROVE ListTypeOK'
  BY <1>3 DEF AddBefore, Through
<1>4. ASSUME NEW n \in Nodes, NEW node \in Nodes, AddAfter(node, n) PROVE ListTypeOK'
  BY <1>4 DEF AddAfter, Through
<1>5. ASSUME NEW n \in Nodes, RemoveNode(n) PROVE ListTypeOK'
  BY <1>5 DEF RemoveNode, Through
<1>6. CASE UNCHANGED listVars
  BY <1>6 DEF listVars
<1> QED
  BY <1>1, <1>2, <1>3, <1>4, <1>5, <1>6 DEF ListNext

\* Every operation takes a sequence to a sequence.
LEMMA InvStep == IInv /\ [ListNext]_listVars => IInv'
<1> SUFFICES ASSUME IInv, [ListNext]_listVars PROVE IInv'
  OBVIOUS
<1>1. ListTypeOK /\ ListTypeOK'
  BY TypeStep DEF IInv
<1>2. PICK s \in Seq(Nodes) : Represents(s)
  BY DEF IInv
<1>3. \A m \in linked : \E i \in 1 .. Len(s) : s[i] = m
  BY <1>2 DEF Represents
<1> SUFFICES \E t \in Seq(Nodes) : Represents(t)'
  BY <1>1 DEF IInv
<1>4. ASSUME NEW n \in Nodes, AddFirst(n)
      PROVE  \E t \in Seq(Nodes) : Represents(t)'
  <2>1. Represents(Insert(s, 1, n))'
    BY <1>1, <1>2, <1>4, AddFirstInserts
  <2>2. Insert(s, 1, n) \in Seq(Nodes)
    BY InsertSeq
  <2> QED
    BY <2>1, <2>2
<1>5. ASSUME NEW n \in Nodes, AddLast(n)
      PROVE  \E t \in Seq(Nodes) : Represents(t)'
  <2>1. Represents(Insert(s, Len(s) + 1, n))'
    BY <1>1, <1>2, <1>5, AddLastInserts
  <2>2. Insert(s, Len(s) + 1, n) \in Seq(Nodes)
    BY InsertSeq
  <2> QED
    BY <2>1, <2>2
<1>6. ASSUME NEW n \in Nodes, NEW node \in Nodes, AddBefore(node, n)
      PROVE  \E t \in Seq(Nodes) : Represents(t)'
  <2>1. PICK i \in 1 .. Len(s) : s[i] = node
    BY <1>3, <1>6 DEF AddBefore
  <2>2. AddBefore(s[i], n)
    BY <1>6, <2>1
  <2>3. Represents(Insert(s, i, n))'
    BY <1>1, <1>2, <2>2, AddBeforeInserts
  <2>4. Insert(s, i, n) \in Seq(Nodes)
    <3>1. i \in 1 .. Len(s) + 1
      OBVIOUS
    <3> QED
      BY <3>1, InsertSeq
  <2> QED
    BY <2>3, <2>4
<1>7. ASSUME NEW n \in Nodes, NEW node \in Nodes, AddAfter(node, n)
      PROVE  \E t \in Seq(Nodes) : Represents(t)'
  <2>1. PICK i \in 1 .. Len(s) : s[i] = node
    BY <1>3, <1>7 DEF AddAfter
  <2>2. AddAfter(s[i], n)
    BY <1>7, <2>1
  <2>3. Represents(Insert(s, i + 1, n))'
    BY <1>1, <1>2, <2>2, AddAfterInserts
  <2>4. Insert(s, i + 1, n) \in Seq(Nodes)
    <3>1. i + 1 \in 1 .. Len(s) + 1
      OBVIOUS
    <3> QED
      BY <3>1, InsertSeq
  <2> QED
    BY <2>3, <2>4
<1>8. ASSUME NEW n \in Nodes, RemoveNode(n)
      PROVE  \E t \in Seq(Nodes) : Represents(t)'
  <2>1. PICK i \in 1 .. Len(s) : s[i] = n
    BY <1>3, <1>8 DEF RemoveNode
  <2>2. Represents(Delete(s, i))'
    BY <1>1, <1>2, <1>8, <2>1, RemoveDeletes
  <2>3. Delete(s, i) \in Seq(Nodes)
    BY DeleteSeq
  <2> QED
    BY <2>2, <2>3
<1>9. CASE UNCHANGED listVars
  <2>1. Represents(s)'
    BY <1>2, <1>9 DEF Represents, listVars
  <2> QED
    BY <2>1
<1> QED
  BY <1>4, <1>5, <1>6, <1>7, <1>8, <1>9 DEF ListNext

\* A sequence without repetition is no longer than there are nodes.
LEMMA Enough ==
    ASSUME NEW s \in Seq(Nodes), Represents(s)
    PROVE  s \in Listings
<1>1. s \in [1 .. Len(s) -> Nodes]
  OBVIOUS
<1>2. s \in Injection(1 .. Len(s), Nodes)
  BY <1>1 DEF Represents, Injection, IsInjective
<1>3. Cardinality(1 .. Len(s)) <= Cardinality(Nodes)
  BY <1>2, NodesAssumption, FS_Injection
<1>4. Cardinality(1 .. Len(s)) = Len(s)
  <2>1. 1 \in Int /\ Len(s) \in Int /\ Len(s) >= 0
    OBVIOUS
  <2>2. Cardinality(1 .. Len(s)) = IF 1 > Len(s) THEN 0 ELSE Len(s) - 1 + 1
    BY <2>1, FS_Interval
  <2> QED
    BY <2>1, <2>2
<1>5. Cardinality(Nodes) \in Nat
  BY NodesAssumption, FS_CardinalityType
<1>6. Len(s) \in 0 .. Cardinality(Nodes)
  BY <1>3, <1>4, <1>5
<1> QED
  BY <1>1, <1>6 DEF Listings

\* The pointers always stand for one sequence without repetition of exactly
\* the nodes that are in the list (list.c:36-144).
THEOREM Linkage == ListSpec => []WellLinked
<1>1. IInv => WellLinked
  BY Enough DEF IInv, WellLinked
<1> QED
  BY Initially, InvStep, <1>1, PTL DEF ListSpec

\* The ends and the pointers of every node are nodes or null (list.h:12-25).
THEOREM PointersTyped == ListSpec => []ListTypeOK
<1>1. IInv => ListTypeOK
  BY DEF IInv
<1> QED
  BY Initially, InvStep, <1>1, PTL DEF ListSpec
-----------------------------------------------------------------------------
(* The walks *)

\* The recursion of a walk that follows the given links.
IsWalk(links, it) ==
    it = [fuel \in Nat |->
            [n \in Pointer |-> IF n = NoNode \/ fuel = 0 THEN <<>>
                               ELSE <<n>> \o it[fuel - 1][links[n]]]]

\* Induction on the naturals, over the set of those a claim holds of.
LEMMA NaturalInduction ==
    ASSUME NEW P, 0 \in P, \A n \in Nat : n \in P => n + 1 \in P
    PROVE  \A n \in Nat : n \in P
<1> DEFINE Bad == {n \in Nat : n \notin P}
<1> SUFFICES ASSUME Bad # {} PROVE FALSE
  OBVIOUS
<1>1. Bad \subseteq Nat
  OBVIOUS
<1>2. PICK n \in Bad : \A m \in Bad : ~ (<<m, n>> \in OpToRel(<, Nat))
  <2> HIDE DEF Bad
  <2> QED
    BY <1>1, NatLessThanWellFounded, WFMin
<1>3. n \in Nat /\ n - 1 \in Nat /\ n - 1 < n
  <2>1. n \in Nat /\ n # 0
    BY <1>2
  <2> QED
    BY <2>1
<1>4. n - 1 \in Bad
  <2>1. n - 1 + 1 = n
    BY <1>3
  <2> QED
    BY <1>2, <1>3, <2>1
<1>5. <<n - 1, n>> \in OpToRel(<, Nat)
  BY <1>3 DEF OpToRel
<1> QED
  BY <1>2, <1>4, <1>5

\* What is g up to n, if it starts at r and goes on by step.
Follows(g, r, step, n) == g[0] = r /\ \A k \in Nat : k < n => g[k + 1] = step[g[k]]

\* There is only one way to go on.
LEMMA FollowsAgree ==
    ASSUME NEW r, NEW step, NEW n \in Nat, NEW g, NEW h,
           Follows(g, r, step, n), Follows(h, r, step, n)
    PROVE  \A k \in Nat : k <= n => g[k] = h[k]
<1> DEFINE P == {k \in Nat : k <= n => g[k] = h[k]}
<1>1. 0 \in P
  BY DEF Follows
<1>2. ASSUME NEW k \in Nat, k \in P PROVE k + 1 \in P
  <2> SUFFICES ASSUME k + 1 <= n PROVE g[k + 1] = h[k + 1]
    OBVIOUS
  <2>1. k < n /\ g[k] = h[k]
    BY <1>2
  <2> QED
    BY <2>1 DEF Follows
<1>3. \A k \in Nat : k \in P
  <2> HIDE DEF P
  <2> QED
    BY <1>1, <1>2, NaturalInduction
<1> QED
  BY <1>3

IsStep(R, r, step) == r \in R /\ step \in [R -> R]

\* A step can be repeated any number of times.
LEMMA IterationExists ==
    ASSUME NEW R, NEW r, NEW step, IsStep(R, r, step)
    PROVE  \E g \in [Nat -> R] : g[0] = r /\ \A k \in Nat : g[k + 1] = step[g[k]]
<1> DEFINE P == {n \in Nat : \E g \in [Nat -> R] : Follows(g, r, step, n)}
           best(n) == CHOOSE g \in [Nat -> R] : Follows(g, r, step, n)
           all == [n \in Nat |-> best(n)[n]]
<1>0. r \in R /\ step \in [R -> R]
  BY DEF IsStep
<1>1. 0 \in P
  <2>1. [k \in Nat |-> r] \in [Nat -> R] /\ Follows([k \in Nat |-> r], r, step, 0)
    BY <1>0 DEF Follows
  <2> QED
    BY <2>1
<1>2. ASSUME NEW n \in Nat, n \in P PROVE n + 1 \in P
  <2>1. PICK g \in [Nat -> R] : Follows(g, r, step, n)
    BY <1>2
  <2> DEFINE h == [k \in Nat |-> IF k = n + 1 THEN step[g[n]] ELSE g[k]]
  <2>2. h \in [Nat -> R]
    BY <1>0
  <2>3. h[0] = r
    BY <2>1 DEF Follows
  <2>4. ASSUME NEW k \in Nat, k < n + 1 PROVE h[k + 1] = step[h[k]]
    <3>1. h[k] = g[k] /\ h[k + 1] = IF k = n THEN step[g[n]] ELSE g[k + 1]
      BY <2>4
    <3>2. k # n => g[k + 1] = step[g[k]]
      BY <2>1, <2>4 DEF Follows
    <3> QED
      BY <3>1, <3>2
  <2>5. Follows(h, r, step, n + 1)
    BY <2>3, <2>4 DEF Follows
  <2> QED
    BY <2>2, <2>5
<1>3. \A n \in Nat : \E g \in [Nat -> R] : Follows(g, r, step, n)
  <2> HIDE DEF P
  <2>1. \A n \in Nat : n \in P
    BY <1>1, <1>2, NaturalInduction
  <2> QED
    BY <2>1 DEF P
<1>4. \A n \in Nat : best(n) \in [Nat -> R] /\ Follows(best(n), r, step, n)
  BY <1>3
<1> HIDE DEF best
<1>5. all \in [Nat -> R] /\ all[0] = r
  BY <1>4 DEF Follows
<1>6. ASSUME NEW k \in Nat PROVE all[k + 1] = step[all[k]]
  <2>1. all[k + 1] = best(k + 1)[k + 1] /\ all[k] = best(k)[k]
    OBVIOUS
  <2>2. Follows(best(k + 1), r, step, k + 1) /\ Follows(best(k), r, step, k)
    BY <1>4
  <2>3. Follows(best(k + 1), r, step, k) /\ best(k + 1)[k + 1] = step[best(k + 1)[k]]
    BY <2>2 DEF Follows
  <2>4. best(k + 1)[k] = best(k)[k]
    BY <2>2, <2>3, FollowsAgree
  <2> QED
    BY <2>1, <2>3, <2>4
<1> HIDE DEF all
<1> QED
  BY <1>5, <1>6

\* The recursion of a walk defines a function: the fuel decreases.
LEMMA WalkExists ==
    ASSUME NEW links \in [Nodes -> Pointer]
    PROVE  \E it : IsWalk(links, it)
<1> DEFINE R == [Pointer -> Seq(Nodes)]
           empty == [n \in Pointer |-> <<>>]
           Row(row) == [n \in Pointer |-> IF n = NoNode THEN <<>> ELSE <<n>> \o row[links[n]]]
           step == [row \in R |-> Row(row)]
<1>1. \A n \in Pointer : n # NoNode => n \in Nodes /\ links[n] \in Pointer
  BY DEF Pointer
<1>2. empty \in R
  OBVIOUS
<1>3. \A row \in R : Row(row) \in R
  <2> SUFFICES ASSUME NEW row \in R, NEW n \in Pointer, n # NoNode
               PROVE  <<n>> \o row[links[n]] \in Seq(Nodes)
    OBVIOUS
  <2>1. <<n>> \in Seq(Nodes) /\ row[links[n]] \in Seq(Nodes)
    BY <1>1
  <2> QED
    BY <2>1, ConcatProperties
<1>4. step \in [R -> R] /\ \A row \in R : step[row] = Row(row)
  BY <1>3
<1> HIDE DEF R, step, empty
<1>5. PICK g \in [Nat -> R] : g[0] = empty /\ \A k \in Nat : g[k + 1] = step[g[k]]
  <2>1. IsStep(R, empty, step)
    BY <1>2, <1>4 DEF IsStep
  <2> QED
    BY <2>1, IterationExists
<1> DEFINE Line(k) == [n \in Pointer |-> IF n = NoNode \/ k = 0 THEN <<>>
                                        ELSE <<n>> \o g[k - 1][links[n]]]
<1>6. ASSUME NEW k \in Nat PROVE g[k] = Line(k)
  <2>1. CASE k = 0
    BY <1>5, <2>1 DEF empty
  <2>2. CASE k # 0
    <3>1. k - 1 \in Nat /\ (k - 1) + 1 = k
      BY <2>2
    <3>2. g[k] = step[g[k - 1]] /\ g[k - 1] \in R
      BY <1>5, <3>1
    <3>3. g[k] = Row(g[k - 1])
      BY <1>4, <3>2
    <3> QED
      BY <2>2, <3>3
  <2> QED
    BY <2>1, <2>2
<1>7. g = [k \in Nat |-> Line(k)]
  <2> HIDE DEF Line
  <2> QED
    BY <1>5, <1>6
<1> QED
  BY <1>7 DEF IsWalk

\* What a walk does at a node, and at the end.
LEMMA WalkStep ==
    ASSUME NEW links \in [Nodes -> Pointer], NEW it, IsWalk(links, it),
           NEW fuel \in Nat
    PROVE  /\ it[fuel][NoNode] = <<>>
           /\ \A n \in Nodes : fuel > 0 => it[fuel][n] = <<n>> \o it[fuel - 1][links[n]]
<1>1. it[fuel] = [n \in Pointer |-> IF n = NoNode \/ fuel = 0 THEN <<>>
                                    ELSE <<n>> \o it[fuel - 1][links[n]]]
  BY DEF IsWalk
<1>2. NoNode \in Pointer /\ \A n \in Nodes : n \in Pointer /\ n # NoNode
  BY NodesAssumption DEF Pointer
<1> QED
  BY <1>1, <1>2

\* The links are those of s, from one place to the next.
Chains(links, s) ==
    \A i \in 1 .. Len(s) : links[s[i]] = IF i = Len(s) THEN NoNode ELSE s[i + 1]

\* From any place of s, a walk with enough fuel gives the rest of s.
LEMMA WalkFollows ==
    ASSUME NEW links \in [Nodes -> Pointer], NEW it, IsWalk(links, it),
           NEW s \in Seq(Nodes), Chains(links, s),
           NEW i \in 1 .. Len(s), NEW fuel \in Nat, fuel > Len(s) - i
    PROVE  it[fuel][s[i]] = SubSeq(s, i, Len(s))
<1> DEFINE Holds(k) == \A j \in 1 .. Len(s) : \A f \in Nat :
              (Len(s) - j = k /\ f > k) => it[f][s[j]] = SubSeq(s, j, Len(s))
           P == {k \in Nat : Holds(k)}
<1>1. ASSUME NEW j \in 1 .. Len(s), NEW f \in Nat, f > 0
      PROVE  it[f][s[j]] = <<s[j]>> \o it[f - 1][links[s[j]]]
  <2>1. s[j] \in Nodes
    OBVIOUS
  <2>2. \A n \in Nodes : f > 0 => it[f][n] = <<n>> \o it[f - 1][links[n]]
    BY WalkStep, Zenon
  <2> QED
    BY <1>1, <2>1, <2>2, Zenon
<1>2. Holds(0)
  <2> SUFFICES ASSUME NEW j \in 1 .. Len(s), NEW f \in Nat, Len(s) - j = 0, f > 0
               PROVE  it[f][s[j]] = SubSeq(s, j, Len(s))
    OBVIOUS
  <2>1. j = Len(s) /\ links[s[j]] = NoNode /\ f - 1 \in Nat
    BY DEF Chains
  <2>2. it[f - 1][NoNode] = <<>>
    BY <2>1, WalkStep
  <2>3. it[f][s[j]] = <<s[j]>> \o <<>>
    <3>1. it[f][s[j]] = <<s[j]>> \o it[f - 1][links[s[j]]]
      BY <1>1
    <3> QED
      BY <3>1, <2>1, <2>2, Zenon
  <2>4. <<s[j]>> \in Seq(Nodes)
    OBVIOUS
  <2>5. SubSeq(s, j, j) = <<s[j]>>
    <3>1. \A h \in j .. j : s[h] \in Nodes
      OBVIOUS
    <3>2. /\ SubSeq(s, j, j) \in Seq(Nodes) /\ Len(SubSeq(s, j, j)) = 1
          /\ \A h \in 1 .. 1 : SubSeq(s, j, j)[h] = s[j + h - 1]
      BY <3>1, SubSeqProperties
    <3>3. SubSeq(s, j, j)[1] = s[j]
      BY <3>2
    <3> DEFINE t == SubSeq(s, j, j)
               u == <<s[j]>>
    <3>4. t \in Seq(Nodes) /\ u \in Seq(Nodes) /\ Len(t) = 1 /\ Len(u) = 1
          /\ t[1] = u[1]
      BY <2>4, <3>2, <3>3
    <3> HIDE DEF t, u
    <3>5. t = u
      BY <3>4, SeqEqual
    <3> QED
      BY <3>5 DEF t, u
  <2> QED
    BY <2>1, <2>3, <2>4, <2>5, ConcatEmptySeq
<1>3. ASSUME NEW k \in Nat, Holds(k) PROVE Holds(k + 1)
  <2> SUFFICES ASSUME NEW j \in 1 .. Len(s), NEW f \in Nat, Len(s) - j = k + 1, f > k + 1
               PROVE  it[f][s[j]] = SubSeq(s, j, Len(s))
    OBVIOUS
  <2>1. /\ j # Len(s) /\ j + 1 \in 1 .. Len(s) /\ Len(s) - (j + 1) = k
        /\ f - 1 \in Nat /\ f - 1 > k /\ f > 0
    OBVIOUS
  <2>2. links[s[j]] = s[j + 1]
    BY <2>1 DEF Chains
  <2>3. it[f - 1][s[j + 1]] = SubSeq(s, j + 1, Len(s))
    BY <1>3, <2>1
  <2>4. it[f][s[j]] = <<s[j]>> \o SubSeq(s, j + 1, Len(s))
    BY <1>1, <2>1, <2>2, <2>3
  <2>5. <<s[j]>> \o SubSeq(s, j + 1, Len(s)) = SubSeq(s, j, Len(s))
    <3> DEFINE a == <<s[j]>>
               b == SubSeq(s, j + 1, Len(s))
               t == SubSeq(s, j, Len(s))
               m == Len(s)
    <3>1. a \in Seq(Nodes) /\ Len(a) = 1 /\ a[1] = s[j]
      OBVIOUS
    <3>2. \A h \in 1 .. m : s[h] \in Nodes
      OBVIOUS
    <3>3. /\ b \in Seq(Nodes) /\ Len(b) = m - (j + 1) + 1
          /\ \A h \in 1 .. m - (j + 1) + 1 : b[h] = s[(j + 1) + h - 1]
      <4>1. \A h \in j + 1 .. m : s[h] \in Nodes
        BY <3>2
      <4> QED
        BY <4>1, <2>1, SubSeqProperties
    <3>4. /\ t \in Seq(Nodes) /\ Len(t) = m - j + 1
          /\ \A h \in 1 .. m - j + 1 : t[h] = s[j + h - 1]
      <4>1. \A h \in j .. m : s[h] \in Nodes
        BY <3>2
      <4> QED
        BY <4>1, <2>1, SubSeqProperties
    <3>5. m \in Nat /\ j \in 1 .. m
      OBVIOUS
    <3> HIDE DEF a, b, t, m
    <3>6. /\ a \o b \in Seq(Nodes) /\ Len(a \o b) = Len(a) + Len(b)
          /\ \A h \in 1 .. Len(a) + Len(b) :
               (a \o b)[h] = IF h <= Len(a) THEN a[h] ELSE b[h - Len(a)]
      BY <3>1, <3>3, ConcatProperties
    <3>7. Len(a \o b) = Len(t)
      BY <3>1, <3>3, <3>4, <3>5, <3>6
    <3>8. ASSUME NEW h \in 1 .. Len(t) PROVE (a \o b)[h] = t[h]
      <4>1. h \in 1 .. m - j + 1 /\ h \in 1 .. Len(a) + Len(b)
        BY <3>4, <3>6, <3>7
      <4>2. CASE h = 1
        <5>1. (a \o b)[1] = a[1] /\ t[1] = s[j + 1 - 1]
          BY <4>1, <4>2, <3>1, <3>4, <3>6
        <5>2. j + 1 - 1 = j
          BY <3>5
        <5> QED
          BY <5>1, <5>2, <4>2, <3>1
      <4>3. CASE h # 1
        <5>1. h - 1 \in 1 .. m - (j + 1) + 1 /\ ~ (h <= 1)
          BY <4>1, <4>3, <3>5
        <5>2. (a \o b)[h] = b[h - 1]
          BY <4>1, <5>1, <3>1, <3>6
        <5>3. b[h - 1] = s[(j + 1) + (h - 1) - 1]
          BY <5>1, <3>3
        <5>4. (j + 1) + (h - 1) - 1 = j + h - 1
          BY <3>5, <4>1
        <5> QED
          BY <4>1, <5>2, <5>3, <5>4, <3>4
      <4> QED
        BY <4>2, <4>3
    <3>9. a \o b = t
      BY <3>4, <3>6, <3>7, <3>8, SeqEqual
    <3> QED
      BY <3>9 DEF a, b, t, m
  <2> QED
    BY <2>4, <2>5
<1>4. \A k \in Nat : k \in P
  <2>1. 0 \in P
    BY <1>2
  <2>2. \A k \in Nat : k \in P => k + 1 \in P
    <3> SUFFICES ASSUME NEW k \in Nat, k \in P PROVE k + 1 \in P
      OBVIOUS
    <3>1. Holds(k)
      OBVIOUS
    <3> HIDE DEF Holds
    <3> QED
      BY <3>1, <1>3
  <2> HIDE DEF P
  <2> QED
    BY <2>1, <2>2, NaturalInduction
<1>5. Len(s) - i \in Nat
  OBVIOUS
<1> QED
  BY <1>4, <1>5
-----------------------------------------------------------------------------
(* What the walks give *)

\* A walk over links that chain s, from its first node, gives s.
LEMMA WalkGives ==
    ASSUME NEW links \in [Nodes -> Pointer], NEW it, IsWalk(links, it),
           NEW s \in Seq(Nodes), Chains(links, s), NEW fuel \in Nat, fuel >= Len(s)
    PROVE  it[fuel][IF Len(s) = 0 THEN NoNode ELSE s[1]] = s
<1>1. CASE Len(s) = 0
  <2>1. it[fuel][NoNode] = <<>>
    BY WalkStep
  <2>2. s = <<>>
    BY <1>1
  <2> QED
    BY <1>1, <2>1, <2>2
<1>2. CASE Len(s) # 0
  <2>1. 1 \in 1 .. Len(s) /\ fuel > Len(s) - 1
    BY <1>2
  <2>2. it[fuel][s[1]] = SubSeq(s, 1, Len(s))
    BY <2>1, WalkFollows
  <2>3. \A i \in 1 .. Len(s) : s[i] \in Nodes
    OBVIOUS
  <2> DEFINE t == SubSeq(s, 1, Len(s))
             m == Len(s)
  <2>4. /\ t \in Seq(Nodes) /\ Len(t) = m - 1 + 1
        /\ \A h \in 1 .. m - 1 + 1 : t[h] = s[1 + h - 1]
    BY <2>1, <2>3, SubSeqProperties
  <2>5. m \in Nat /\ m = Len(s)
    OBVIOUS
  <2> HIDE DEF t, m
  <2>6. Len(t) = Len(s) /\ \A h \in 1 .. Len(s) : t[h] = s[h]
    <3>1. m - 1 + 1 = m /\ \A h \in 1 .. m : 1 + h - 1 = h
      BY <2>5
    <3> QED
      BY <2>4, <2>5, <3>1
  <2>7. t = s
    BY <2>4, <2>6, SeqEqual
  <2> QED
    BY <1>2, <2>2, <2>7 DEF t
<1> QED
  BY <1>1, <1>2

\* Both walks are over links, and go on for longer than any listing.
LEMMA WalksDefined ==
    ASSUME ListTypeOK
    PROVE  IsWalk(next, WalkForward) /\ IsWalk(previous, WalkBackward)
<1>1. \E it : IsWalk(next, it)
  BY WalkExists DEF ListTypeOK
<1>2. \E it : IsWalk(previous, it)
  BY WalkExists DEF ListTypeOK
<1>3. WalkForward = CHOOSE it : IsWalk(next, it)
  BY Zenon DEF WalkForward, IsWalk
<1>4. WalkBackward = CHOOSE it : IsWalk(previous, it)
  BY Zenon DEF WalkBackward, IsWalk
<1> QED
  BY <1>1, <1>2, <1>3, <1>4

\* The mirror of a sequence.
LEMMA ReverseSeq ==
    ASSUME NEW s \in Seq(Nodes)
    PROVE  /\ Reverse(s) \in Seq(Nodes) /\ Len(Reverse(s)) = Len(s)
           /\ \A i \in 1 .. Len(s) : Reverse(s)[i] = s[(Len(s) - i) + 1]
<1>1. \A i \in 1 .. Len(s) : (Len(s) - i) + 1 \in 1 .. Len(s)
  OBVIOUS
<1>2. Reverse(s) \in [1 .. Len(s) -> Nodes]
  BY <1>1 DEF Reverse
<1> QED
  BY <1>2 DEF Reverse

\* If the pointers stand for s, the two walks give s and its mirror.
LEMMA Walks ==
    \A s \in Seq(Nodes) : ListTypeOK /\ Represents(s) =>
        Forward = s /\ Backward = Reverse(s)
<1> SUFFICES ASSUME NEW s \in Seq(Nodes), ListTypeOK, Represents(s)
             PROVE  Forward = s /\ Backward = Reverse(s)
  OBVIOUS
<1>1. Bound \in Nat /\ Bound >= Len(s)
  <2>1. PICK k \in 0 .. Cardinality(Nodes) : s \in [1 .. k -> Nodes]
    BY Enough DEF Listings
  <2>2. Len(s) = k /\ Cardinality(Nodes) \in Nat
    BY <2>1, NodesAssumption, FS_CardinalityType
  <2> QED
    BY <2>2 DEF Bound
<1>2. IsWalk(next, WalkForward) /\ IsWalk(previous, WalkBackward)
  BY WalksDefined
<1>3. next \in [Nodes -> Pointer] /\ previous \in [Nodes -> Pointer]
  BY DEF ListTypeOK
<1>4. /\ first = IF Len(s) = 0 THEN NoNode ELSE s[1]
      /\ last = IF Len(s) = 0 THEN NoNode ELSE s[Len(s)]
      /\ \A i \in 1 .. Len(s) :
          /\ previous[s[i]] = IF i = 1 THEN NoNode ELSE s[i - 1]
          /\ next[s[i]] = IF i = Len(s) THEN NoNode ELSE s[i + 1]
  BY DEF Represents
<1>5. Forward = s
  <2>1. Chains(next, s)
    BY <1>4 DEF Chains
  <2>2. WalkForward[Bound][IF Len(s) = 0 THEN NoNode ELSE s[1]] = s
    BY <1>1, <1>2, <1>3, <2>1, WalkGives
  <2> QED
    BY <1>4, <2>2 DEF Forward
<1>6. Backward = Reverse(s)
  <2> DEFINE r == Reverse(s)
  <2>1. /\ r \in Seq(Nodes) /\ Len(r) = Len(s)
        /\ \A i \in 1 .. Len(s) : r[i] = s[(Len(s) - i) + 1]
    BY ReverseSeq
  <2> HIDE DEF r
  <2>2. ASSUME NEW i \in 1 .. Len(r)
        PROVE  previous[r[i]] = IF i = Len(r) THEN NoNode ELSE r[i + 1]
    <3> DEFINE j == (Len(s) - i) + 1
    <3>0. i \in 1 .. Len(s) /\ r[i] = s[j]
      BY <2>1
    <3>1. j \in 1 .. Len(s) /\ r[i] = s[j] /\ (i = Len(r) <=> j = 1)
      <4>1. Len(s) \in Nat /\ j \in 1 .. Len(s) /\ (i = Len(s) <=> j = 1)
        BY <3>0
      <4> QED
        BY <2>1, <3>0, <4>1
    <3>2. i # Len(r) => i + 1 \in 1 .. Len(s) /\ (Len(s) - (i + 1)) + 1 = j - 1
      BY <2>1
    <3> HIDE DEF j
    <3>3. i # Len(r) => r[i + 1] = s[j - 1]
      BY <2>1, <3>2
    <3> QED
      BY <1>4, <3>1, <3>3
  <2>3. Chains(previous, r)
    BY <2>2 DEF Chains
  <2>4. WalkBackward[Bound][IF Len(r) = 0 THEN NoNode ELSE r[1]] = r
    BY <1>1, <1>2, <1>3, <2>1, <2>3, WalkGives
  <2>5. last = IF Len(r) = 0 THEN NoNode ELSE r[1]
    <3>1. Len(s) # 0 => 1 \in 1 .. Len(s) /\ (Len(s) - 1) + 1 = Len(s)
      OBVIOUS
    <3> QED
      BY <1>4, <2>1, <3>1
  <2> QED
    BY <2>4, <2>5 DEF Backward, r
<1> QED
  BY <1>5, <1>6
-----------------------------------------------------------------------------
(* The operations, on the sequence *)

\* Any part of a sequence that is in its bounds.
LEMMA Part ==
    ASSUME NEW s \in Seq(Nodes), NEW m \in Nat, NEW k \in Nat,
           m >= 1, k <= Len(s), k + 1 >= m
    PROVE  /\ SubSeq(s, m, k) \in Seq(Nodes)
           /\ Len(SubSeq(s, m, k)) = k - m + 1
           /\ \A h \in 1 .. k - m + 1 : SubSeq(s, m, k)[h] = s[m + h - 1]
<1>1. \A h \in m .. k : s[h] \in Nodes
  OBVIOUS
<1>2. (IF m <= k THEN k - m + 1 ELSE 0) = k - m + 1
  OBVIOUS
<1> QED
  BY <1>1, <1>2, SubSeqProperties

\* Two sequences, one after the other.
LEMMA Joined ==
    ASSUME NEW a \in Seq(Nodes), NEW b \in Seq(Nodes)
    PROVE  /\ a \o b \in Seq(Nodes) /\ Len(a \o b) = Len(a) + Len(b)
           /\ \A h \in 1 .. Len(a) : (a \o b)[h] = a[h]
           /\ \A h \in 1 .. Len(b) : (a \o b)[Len(a) + h] = b[h]
<1>1. /\ a \o b \in Seq(Nodes) /\ Len(a \o b) = Len(a) + Len(b)
      /\ \A h \in 1 .. Len(a) + Len(b) :
           (a \o b)[h] = IF h <= Len(a) THEN a[h] ELSE b[h - Len(a)]
  BY ConcatProperties
<1>2. Len(a) \in Nat /\ Len(b) \in Nat
  OBVIOUS
<1>3. \A h \in 1 .. Len(a) : h \in 1 .. Len(a) + Len(b) /\ h <= Len(a)
  BY <1>2
<1>4. \A h \in 1 .. Len(b) : /\ Len(a) + h \in 1 .. Len(a) + Len(b)
                             /\ ~ (Len(a) + h <= Len(a)) /\ Len(a) + h - Len(a) = h
  BY <1>2
<1>5. ASSUME NEW h \in 1 .. Len(b) PROVE (a \o b)[Len(a) + h] = b[h]
  <2>1. (a \o b)[Len(a) + h] = b[Len(a) + h - Len(a)]
    BY <1>1, <1>4
  <2> QED
    BY <1>4, <2>1
<1> QED
  BY <1>1, <1>3, <1>5

\* InsertAt inserts.
LEMMA InsertAtInserts ==
    ASSUME NEW s \in Seq(Nodes), NEW i \in 1 .. Len(s) + 1, NEW n \in Nodes
    PROVE  InsertAt(s, i, n) = Insert(s, i, n)
<1> DEFINE a == SubSeq(s, 1, i - 1)
           b == <<n>>
           c == SubSeq(s, i, Len(s))
           t == Insert(s, i, n)
           ab == a \o b
           m == Len(s)
<1>0. m \in Nat /\ i \in 1 .. m + 1 /\ i - 1 \in Nat
  OBVIOUS
<1>1. /\ a \in Seq(Nodes) /\ Len(a) = i - 1
      /\ \A h \in 1 .. i - 1 : a[h] = s[h]
  <2>1. (i - 1) - 1 + 1 = i - 1 /\ i - 1 <= Len(s) /\ (i - 1) + 1 >= 1
        /\ \A h \in 1 .. i - 1 : 1 + h - 1 = h
    OBVIOUS
  <2>2. /\ a \in Seq(Nodes) /\ Len(a) = (i - 1) - 1 + 1
        /\ \A h \in 1 .. (i - 1) - 1 + 1 : a[h] = s[1 + h - 1]
    BY <1>0, <2>1, Part
  <2> HIDE DEF a
  <2> QED
    BY <2>1, <2>2
<1>2. /\ c \in Seq(Nodes) /\ Len(c) = m - i + 1
      /\ \A h \in 1 .. m - i + 1 : c[h] = s[i + h - 1]
  BY <1>0, Part
<1>3. b \in Seq(Nodes) /\ Len(b) = 1 /\ b[1] = n
  OBVIOUS
<1>4. /\ t \in Seq(Nodes) /\ Len(t) = m + 1 /\ t[i] = n
      /\ \A j \in 1 .. m : /\ j < i => t[j] = s[j]
                           /\ j >= i => t[j + 1] = s[j]
  BY InsertSeq, InsertPlaces
<1> HIDE DEF a, b, c, t, m
<1>5. /\ ab \in Seq(Nodes) /\ Len(ab) = i
      /\ \A h \in 1 .. i - 1 : ab[h] = a[h]
      /\ ab[i] = n
  <2>1. /\ ab \in Seq(Nodes) /\ Len(ab) = Len(a) + Len(b)
        /\ \A h \in 1 .. Len(a) : ab[h] = a[h]
        /\ \A h \in 1 .. Len(b) : ab[Len(a) + h] = b[h]
    BY <1>1, <1>3, Joined
  <2> HIDE DEF ab
  <2>2. (i - 1) + 1 = i /\ 1 \in 1 .. 1
    BY <1>0
  <2>3. ab[(i - 1) + 1] = b[1]
    BY <1>1, <1>3, <2>1, <2>2
  <2> QED
    BY <1>1, <1>3, <2>1, <2>2, <2>3
<1> HIDE DEF ab
<1> DEFINE u == ab \o c
<1>6. /\ u \in Seq(Nodes) /\ Len(u) = i + (m - i + 1)
      /\ \A h \in 1 .. i : u[h] = ab[h]
      /\ \A h \in 1 .. m - i + 1 : u[i + h] = c[h]
  <2>1. /\ u \in Seq(Nodes) /\ Len(u) = Len(ab) + Len(c)
        /\ \A h \in 1 .. Len(ab) : u[h] = ab[h]
        /\ \A h \in 1 .. Len(c) : u[Len(ab) + h] = c[h]
    BY <1>2, <1>5, Joined
  <2> HIDE DEF u
  <2> QED
    BY <1>2, <1>5, <2>1
<1> HIDE DEF u
<1>7. Len(u) = Len(t)
  BY <1>0, <1>4, <1>6
<1>8. ASSUME NEW h \in 1 .. Len(u) PROVE u[h] = t[h]
  <2>1. h \in 1 .. m + 1
    BY <1>4, <1>7
  <2>2. CASE h < i
    <3>1. h \in 1 .. i /\ h \in 1 .. i - 1 /\ h \in 1 .. m
      BY <1>0, <2>1, <2>2
    <3> QED
      BY <2>2, <3>1, <1>1, <1>4, <1>5, <1>6
  <2>3. CASE h = i
    <3>1. i \in 1 .. i
      BY <1>0
    <3> QED
      BY <2>3, <3>1, <1>4, <1>5, <1>6
  <2>4. CASE h > i
    <3>1. h - i \in 1 .. m - i + 1 /\ h - 1 \in 1 .. m /\ h - 1 >= i
          /\ i + (h - i) = h /\ i + (h - i) - 1 = h - 1 /\ (h - 1) + 1 = h
      BY <1>0, <2>1, <2>4
    <3>2. u[i + (h - i)] = c[h - i] /\ c[h - i] = s[i + (h - i) - 1]
      BY <1>2, <1>6, <3>1
    <3>3. t[(h - 1) + 1] = s[h - 1]
      BY <1>4, <3>1
    <3> QED
      BY <3>1, <3>2, <3>3
  <2> QED
    BY <1>0, <2>1, <2>2, <2>3, <2>4
<1>9. u = t
  BY <1>4, <1>6, <1>7, <1>8, SeqEqual
<1> QED
  BY <1>9 DEF u, ab, a, b, c, t, m, InsertAt

\* RemoveAt deletes.
LEMMA RemoveAtDeletes ==
    ASSUME NEW s \in Seq(Nodes), NEW i \in 1 .. Len(s)
    PROVE  RemoveAt(s, i) = Delete(s, i)
<1> DEFINE a == SubSeq(s, 1, i - 1)
           c == SubSeq(s, i + 1, Len(s))
           t == Delete(s, i)
           u == a \o c
           m == Len(s)
<1>0. m \in Nat /\ i \in 1 .. m /\ i - 1 \in Nat
  OBVIOUS
<1>1. /\ a \in Seq(Nodes) /\ Len(a) = i - 1
      /\ \A h \in 1 .. i - 1 : a[h] = s[h]
  <2>1. (i - 1) - 1 + 1 = i - 1 /\ i - 1 <= Len(s) /\ (i - 1) + 1 >= 1
        /\ \A h \in 1 .. i - 1 : 1 + h - 1 = h
    OBVIOUS
  <2>2. /\ a \in Seq(Nodes) /\ Len(a) = (i - 1) - 1 + 1
        /\ \A h \in 1 .. (i - 1) - 1 + 1 : a[h] = s[1 + h - 1]
    BY <1>0, <2>1, Part
  <2> HIDE DEF a
  <2> QED
    BY <2>1, <2>2
<1>2. /\ c \in Seq(Nodes) /\ Len(c) = m - i
      /\ \A h \in 1 .. m - i : c[h] = s[i + h]
  <2>1. m - (i + 1) + 1 = m - i /\ \A h \in 1 .. m - i : (i + 1) + h - 1 = i + h
    OBVIOUS
  <2>2. /\ c \in Seq(Nodes) /\ Len(c) = m - (i + 1) + 1
        /\ \A h \in 1 .. m - (i + 1) + 1 : c[h] = s[(i + 1) + h - 1]
    BY <1>0, Part
  <2> HIDE DEF c, m
  <2> QED
    BY <2>1, <2>2
<1>4. /\ t \in Seq(Nodes) /\ Len(t) = m - 1
      /\ \A j \in 1 .. m : /\ j < i => t[j] = s[j]
                           /\ j > i => t[j - 1] = s[j]
  BY DeleteSeq, DeletePlaces
<1> HIDE DEF a, c, t, m
<1>6. /\ u \in Seq(Nodes) /\ Len(u) = (i - 1) + (m - i)
      /\ \A h \in 1 .. i - 1 : u[h] = a[h]
      /\ \A h \in 1 .. m - i : u[(i - 1) + h] = c[h]
  <2>1. /\ u \in Seq(Nodes) /\ Len(u) = Len(a) + Len(c)
        /\ \A h \in 1 .. Len(a) : u[h] = a[h]
        /\ \A h \in 1 .. Len(c) : u[Len(a) + h] = c[h]
    BY <1>1, <1>2, Joined
  <2> HIDE DEF u
  <2> QED
    BY <1>1, <1>2, <2>1
<1> HIDE DEF u
<1>7. Len(u) = Len(t)
  BY <1>0, <1>4, <1>6
<1>8. ASSUME NEW h \in 1 .. Len(u) PROVE u[h] = t[h]
  <2>1. h \in 1 .. m - 1
    BY <1>4, <1>7
  <2>2. CASE h < i
    <3>1. h \in 1 .. i - 1 /\ h \in 1 .. m
      BY <1>0, <2>1, <2>2
    <3> QED
      BY <2>2, <3>1, <1>1, <1>4, <1>6
  <2>4. CASE h >= i
    <3> DEFINE k == h - i + 1
    <3>1. k \in 1 .. m - i /\ h + 1 \in 1 .. m /\ h + 1 > i
          /\ (i - 1) + k = h /\ i + k = h + 1 /\ (h + 1) - 1 = h
      BY <1>0, <2>1, <2>4
    <3> HIDE DEF k
    <3>2. u[(i - 1) + k] = c[k] /\ c[k] = s[i + k]
      BY <1>2, <1>6, <3>1
    <3>3. t[(h + 1) - 1] = s[h + 1]
      BY <1>4, <3>1
    <3> QED
      BY <3>1, <3>2, <3>3
  <2> QED
    BY <1>0, <2>1, <2>2, <2>4
<1>9. u = t
  BY <1>4, <1>6, <1>7, <1>8, SeqEqual
<1> QED
  BY <1>9 DEF u, a, c, t, m, RemoveAt

\* Inserting before the first and after the last.
LEMMA InsertEnds ==
    ASSUME NEW s \in Seq(Nodes), NEW n \in Nodes
    PROVE  /\ Insert(s, 1, n) = <<n>> \o s
           /\ Insert(s, Len(s) + 1, n) = Append(s, n)
<1> DEFINE t == Insert(s, 1, n)
           u == Insert(s, Len(s) + 1, n)
           b == <<n>>
           v == b \o s
           w == Append(s, n)
           m == Len(s)
<1>0. m \in Nat /\ 1 \in 1 .. m + 1 /\ m + 1 \in 1 .. m + 1
  OBVIOUS
<1>1. /\ t \in Seq(Nodes) /\ Len(t) = m + 1 /\ t[1] = n
      /\ \A j \in 1 .. m : j >= 1 => t[j + 1] = s[j]
  BY <1>0, InsertSeq, InsertPlaces
<1>2. /\ u \in Seq(Nodes) /\ Len(u) = m + 1 /\ u[m + 1] = n
      /\ \A j \in 1 .. m : j < m + 1 => u[j] = s[j]
  BY <1>0, InsertSeq, InsertPlaces
<1>3. b \in Seq(Nodes) /\ Len(b) = 1 /\ b[1] = n
  OBVIOUS
<1>4. /\ w \in Seq(Nodes) /\ Len(w) = m + 1 /\ w[m + 1] = n
      /\ \A j \in 1 .. m : w[j] = s[j]
  BY AppendProperties
<1> HIDE DEF t, u, b, w
<1>5. /\ v \in Seq(Nodes) /\ Len(v) = 1 + m
      /\ \A h \in 1 .. 1 : v[h] = b[h]
      /\ \A h \in 1 .. m : v[1 + h] = s[h]
  <2>1. /\ v \in Seq(Nodes) /\ Len(v) = Len(b) + Len(s)
        /\ \A h \in 1 .. Len(b) : v[h] = b[h]
        /\ \A h \in 1 .. Len(s) : v[Len(b) + h] = s[h]
    BY <1>3, Joined
  <2> HIDE DEF v
  <2> QED
    BY <1>3, <2>1
<1>6. s \in Seq(Nodes)
  OBVIOUS
<1> HIDE DEF v, m
<1>7. t = v
  <2>1. Len(t) = Len(v)
    BY <1>0, <1>1, <1>5
  <2>2. ASSUME NEW h \in 1 .. Len(t) PROVE t[h] = v[h]
    <3>1. CASE h = 1
      BY <3>1, <1>1, <1>3, <1>5
    <3>2. CASE h # 1
      <4>1. h - 1 \in 1 .. m /\ h - 1 >= 1 /\ (h - 1) + 1 = h /\ 1 + (h - 1) = h
        BY <3>2, <1>0, <1>1
      <4>2. t[(h - 1) + 1] = s[h - 1] /\ v[1 + (h - 1)] = s[h - 1]
        BY <4>1, <1>1, <1>5
      <4> QED
        BY <4>1, <4>2
    <3> QED
      BY <3>1, <3>2
  <2> QED
    BY <1>1, <1>5, <2>1, <2>2, SeqEqual
<1>8. u = w
  <2>1. ASSUME NEW h \in 1 .. Len(u) PROVE u[h] = w[h]
    <3>1. CASE h = m + 1
      BY <3>1, <1>2, <1>4
    <3>2. CASE h # m + 1
      <4>1. h \in 1 .. m /\ h < m + 1
        BY <3>2, <1>0, <1>2
      <4> QED
        BY <4>1, <1>2, <1>4
    <3> QED
      BY <3>1, <3>2
  <2> QED
    BY <1>2, <1>4, <2>1, SeqEqual
<1> QED
  BY <1>7, <1>8 DEF t, u, b, v, w

\* The same after a step.
LEMMA WalksAfter ==
    (\A s \in Seq(Nodes) : ListTypeOK /\ Represents(s) =>
        Forward = s /\ Backward = Reverse(s))'
BY Walks, PTL

\* Where a node of the list is.
LEMMA IndexFound ==
    ASSUME NEW s \in Seq(Nodes), Represents(s), NEW n \in linked
    PROVE  IndexIn(s, n) \in 1 .. Len(s) /\ s[IndexIn(s, n)] = n
<1>1. \E i \in 1 .. Len(s) : s[i] = n
  BY DEF Represents
<1> QED
  BY <1>1 DEF IndexIn

\* Every operation does to the walk what its name says.
LEMMA StepOnSequence ==
    ASSUME IInv, [ListNext]_listVars
    PROVE  /\ Backward' = Reverse(Forward')
           /\ \A n \in Nodes :
                /\ AddFirst(n) => Forward' = <<n>> \o Forward
                /\ AddLast(n)  => Forward' = Append(Forward, n)
                /\ RemoveNode(n) => Forward' = RemoveAt(Forward, IndexIn(Forward, n))
                /\ \A node \in Nodes :
                     /\ AddBefore(node, n) => Forward' =
                          InsertAt(Forward, IndexIn(Forward, node), n)
                     /\ AddAfter(node, n) => Forward' =
                          InsertAt(Forward, IndexIn(Forward, node) + 1, n)
<1>1. ListTypeOK /\ IInv'
  BY InvStep DEF IInv
<1>2. PICK s \in Seq(Nodes) : Represents(s)
  BY DEF IInv
<1>3. Forward = s
  BY <1>1, <1>2, Walks
<1>4. ListTypeOK' /\ \E t \in Seq(Nodes) : Represents(t)'
  BY <1>1 DEF IInv
<1>5. ASSUME NEW t \in Seq(Nodes), Represents(t)'
      PROVE  Forward' = t /\ Backward' = Reverse(t)
  BY <1>4, <1>5, WalksAfter
<1>6. Backward' = Reverse(Forward')
  BY <1>4, <1>5
<1>7. ASSUME NEW n \in Nodes, AddFirst(n) PROVE Forward' = <<n>> \o s
  <2>1. Represents(Insert(s, 1, n))'
    BY <1>1, <1>2, <1>7, AddFirstInserts
  <2>2. Insert(s, 1, n) \in Seq(Nodes)
    BY InsertSeq
  <2> QED
    BY <2>1, <2>2, <1>5, InsertEnds
<1>8. ASSUME NEW n \in Nodes, AddLast(n) PROVE Forward' = Append(s, n)
  <2>1. Represents(Insert(s, Len(s) + 1, n))'
    BY <1>1, <1>2, <1>8, AddLastInserts
  <2>2. Insert(s, Len(s) + 1, n) \in Seq(Nodes)
    BY InsertSeq
  <2> QED
    BY <2>1, <2>2, <1>5, InsertEnds
<1>9. ASSUME NEW n \in Nodes, RemoveNode(n)
      PROVE  Forward' = RemoveAt(s, IndexIn(s, n))
  <2> DEFINE i == IndexIn(s, n)
  <2>1. i \in 1 .. Len(s) /\ s[i] = n
    BY <1>2, <1>9, IndexFound DEF RemoveNode
  <2> HIDE DEF i
  <2>2. Represents(Delete(s, i))'
    BY <1>1, <1>2, <1>9, <2>1, RemoveDeletes
  <2>3. Delete(s, i) \in Seq(Nodes)
    BY <2>1, DeleteSeq
  <2>4. Forward' = RemoveAt(s, i)
    BY <2>1, <2>2, <2>3, <1>5, RemoveAtDeletes
  <2> QED
    BY <2>4 DEF i
<1>10. ASSUME NEW n \in Nodes, NEW node \in Nodes, AddBefore(node, n)
       PROVE  Forward' = InsertAt(s, IndexIn(s, node), n)
  <2> DEFINE i == IndexIn(s, node)
  <2>1. i \in 1 .. Len(s) /\ s[i] = node /\ i \in 1 .. Len(s) + 1
    <3>1. i \in 1 .. Len(s) /\ s[i] = node
      BY <1>2, <1>10, IndexFound DEF AddBefore
    <3> QED
      BY <3>1
  <2> HIDE DEF i
  <2>2. AddBefore(s[i], n)
    BY <1>10, <2>1
  <2>3. Represents(Insert(s, i, n))'
    BY <1>1, <1>2, <2>1, <2>2, AddBeforeInserts
  <2>4. Insert(s, i, n) \in Seq(Nodes)
    BY <2>1, InsertSeq
  <2>5. Forward' = InsertAt(s, i, n)
    BY <2>1, <2>3, <2>4, <1>5, InsertAtInserts
  <2> QED
    BY <2>5 DEF i
<1>11. ASSUME NEW n \in Nodes, NEW node \in Nodes, AddAfter(node, n)
       PROVE  Forward' = InsertAt(s, IndexIn(s, node) + 1, n)
  <2> DEFINE i == IndexIn(s, node)
  <2>1. i \in 1 .. Len(s) /\ s[i] = node /\ i + 1 \in 1 .. Len(s) + 1
    <3>1. i \in 1 .. Len(s) /\ s[i] = node
      BY <1>2, <1>11, IndexFound DEF AddAfter
    <3> QED
      BY <3>1
  <2> HIDE DEF i
  <2>2. AddAfter(s[i], n)
    BY <1>11, <2>1
  <2>3. Represents(Insert(s, i + 1, n))'
    BY <1>1, <1>2, <2>1, <2>2, AddAfterInserts
  <2>4. Insert(s, i + 1, n) \in Seq(Nodes)
    BY <2>1, InsertSeq
  <2>5. Forward' = InsertAt(s, i + 1, n)
    BY <2>1, <2>3, <2>4, <1>5, InsertAtInserts
  <2> QED
    BY <2>5 DEF i
<1> QED
  BY <1>3, <1>6, <1>7, <1>8, <1>9, <1>10, <1>11

\* Every operation does to the walk what its name says, and backwards is the
\* mirror of forwards (list.c:36-144, list.h:114-129).
THEOREM WalksFollow == ListSpec => OperationsOnSequence
BY Initially, InvStep, StepOnSequence, PTL DEF ListSpec, OperationsOnSequence
=============================================================================
