--------------------------- MODULE Placement_proof ---------------------------
(***************************************************************************)
(* What the search of Placement finds, for every node, every demand and    *)
(* wherever the processes come from; for the rounds of a node              *)
(* (SaboNode_proof) and for the search with its memory                     *)
(* (DecisionTree_proof).  The sums serve NodeBinding_proof too.            *)
(*                                                                         *)
(* First, that a recursion whose measure decreases defines a function, and *)
(* what it computes; and what SumFunctionOnSet(f, S) of the community      *)
(* modules is for every f and every finite S.  The library's induction     *)
(* theorems take an operator, which no prover here can instantiate: the    *)
(* inductions below are over the SET of the elements the claim holds of,   *)
(* and rest on well-foundedness alone.                                     *)
(*                                                                         *)
(* Search: what a node's fields mean (Accounted), which bounds they keep   *)
(* (Levelled), and that a subtree that is cut, or whose candidate is not   *)
(* kept, never holds the only placement (Finds).                           *)
(* Over-commitment: what is kept is no worse than any early placement      *)
(* below (Beats), and the sockets being alike, a best one is early.        *)
(***************************************************************************)
EXTENDS Placement, FiniteSetTheorems, WellFoundedInduction, TLAPS

\* A set of naturals has a least element.
LEMMA LeastNatural ==
    ASSUME NEW T \in SUBSET Nat, T # {}
    PROVE  \E n \in T : \A m \in T : n <= m
<1>1. IsWellFoundedOn(OpToRel(<, Nat), Nat)
  BY NatLessThanWellFounded
<1>2. PICK n \in T : \A m \in T : ~ (<<m, n>> \in OpToRel(<, Nat))
  BY <1>1, WFMin
<1>3. ASSUME NEW m \in T PROVE n <= m
  <2>1. ~ (<<m, n>> \in OpToRel(<, Nat))
    BY <1>2
  <2> QED
    BY <2>1 DEF OpToRel
<1> QED
  BY <1>3

\* Induction on a measure: P holds of everything, if it holds of what only has
\* elements of P below it.
LEMMA MeasureInduction ==
    ASSUME NEW D, NEW mu, \A x \in D : mu[x] \in Nat,
           NEW P, \A x \in D : (\A y \in D : mu[y] < mu[x] => y \in P) => x \in P
    PROVE  \A x \in D : x \in P
<1> DEFINE Bad == {n \in Nat : \E x \in D : mu[x] = n /\ x \notin P}
<1>1. Bad \in SUBSET Nat
  OBVIOUS
<1>2. Bad = {}
  <2> SUFFICES ASSUME Bad # {} PROVE FALSE
    OBVIOUS
  <2>1. PICK n \in Bad : \A m \in Bad : n <= m
    <3> HIDE DEF Bad
    <3> QED
      BY <1>1, LeastNatural
  <2>2. PICK x \in D : mu[x] = n /\ x \notin P
    BY <2>1
  <2>3. PICK y \in D : mu[y] < mu[x] /\ y \notin P
    BY <2>2
  <2> QED
    BY <2>1, <2>2, <2>3
<1> QED
  BY <1>2

\* Induction on the naturals.
LEMMA NaturalInduction ==
    ASSUME NEW P, 0 \in P, \A n \in Nat : n \in P => n + 1 \in P
    PROVE  \A n \in Nat : n \in P
<1> DEFINE Bad == {n \in Nat : n \notin P}
<1>1. Bad \in SUBSET Nat
  OBVIOUS
<1>2. Bad = {}
  <2> SUFFICES ASSUME Bad # {} PROVE FALSE
    OBVIOUS
  <2>1. PICK n \in Bad : \A m \in Bad : n <= m
    <3> HIDE DEF Bad
    <3> QED
      BY <1>1, LeastNatural
  <2>2. n - 1 \in Nat /\ n - 1 \in P
    BY <2>1
  <2>3. n - 1 + 1 \in P
    BY <2>2
  <2> QED
    BY <2>1, <2>3
<1> QED
  BY <1>2

\* The strict inclusion of its subsets is well-founded.
LEMMA SubsetsWellFounded ==
    ASSUME NEW S, IsFiniteSet(S)
    PROVE  IsWellFoundedOn(StrictSubsetOrdering(S), SUBSET S)
BY FS_StrictSubsetOrderingWellFounded, FS_FiniteSubsetsOfFinite

\* Induction on the subsets of a finite set: P holds of a set, if it holds of
\* what is left of it without any of its elements.
LEMMA SubsetInduction ==
    ASSUME NEW S, IsFiniteSet(S), NEW P,
           \A T \in SUBSET S : (\A x \in T : T \ {x} \in P) => T \in P
    PROVE  \A T \in SUBSET S : T \in P
<1> DEFINE Bad == {T \in SUBSET S : T \notin P}
<1> SUFFICES ASSUME Bad # {} PROVE FALSE
  OBVIOUS
<1>1. IsWellFoundedOn(StrictSubsetOrdering(S), SUBSET S)
  BY SubsetsWellFounded
<1>2. Bad \subseteq SUBSET S
  OBVIOUS
<1>3. PICK T \in Bad : \A R \in Bad : ~ (<<R, T>> \in StrictSubsetOrdering(S))
  <2> HIDE DEF Bad
  <2> QED
    BY <1>1, <1>2, WFMin
<1>4. ASSUME NEW x \in T PROVE T \ {x} \in P
  <2>1. <<T \ {x}, T>> \in StrictSubsetOrdering(S)
    BY <1>3 DEF StrictSubsetOrdering
  <2> QED
    BY <1>3, <2>1
<1> QED
  BY <1>3, <1>4

\* The same with any one of the elements: P is kept by putting one back.
LEMMA RemovalInduction ==
    ASSUME NEW S, IsFiniteSet(S), NEW P, {} \in P,
           \A T \in SUBSET S : \A x \in T : T \ {x} \in P => T \in P
    PROVE  \A T \in SUBSET S : T \in P
<1>1. ASSUME NEW T \in SUBSET S, \A x \in T : T \ {x} \in P PROVE T \in P
  BY <1>1
<1> QED
  BY <1>1, SubsetInduction

\* The number of its elements is a measure of a subset.
LEMMA SubsetMeasure ==
    ASSUME NEW S, IsFiniteSet(S)
    PROVE  \E mu : \A s \in SUBSET S :
              mu[s] \in Nat /\ \A x \in s : mu[s \ {x}] < mu[s]
<1> DEFINE mu == [s \in SUBSET S |-> Cardinality(s)]
<1>1. ASSUME NEW s \in SUBSET S
      PROVE  mu[s] \in Nat /\ \A x \in s : mu[s \ {x}] < mu[s]
  <2>1. IsFiniteSet(s) /\ mu[s] = Cardinality(s) /\ Cardinality(s) \in Nat
    BY FS_Subset, FS_CardinalityType
  <2>2. ASSUME NEW x \in s PROVE mu[s \ {x}] = Cardinality(s) - 1
    <3>1. mu[s \ {x}] = Cardinality(s \ {x})
      OBVIOUS
    <3> HIDE DEF mu
    <3> QED
      BY <2>1, <3>1, FS_RemoveElement
  <2> HIDE DEF mu
  <2> QED
    BY <2>1, <2>2
<1> HIDE DEF mu
<1> QED
  BY <1>1

-----------------------------------------------------------------------------
(* Recursions *)

\* A recursive definition, of which body is the right-hand side: it may use
\* the function at elements of smaller measure only.
IsRecursion(D, R, mu, body) ==
    /\ R # {}
    /\ \A x \in D : mu[x] \in Nat
    /\ \A x \in D : \A g \in [D -> R] : body[<<x, g>>] \in R
    /\ \A x \in D : \A g, h \in [D -> R] :
          (\A y \in D : mu[y] < mu[x] => g[y] = h[y])
              => body[<<x, g>>] = body[<<x, h>>]

\* Two functions that satisfy it below n agree below n.
LEMMA RecursionAgrees ==
    ASSUME NEW D, NEW R, NEW mu, NEW body, IsRecursion(D, R, mu, body),
           NEW n \in Nat, NEW g \in [D -> R], NEW h \in [D -> R],
           \A x \in D : mu[x] < n => g[x] = body[<<x, g>>],
           \A x \in D : mu[x] < n => h[x] = body[<<x, h>>]
    PROVE  \A x \in D : mu[x] < n => g[x] = h[x]
<1> DEFINE P == {x \in D : mu[x] < n => g[x] = h[x]}
<1>1. \A x \in D : mu[x] \in Nat
  BY DEF IsRecursion
<1>2. ASSUME NEW x \in D, \A y \in D : mu[y] < mu[x] => y \in P
      PROVE  x \in P
  <2> SUFFICES ASSUME mu[x] < n PROVE g[x] = h[x]
    OBVIOUS
  <2>1. \A y \in D : mu[y] < mu[x] => g[y] = h[y]
    BY <1>1, <1>2
  <2>2. body[<<x, g>>] = body[<<x, h>>]
    BY <2>1 DEF IsRecursion
  <2> QED
    BY <2>2
<1> HIDE DEF P
<1>3. \A x \in D : x \in P
  BY <1>1, <1>2, MeasureInduction
<1> QED
  BY <1>3 DEF P

\* It defines a function: the values at measure n follow from those below.
LEMMA RecursionExists ==
    ASSUME NEW D, NEW R, NEW mu, NEW body, IsRecursion(D, R, mu, body)
    PROVE  \E g \in [D -> R] : \A x \in D : g[x] = body[<<x, g>>]
<1> DEFINE Fits(g, n) == \A x \in D : mu[x] < n => g[x] = body[<<x, g>>]
           P == {n \in Nat : \E g \in [D -> R] : Fits(g, n)}
           best(n) == CHOOSE g \in [D -> R] : Fits(g, n)
           all == [x \in D |-> best(mu[x] + 1)[x]]
<1>1. 0 \in P
  <2>1. PICK r \in R : TRUE
    BY DEF IsRecursion
  <2>2. [x \in D |-> r] \in [D -> R] /\ Fits([x \in D |-> r], 0)
    BY DEF IsRecursion
  <2> QED
    BY <2>2
<1>2. ASSUME NEW n \in Nat, n \in P PROVE n + 1 \in P
  <2>1. PICK g \in [D -> R] : Fits(g, n)
    BY <1>2
  <2> DEFINE h == [x \in D |-> body[<<x, g>>]]
  <2>2. h \in [D -> R] /\ \A x \in D : h[x] = body[<<x, g>>]
    BY DEF IsRecursion
  <2> HIDE DEF h
  <2>3. \A x \in D : mu[x] < n => h[x] = g[x]
    BY <2>1, <2>2
  <2>4. ASSUME NEW x \in D, mu[x] < n + 1 PROVE body[<<x, g>>] = body[<<x, h>>]
    <3>1. \A y \in D : mu[y] < mu[x] => g[y] = h[y]
      BY <2>3, <2>4 DEF IsRecursion
    <3> QED
      BY <3>1, <2>2 DEF IsRecursion
  <2>5. Fits(h, n + 1)
    BY <2>2, <2>4
  <2> QED
    BY <2>2, <2>5
<1>3. \A n \in Nat : \E g \in [D -> R] : Fits(g, n)
  <2> HIDE DEF P
  <2>1. \A n \in Nat : n \in P
    BY <1>1, <1>2, NaturalInduction
  <2> QED
    BY <2>1 DEF P
<1>4. \A n \in Nat : best(n) \in [D -> R] /\ Fits(best(n), n)
  <2> HIDE DEF Fits
  <2> QED
    BY <1>3
<1> HIDE DEF best
<1>5. all \in [D -> R]
  BY <1>4 DEF IsRecursion
<1>6. ASSUME NEW x \in D PROVE all[x] = body[<<x, all>>]
  <2>1. mu[x] \in Nat /\ mu[x] + 1 \in Nat /\ mu[x] < mu[x] + 1
    BY DEF IsRecursion
  <2>2. all[x] = body[<<x, best(mu[x] + 1)>>]
    BY <1>4, <2>1
  <2>3. ASSUME NEW y \in D, mu[y] < mu[x] PROVE best(mu[x] + 1)[y] = all[y]
    <3> DEFINE g == best(mu[x] + 1)
               h == best(mu[y] + 1)
    <3>1. mu[y] \in Nat /\ mu[y] + 1 \in Nat /\ mu[y] < mu[y] + 1
          /\ mu[y] + 1 <= mu[x] + 1
      BY <2>1, <2>3 DEF IsRecursion
    <3>2. g \in [D -> R] /\ Fits(g, mu[x] + 1) /\ h \in [D -> R] /\ Fits(h, mu[y] + 1)
      BY <1>4, <2>1, <3>1
    <3>3. \A z \in D : mu[z] \in Nat
      BY DEF IsRecursion
    <3> HIDE DEF g, h
    <3>4. Fits(g, mu[y] + 1)
      BY <2>1, <3>1, <3>2, <3>3
    <3>5. g[y] = h[y]
      BY <3>1, <3>2, <3>4, RecursionAgrees
    <3> QED
      BY <3>5 DEF g, h
  <2>4. body[<<x, best(mu[x] + 1)>>] = body[<<x, all>>]
    <3> HIDE DEF all
    <3> QED
      BY <1>4, <1>5, <2>1, <2>3 DEF IsRecursion
  <2> QED
    BY <2>2, <2>4
<1> HIDE DEF all
<1> QED
  BY <1>5, <1>6

\* A loop: out of a state in which it is done, or else whatever it computes
\* from the next state.
IsLoop(g, D, done, out, next) ==
    g = [x \in D |-> IF x \in done THEN out[x] ELSE g[next[x]]]

\* A loop whose measure is a natural that decreases defines a function.
LEMMA LoopExists ==
    ASSUME NEW D, NEW done, NEW out, NEW next, NEW mu,
           \A x \in D : mu[x] \in Nat,
           \A x \in D \ done : next[x] \in D /\ mu[next[x]] < mu[x]
    PROVE  \E g : IsLoop(g, D, done, out, next)
<1> DEFINE R == {out[x] : x \in D} \cup {0}
           body == [y \in D \X [D -> R] |->
                      IF y[1] \in done THEN out[y[1]] ELSE y[2][next[y[1]]]]
<1>1. \A x \in D : \A g \in [D -> R] :
         body[<<x, g>>] = IF x \in done THEN out[x] ELSE g[next[x]]
  OBVIOUS
<1>2. \A x \in D : out[x] \in R
  OBVIOUS
<1>3. R # {}
  OBVIOUS
<1> HIDE DEF R, body
<1>4. IsRecursion(D, R, mu, body)
  BY <1>1, <1>2, <1>3 DEF IsRecursion
<1>5. PICK g \in [D -> R] : \A x \in D : g[x] = body[<<x, g>>]
  BY <1>4, RecursionExists
<1>6. g = [x \in D |-> IF x \in done THEN out[x] ELSE g[next[x]]]
  BY <1>1, <1>5
<1> QED
  BY <1>6 DEF IsLoop

\* What a loop leaves: if its states stay in I, what comes out comes out of a
\* state of I in which it is done.
LEMMA LoopInvariant ==
    ASSUME NEW D, NEW done, NEW out, NEW next, NEW mu,
           \A x \in D : mu[x] \in Nat,
           \A x \in D \ done : next[x] \in D /\ mu[next[x]] < mu[x],
           NEW g, IsLoop(g, D, done, out, next),
           NEW I \in SUBSET D, \A x \in I \ done : next[x] \in I
    PROVE  \A x \in I : \E y \in I \cap done : g[x] = out[y]
<1> DEFINE P == {x \in D : x \in I => \E y \in I \cap done : g[x] = out[y]}
<1>1. ASSUME NEW x \in D, \A y \in D : mu[y] < mu[x] => y \in P
      PROVE  x \in P
  <2> SUFFICES ASSUME x \in I
               PROVE  \E y \in I \cap done : g[x] = out[y]
    OBVIOUS
  <2>1. g[x] = IF x \in done THEN out[x] ELSE g[next[x]]
    BY DEF IsLoop
  <2>2. CASE x \in done
    BY <2>1, <2>2
  <2>3. CASE x \notin done
    <3>1. next[x] \in P /\ next[x] \in I
      BY <1>1, <2>3
    <3> QED
      BY <2>1, <2>3, <3>1
  <2> QED
    BY <2>2, <2>3
<1>2. \A x \in D : (\A y \in D : mu[y] < mu[x] => y \in P) => x \in P
  BY <1>1
<1> HIDE DEF P
<1>3. \A x \in D : x \in P
  BY <1>2, MeasureInduction, SMTT(60)
<1> QED
  BY <1>3 DEF P

-----------------------------------------------------------------------------
(* The recursion of a sum *)

Pick(s) == CHOOSE x \in s : TRUE

\* What a partial sum is, given those of smaller sets.
Partial(f, it, s) == IF s = {} THEN 0 ELSE f[Pick(s)] + it[s \ {Pick(s)}]

IsSum(f, it, S) == it = [s \in SUBSET S |-> Partial(f, it, s)]

\* The element a fold takes next is one of the set.
LEMMA PickInSet == \A s : s # {} => Pick(s) \in s
BY DEF Pick

\* A sum is what some function with the fold's definition gives for S.
LEMMA SumUnfolded ==
    ASSUME NEW f, NEW S
    PROVE  SumFunctionOnSet(f, S) = (CHOOSE it : IsSum(f, it, S))[S]
BY DEF SumFunctionOnSet, FoldFunctionOnSet, MapThenFoldSet, IsSum, Partial, Pick

\* There is such a function.
LEMMA SumExists ==
    ASSUME NEW f, NEW S, IsFiniteSet(S), \A x \in S : f[x] \in Int
    PROVE  \E it : IsSum(f, it, S)
<1> DEFINE D == SUBSET S
           body == [y \in D \X [D -> Int] |-> Partial(f, y[2], y[1])]
<1>1. PICK mu : \A s \in D : mu[s] \in Nat /\ \A x \in s : mu[s \ {x}] < mu[s]
  BY SubsetMeasure
<1>2. \A s \in D : \A g \in [D -> Int] : body[<<s, g>>] = Partial(f, g, s)
  OBVIOUS
<1>3. \A s \in D : s # {} => /\ Pick(s) \in s /\ f[Pick(s)] \in Int
                              /\ s \ {Pick(s)} \in D
  BY PickInSet
<1> HIDE DEF D, body
<1>4. ASSUME NEW s \in D, NEW g \in [D -> Int] PROVE body[<<s, g>>] \in Int
  <2>1. s # {} => f[Pick(s)] \in Int /\ g[s \ {Pick(s)}] \in Int
    BY <1>3
  <2>2. Partial(f, g, s) \in Int
    BY <2>1 DEF Partial
  <2> QED
    BY <1>2, <2>2
<1>5. ASSUME NEW s \in D, NEW g \in [D -> Int], NEW h \in [D -> Int],
             \A r \in D : mu[r] < mu[s] => g[r] = h[r]
      PROVE  body[<<s, g>>] = body[<<s, h>>]
  <2>1. s # {} => g[s \ {Pick(s)}] = h[s \ {Pick(s)}]
    BY <1>1, <1>3, <1>5
  <2> QED
    BY <1>2, <2>1 DEF Partial
<1>6. IsRecursion(D, Int, mu, body)
  BY <1>1, <1>4, <1>5 DEF IsRecursion
<1>7. PICK g \in [D -> Int] : \A s \in D : g[s] = body[<<s, g>>]
  BY <1>6, RecursionExists
<1>8. g = [s \in D |-> Partial(f, g, s)]
  BY <1>2, <1>7
<1> QED
  BY <1>8 DEF IsSum, D

\* Two solutions agree where both are defined.
LEMMA SumUnique ==
    ASSUME NEW f, NEW it, NEW R, IsSum(f, it, R),
           NEW g, NEW jt, NEW T, IsSum(g, jt, T),
           IsFiniteSet(T), T \in SUBSET R, \A x \in T : f[x] = g[x]
    PROVE  it[T] = jt[T]
<1> DEFINE P == {s \in SUBSET T : it[s] = jt[s]}
<1>1. \A s \in SUBSET T : it[s] = Partial(f, it, s) /\ jt[s] = Partial(g, jt, s)
  BY DEF IsSum
<1>2. ASSUME NEW s \in SUBSET T, \A x \in s : s \ {x} \in P
      PROVE  s \in P
  <2>1. s # {} => Pick(s) \in s
    BY PickInSet
  <2> QED
    BY <1>1, <1>2, <2>1 DEF Partial
<1> HIDE DEF P
<1>3. \A s \in SUBSET T : s \in P
  BY <1>2, SubsetInduction
<1> QED
  BY <1>3 DEF P

-----------------------------------------------------------------------------
(* Sums *)

\* The sum over nothing is zero.
LEMMA SumEmpty == ASSUME NEW f PROVE SumFunctionOnSet(f, {}) = 0
<1> DEFINE it == CHOOSE it : IsSum(f, it, {})
<1>1. IsSum(f, it, {})
  BY SumExists, FS_EmptySet
<1> HIDE DEF it
<1>2. it[{}] = 0
  BY <1>1 DEF IsSum, Partial
<1> QED
  BY <1>2, SumUnfolded DEF it

\* The sum takes one element apart, the one the library picks.
LEMMA SumPick ==
    ASSUME NEW f, NEW S, IsFiniteSet(S), \A x \in S : f[x] \in Int, S # {}
    PROVE  SumFunctionOnSet(f, S)
             = f[Pick(S)] + SumFunctionOnSet(f, S \ {Pick(S)})
<1> DEFINE rest == S \ {Pick(S)}
           it == CHOOSE it : IsSum(f, it, S)
           jt == CHOOSE jt : IsSum(f, jt, rest)
<1>1. IsFiniteSet(rest) /\ rest \in SUBSET S /\ \A x \in rest : f[x] \in Int
  BY FS_RemoveElement
<1>2. IsSum(f, it, S)
  BY SumExists
<1>3. IsSum(f, jt, rest)
  BY <1>1, SumExists
<1>4. SumFunctionOnSet(f, S) = it[S] /\ SumFunctionOnSet(f, rest) = jt[rest]
  BY SumUnfolded
<1> HIDE DEF it, jt
<1>5. it[rest] = jt[rest]
  <2> HIDE DEF rest
  <2> SUFFICES ASSUME NEW i, NEW j, IsSum(f, i, S), IsSum(f, j, rest)
               PROVE  i[rest] = j[rest]
    BY <1>2, <1>3
  <2> QED
    BY <1>1, SumUnique
<1>6. it[S] = f[Pick(S)] + it[rest]
  BY <1>2 DEF IsSum, Partial
<1> QED
  BY <1>4, <1>5, <1>6

\* Only the values on the set count.
LEMMA SumCongruence ==
    ASSUME NEW f, NEW g, NEW S, IsFiniteSet(S),
           \A x \in S : f[x] \in Int /\ f[x] = g[x]
    PROVE  SumFunctionOnSet(f, S) = SumFunctionOnSet(g, S)
<1> DEFINE it == CHOOSE it : IsSum(f, it, S)
           jt == CHOOSE jt : IsSum(g, jt, S)
<1>1. IsSum(f, it, S) /\ IsSum(g, jt, S)
  BY SumExists
<1>2. SumFunctionOnSet(f, S) = it[S] /\ SumFunctionOnSet(g, S) = jt[S]
  BY SumUnfolded
<1> HIDE DEF it, jt
<1>3. it[S] = jt[S]
  <2> SUFFICES ASSUME NEW i, NEW j, IsSum(f, i, S), IsSum(g, j, S)
               PROVE  i[S] = j[S]
    BY <1>1
  <2> QED
    BY SumUnique
<1> QED
  BY <1>2, <1>3

\* A sum of integers is an integer.
LEMMA SumInt ==
    ASSUME NEW f, NEW S, IsFiniteSet(S), \A x \in S : f[x] \in Int
    PROVE  SumFunctionOnSet(f, S) \in Int
<1> DEFINE it == CHOOSE it : IsSum(f, it, S)
           P == {s \in SUBSET S : it[s] \in Int}
<1>1. IsSum(f, it, S) /\ SumFunctionOnSet(f, S) = it[S]
  BY SumExists, SumUnfolded
<1> HIDE DEF it
<1>2. \A s \in SUBSET S : it[s] = Partial(f, it, s)
  BY <1>1 DEF IsSum
<1>3. ASSUME NEW s \in SUBSET S, \A x \in s : s \ {x} \in P
      PROVE  s \in P
  <2>1. s # {} => Pick(s) \in s /\ f[Pick(s)] \in Int
    BY PickInSet
  <2>2. s # {} => it[s \ {Pick(s)}] \in Int
    BY <1>3, <2>1
  <2>3. Partial(f, it, s) \in Int
    BY <2>1, <2>2 DEF Partial
  <2> QED
    BY <1>2, <2>3
<1> HIDE DEF P
<1>4. \A s \in SUBSET S : s \in P
  BY <1>3, SubsetInduction
<1> QED
  BY <1>1, <1>4 DEF P

\* Any element can be taken apart.
LEMMA SumRemove ==
    ASSUME NEW f, NEW S, IsFiniteSet(S), \A x \in S : f[x] \in Int
    PROVE  \A y \in S :
              SumFunctionOnSet(f, S) = f[y] + SumFunctionOnSet(f, S \ {y})
<1> DEFINE Sum(s) == SumFunctionOnSet(f, s)
           P == {s \in SUBSET S : \A z \in s : Sum(s) = f[z] + Sum(s \ {z})}
<1>1. \A s \in SUBSET S : /\ IsFiniteSet(s) /\ Sum(s) \in Int
                          /\ s # {} => Sum(s) = f[Pick(s)] + Sum(s \ {Pick(s)})
  <2> TAKE s \in SUBSET S
  <2>1. IsFiniteSet(s) /\ \A x \in s : f[x] \in Int
    BY FS_Subset
  <2> QED
    BY <2>1, SumInt, SumPick
<1> HIDE DEF Sum
<1>2. ASSUME NEW s \in SUBSET S, \A x \in s : s \ {x} \in P
      PROVE  s \in P
  <2> SUFFICES ASSUME NEW z \in s PROVE Sum(s) = f[z] + Sum(s \ {z})
    OBVIOUS
  <2>1. PICK x \in s : Sum(s) = f[x] + Sum(s \ {x})
    BY <1>1, PickInSet
  <2>2. CASE x = z
    BY <2>1, <2>2
  <2>3. CASE x # z
    <3> DEFINE r == (s \ {x}) \ {z}
               a == s \ {x}
               b == s \ {z}
    <3>1. Sum(a) = f[z] + Sum(r)
      BY <1>2, <2>3
    <3>2. Sum(b) = f[x] + Sum(b \ {x}) /\ b \ {x} = r
      BY <1>2, <2>3
    <3>3. f[x] \in Int /\ f[z] \in Int /\ Sum(r) \in Int
      BY <1>1
    <3>4. Sum(s) = f[x] + Sum(a)
      BY <2>1
    <3> HIDE DEF r, a
    <3>5. Sum(b) = f[x] + Sum(r)
      BY <3>2
    <3> HIDE DEF b
    <3>6. Sum(s) = f[z] + Sum(b)
      BY <3>1, <3>3, <3>4, <3>5
    <3> QED
      BY <3>6 DEF b
  <2> QED
    BY <2>2, <2>3
<1> HIDE DEF P
<1>3. \A s \in SUBSET S : s \in P
  BY <1>2, SubsetInduction
<1> QED
  BY <1>3 DEF P, Sum

\* An element more adds its value.
LEMMA SumAdd ==
    ASSUME NEW f, NEW S, IsFiniteSet(S), \A x \in S : f[x] \in Int,
           NEW y, y \notin S, f[y] \in Int
    PROVE  SumFunctionOnSet(f, S \cup {y}) = f[y] + SumFunctionOnSet(f, S)
<1> DEFINE T == S \cup {y}
<1>1. IsFiniteSet(T) /\ y \in T /\ T \ {y} = S /\ \A x \in T : f[x] \in Int
  BY FS_AddElement
<1> HIDE DEF T
<1>2. SumFunctionOnSet(f, T) = f[y] + SumFunctionOnSet(f, T \ {y})
  BY <1>1, SumRemove
<1> QED
  BY <1>1, <1>2 DEF T

\* The sums over every part of a set, taken apart element by element.
PartialSums(sum, f, S) ==
    /\ sum[{}] = 0
    /\ \A s \in SUBSET S : /\ sum[s] = SumFunctionOnSet(f, s) /\ sum[s] \in Int
                            /\ \A x \in s : sum[s] = f[x] + sum[s \ {x}]

\* The sums over the subsets of a finite set, as one function.
LEMMA SumParts ==
    ASSUME NEW f, NEW S, IsFiniteSet(S), \A x \in S : f[x] \in Int
    PROVE  \E sum : PartialSums(sum, f, S)
<1> DEFINE sum == [s \in SUBSET S |-> SumFunctionOnSet(f, s)]
<1>1. ASSUME NEW s \in SUBSET S PROVE IsFiniteSet(s) /\ \A x \in s : f[x] \in Int
  BY FS_Subset
<1>2. \A s \in SUBSET S : /\ SumFunctionOnSet(f, s) \in Int
                          /\ \A x \in s : SumFunctionOnSet(f, s)
                                            = f[x] + SumFunctionOnSet(f, s \ {x})
  BY <1>1, SumInt, SumRemove
<1>3. \A s \in SUBSET S : sum[s] = SumFunctionOnSet(f, s)
  OBVIOUS
<1>4. sum[{}] = 0
  BY <1>3, SumEmpty
<1> HIDE DEF sum
<1>5. \A s \in SUBSET S : \A x \in s : sum[s] = f[x] + sum[s \ {x}]
  BY <1>2, <1>3
<1>6. PartialSums(sum, f, S)
  BY <1>2, <1>3, <1>4, <1>5 DEF PartialSums
<1> QED
  BY <1>6

\* A sum that grows by no more, element by element, is no larger.
LEMMA SumMonotone ==
    ASSUME NEW f, NEW g, NEW S, IsFiniteSet(S),
           \A x \in S : f[x] \in Int /\ g[x] \in Int /\ f[x] <= g[x]
    PROVE  SumFunctionOnSet(f, S) <= SumFunctionOnSet(g, S)
<1>1. PICK F : PartialSums(F, f, S)
  <2>1. \A x \in S : f[x] \in Int
    OBVIOUS
  <2> QED
    BY <2>1, SumParts
<1>2. PICK G : PartialSums(G, g, S)
  <2>1. \A x \in S : g[x] \in Int
    OBVIOUS
  <2> QED
    BY <2>1, SumParts
<1> DEFINE P == {s \in SUBSET S : F[s] <= G[s]}
<1>3. {} \in P
  BY <1>1, <1>2 DEF PartialSums
<1>4. ASSUME NEW s \in SUBSET S, NEW x \in s, s \ {x} \in P PROVE s \in P
  <2> DEFINE r == s \ {x}
  <2>1. r \in SUBSET S /\ F[r] <= G[r]
    BY <1>4
  <2>2. F[s] = f[x] + F[r] /\ G[s] = g[x] + G[r]
    BY <1>1, <1>2 DEF PartialSums
  <2>3. F[r] \in Int /\ G[r] \in Int
    BY <2>1, <1>1, <1>2 DEF PartialSums
  <2>4. f[x] \in Int /\ g[x] \in Int /\ f[x] <= g[x]
    OBVIOUS
  <2> HIDE DEF r
  <2> QED
    BY <2>1, <2>2, <2>3, <2>4
<1> HIDE DEF P
<1>5. \A s \in SUBSET S : s \in P
  BY <1>3, <1>4, RemovalInduction
<1>6. S \in P
  BY <1>5
<1> QED
  BY <1>1, <1>2, <1>6 DEF P, PartialSums

\* The sum of a sum of functions.
LEMMA SumPlus ==
    ASSUME NEW f, NEW g, NEW h, NEW S, IsFiniteSet(S),
           \A x \in S : f[x] \in Int /\ g[x] \in Int /\ h[x] = f[x] + g[x]
    PROVE  SumFunctionOnSet(h, S)
             = SumFunctionOnSet(f, S) + SumFunctionOnSet(g, S)
<1>1. PICK F : PartialSums(F, f, S)
  <2>1. \A x \in S : f[x] \in Int
    OBVIOUS
  <2> QED
    BY <2>1, SumParts
<1>2. PICK G : PartialSums(G, g, S)
  <2>1. \A x \in S : g[x] \in Int
    OBVIOUS
  <2> QED
    BY <2>1, SumParts
<1>3. PICK H : PartialSums(H, h, S)
  <2>1. \A x \in S : h[x] \in Int
    OBVIOUS
  <2> QED
    BY <2>1, SumParts
<1> DEFINE P == {s \in SUBSET S : H[s] = F[s] + G[s]}
<1>4. {} \in P
  BY <1>1, <1>2, <1>3 DEF PartialSums
<1>5. ASSUME NEW s \in SUBSET S, NEW x \in s, s \ {x} \in P PROVE s \in P
  <2> DEFINE r == s \ {x}
  <2>1. r \in SUBSET S /\ H[r] = F[r] + G[r]
    BY <1>5
  <2>2. F[s] = f[x] + F[r] /\ G[s] = g[x] + G[r] /\ H[s] = h[x] + H[r]
    BY <1>1, <1>2, <1>3 DEF PartialSums
  <2>3. F[r] \in Int /\ G[r] \in Int /\ H[r] \in Int
    BY <2>1, <1>1, <1>2, <1>3 DEF PartialSums
  <2>4. f[x] \in Int /\ g[x] \in Int /\ h[x] = f[x] + g[x]
    OBVIOUS
  <2> HIDE DEF r
  <2> QED
    BY <2>1, <2>2, <2>3, <2>4
<1> HIDE DEF P
<1>6. \A s \in SUBSET S : s \in P
  BY <1>4, <1>5, RemovalInduction
<1>7. S \in P
  BY <1>6
<1> QED
  BY <1>1, <1>2, <1>3, <1>7 DEF P, PartialSums

\* Counting is summing ones.
LEMMA SumOfOnes ==
    ASSUME NEW f, NEW S, IsFiniteSet(S), \A x \in S : f[x] = 1
    PROVE  SumFunctionOnSet(f, S) = Cardinality(S)
<1>1. PICK F : PartialSums(F, f, S)
  <2>1. \A x \in S : f[x] \in Int
    OBVIOUS
  <2> QED
    BY <2>1, SumParts
<1> DEFINE P == {s \in SUBSET S : F[s] = Cardinality(s)}
<1>2. \A s \in SUBSET S : /\ Cardinality(s) \in Nat
                          /\ \A x \in s : Cardinality(s \ {x}) = Cardinality(s) - 1
  <2> TAKE s \in SUBSET S
  <2>1. IsFiniteSet(s)
    BY FS_Subset
  <2> QED
    BY <2>1, FS_CardinalityType, FS_RemoveElement
<1>3. {} \in P
  BY <1>1, FS_EmptySet DEF PartialSums
<1>4. ASSUME NEW s \in SUBSET S, NEW x \in s, s \ {x} \in P PROVE s \in P
  <2> DEFINE r == s \ {x}
  <2>1. r \in SUBSET S /\ F[r] = Cardinality(r)
    BY <1>4
  <2>2. F[s] = 1 + F[r]
    <3>1. f[x] = 1
      OBVIOUS
    <3> QED
      BY <1>1, <3>1 DEF PartialSums
  <2>3. Cardinality(r) = Cardinality(s) - 1 /\ Cardinality(s) \in Nat
    BY <1>2
  <2> HIDE DEF r
  <2> QED
    BY <2>1, <2>2, <2>3
<1> HIDE DEF P
<1>5. \A s \in SUBSET S : s \in P
  BY <1>3, <1>4, RemovalInduction
<1>6. S \in P
  BY <1>5
<1> QED
  BY <1>1, <1>6 DEF P, PartialSums

\* The sums over two sets with nothing in common add up.
LEMMA SumDisjoint ==
    ASSUME NEW f, NEW S, NEW T, IsFiniteSet(S), IsFiniteSet(T), S \cap T = {},
           \A x \in S \cup T : f[x] \in Int
    PROVE  SumFunctionOnSet(f, S \cup T)
             = SumFunctionOnSet(f, S) + SumFunctionOnSet(f, T)
<1> DEFINE U == S \cup T
<1>1. IsFiniteSet(U)
  BY FS_Union
<1>2. T \in SUBSET U /\ \A s \in SUBSET S : s \in SUBSET U /\ s \cup T \in SUBSET U
  OBVIOUS
<1>3. \A x \in U : f[x] \in Int
  OBVIOUS
<1> HIDE DEF U
<1>4. PICK F : PartialSums(F, f, U)
  BY <1>1, <1>3, SumParts
<1> DEFINE P == {s \in SUBSET S : F[s \cup T] = F[s] + F[T]}
<1>5. {} \in P
  <2>1. {} \cup T = T /\ F[T] \in Int
    BY <1>2, <1>4 DEF PartialSums
  <2> QED
    BY <1>4, <2>1 DEF PartialSums
<1>6. ASSUME NEW s \in SUBSET S, NEW x \in s, s \ {x} \in P PROVE s \in P
  <2> DEFINE r == s \ {x}
             t == s \cup T
  <2>1. t \ {x} = r \cup T /\ x \in t
    OBVIOUS
  <2>2. F[t] = f[x] + F[t \ {x}] /\ F[s] = f[x] + F[r]
    BY <1>2, <1>4 DEF PartialSums
  <2>3. F[r \cup T] = F[r] + F[T] /\ F[r] \in Int /\ F[T] \in Int /\ f[x] \in Int
    BY <1>2, <1>4, <1>6 DEF PartialSums
  <2>4. F[t] = f[x] + F[r \cup T]
    BY <2>1, <2>2
  <2> HIDE DEF r
  <2>5. F[s \cup T] = F[s] + F[T]
    BY <2>2, <2>3, <2>4
  <2> QED
    BY <2>5
<1> HIDE DEF P
<1>7. \A s \in SUBSET S : s \in P
  BY <1>5, <1>6, RemovalInduction
<1>8. S \in P
  BY <1>7
<1>9. F[S \cup T] = F[S] + F[T] /\ S \cup T \in SUBSET U /\ S \in SUBSET U
  BY <1>2, <1>8 DEF P
<1> QED
  BY <1>2, <1>4, <1>9 DEF PartialSums

-----------------------------------------------------------------------------
(* What follows from these *)

\* A sum of zeros is zero.
LEMMA SumZero ==
    ASSUME NEW f, NEW S, IsFiniteSet(S), \A x \in S : f[x] = 0
    PROVE  SumFunctionOnSet(f, S) = 0
<1>1. SumFunctionOnSet(f, S) = SumFunctionOnSet(f, S) + SumFunctionOnSet(f, S)
  <2>1. \A x \in S : f[x] \in Int /\ f[x] \in Int /\ f[x] = f[x] + f[x]
    OBVIOUS
  <2> QED
    BY <2>1, SumPlus
<1>2. SumFunctionOnSet(f, S) \in Int
  <2>1. \A x \in S : f[x] \in Int
    OBVIOUS
  <2> QED
    BY <2>1, SumInt
<1> DEFINE sum == SumFunctionOnSet(f, S)
<1>3. sum = sum + sum /\ sum \in Int
  BY <1>1, <1>2
<1> HIDE DEF sum
<1>4. sum = 0
  BY <1>3
<1> QED
  BY <1>4 DEF sum

\* A sum of naturals is a natural.
LEMMA SumNat ==
    ASSUME NEW f, NEW S, IsFiniteSet(S), \A x \in S : f[x] \in Nat
    PROVE  SumFunctionOnSet(f, S) \in Nat
<1> DEFINE zero == [x \in S |-> 0]
<1>1. \A x \in S : zero[x] = 0
  OBVIOUS
<1> HIDE DEF zero
<1>2. SumFunctionOnSet(zero, S) = 0
  BY <1>1, SumZero
<1>3. SumFunctionOnSet(f, S) \in Int
  BY SumInt
<1>4. SumFunctionOnSet(zero, S) <= SumFunctionOnSet(f, S)
  BY <1>1, SumMonotone
<1> QED
  BY <1>2, <1>3, <1>4

\* One more for every element adds their number.
LEMMA SumPlusOne ==
    ASSUME NEW f, NEW g, NEW S, IsFiniteSet(S),
           \A x \in S : f[x] \in Int /\ g[x] = f[x] + 1
    PROVE  SumFunctionOnSet(g, S) = SumFunctionOnSet(f, S) + Cardinality(S)
<1> DEFINE one == [x \in S |-> 1]
<1>1. \A x \in S : one[x] = 1
  OBVIOUS
<1> HIDE DEF one
<1>2. SumFunctionOnSet(g, S) = SumFunctionOnSet(f, S) + SumFunctionOnSet(one, S)
  BY <1>1, SumPlus
<1> QED
  BY <1>1, <1>2, SumOfOnes

\* Part of a sum of naturals is no larger than the whole.
LEMMA SumSubset ==
    ASSUME NEW f, NEW S, IsFiniteSet(S), \A x \in S : f[x] \in Nat,
           NEW R \in SUBSET S
    PROVE  SumFunctionOnSet(f, R) <= SumFunctionOnSet(f, S)
<1> DEFINE T == S \ R
<1>1. IsFiniteSet(R) /\ IsFiniteSet(T) /\ R \cap T = {} /\ R \cup T = S
      /\ \A x \in R \cup T : f[x] \in Int
  BY FS_Subset
<1>2. \A x \in T : f[x] \in Nat
  OBVIOUS
<1> HIDE DEF T
<1>3. SumFunctionOnSet(f, R \cup T)
        = SumFunctionOnSet(f, R) + SumFunctionOnSet(f, T)
  BY <1>1, SumDisjoint
<1>4. SumFunctionOnSet(f, R) \in Int /\ SumFunctionOnSet(f, T) \in Nat
  BY <1>1, <1>2, SumInt, SumNat
<1>5. SumFunctionOnSet(f, S) = SumFunctionOnSet(f, R \cup T)
  BY <1>1
<1> QED
  BY <1>3, <1>4, <1>5

\* No element of a sum of naturals is larger than the sum.
LEMMA SumElement ==
    ASSUME NEW f, NEW S, IsFiniteSet(S), \A x \in S : f[x] \in Nat, NEW y \in S
    PROVE  f[y] <= SumFunctionOnSet(f, S)
<1>1. SumFunctionOnSet(f, S) = f[y] + SumFunctionOnSet(f, S \ {y})
  BY SumRemove
<1>2. SumFunctionOnSet(f, S \ {y}) \in Nat
  BY FS_RemoveElement, SumNat
<1> QED
  BY <1>1, <1>2

\* A multiple of every element is a multiple of the sum.
LEMMA SumScale ==
    ASSUME NEW f, NEW g, NEW c \in Int, NEW S, IsFiniteSet(S),
           \A x \in S : f[x] \in Int /\ g[x] = c * f[x]
    PROVE  SumFunctionOnSet(g, S) = c * SumFunctionOnSet(f, S)
<1>1. PICK F : PartialSums(F, f, S)
  <2>1. \A x \in S : f[x] \in Int
    OBVIOUS
  <2> QED
    BY <2>1, SumParts
<1>2. PICK G : PartialSums(G, g, S)
  <2>1. \A x \in S : g[x] \in Int
    OBVIOUS
  <2> QED
    BY <2>1, SumParts
<1> DEFINE P == {s \in SUBSET S : G[s] = c * F[s]}
<1>3. {} \in P
  BY <1>1, <1>2 DEF PartialSums
<1>4. ASSUME NEW s \in SUBSET S, NEW x \in s, s \ {x} \in P PROVE s \in P
  <2> DEFINE r == s \ {x}
  <2>1. r \in SUBSET S /\ G[r] = c * F[r]
    BY <1>4
  <2>2. F[s] = f[x] + F[r] /\ G[s] = g[x] + G[r]
    BY <1>1, <1>2 DEF PartialSums
  <2>3. F[r] \in Int
    BY <2>1, <1>1 DEF PartialSums
  <2>4. f[x] \in Int /\ g[x] = c * f[x]
    OBVIOUS
  <2> HIDE DEF r
  <2>5. c * (f[x] + F[r]) = c * f[x] + c * F[r]
    BY <2>3, <2>4
  <2> QED
    BY <2>1, <2>2, <2>4, <2>5
<1> HIDE DEF P
<1>5. \A s \in SUBSET S : s \in P
  BY <1>3, <1>4, RemovalInduction
<1>6. S \in P
  BY <1>5
<1> QED
  BY <1>1, <1>2, <1>6 DEF P, PartialSums

\* No element above c: the sum is at most their number times c.
LEMMA SumBounded ==
    ASSUME NEW f, NEW S, IsFiniteSet(S), NEW c \in Int,
           \A x \in S : f[x] \in Int /\ f[x] <= c
    PROVE  SumFunctionOnSet(f, S) <= c * Cardinality(S)
<1> DEFINE one == [x \in S |-> 1]
           all == [x \in S |-> c * one[x]]
<1>1. \A x \in S : one[x] = 1 /\ all[x] = c * one[x] /\ f[x] <= all[x] /\ all[x] \in Int
  OBVIOUS
<1> HIDE DEF one, all
<1>2. SumFunctionOnSet(f, S) <= SumFunctionOnSet(all, S)
  BY <1>1, SumMonotone
<1>3. SumFunctionOnSet(all, S) = c * SumFunctionOnSet(one, S)
  <2>1. \A x \in S : one[x] \in Int /\ all[x] = c * one[x]
    BY <1>1
  <2> QED
    BY <2>1, SumScale
<1>4. SumFunctionOnSet(one, S) = Cardinality(S)
  BY <1>1, SumOfOnes
<1> QED
  BY <1>2, <1>3, <1>4

\* A table of integers, its columns, and the sums of its rows.
IsTable(f, S, T) == \A x \in S : \A y \in T : f[x][y] \in Int
AreColumns(g, f, S, T) == \A y \in T : \A x \in S : g[y][x] = f[x][y]
AreSums(sums, f, S, T) == \A x \in S : sums[x] = SumFunctionOnSet(f[x], T)

\* The sum of a table by rows is its sum by columns.
LEMMA SumExchange ==
    ASSUME NEW S, IsFiniteSet(S), NEW T, IsFiniteSet(T), NEW f, IsTable(f, S, T),
           NEW rows, AreSums(rows, f, S, T),
           NEW column, AreColumns(column, f, S, T),
           NEW columns, AreSums(columns, column, T, S)
    PROVE  SumFunctionOnSet(rows, S) = SumFunctionOnSet(columns, T)
<1>0. /\ \A x \in S : \A y \in T : f[x][y] \in Int
      /\ \A x \in S : rows[x] = SumFunctionOnSet(f[x], T)
      /\ \A y \in T : \A x \in S : column[y][x] = f[x][y]
      /\ \A y \in T : columns[y] = SumFunctionOnSet(column[y], S)
  BY DEF IsTable, AreSums, AreColumns
<1> DEFINE C(s) == [y \in T |-> SumFunctionOnSet(column[y], s)]
           P == {s \in SUBSET S : SumFunctionOnSet(rows, s) = SumFunctionOnSet(C(s), T)}
<1>1. \A s \in SUBSET S : IsFiniteSet(s) /\ \A x \in s : IsFiniteSet(s \ {x})
  BY FS_Subset, FS_RemoveElement
<1>2. \A x \in S : rows[x] \in Int
  <2> TAKE x \in S
  <2>1. \A y \in T : f[x][y] \in Int
    BY <1>0
  <2>2. rows[x] = SumFunctionOnSet(f[x], T)
    BY <1>0
  <2> QED
    BY <2>1, <2>2, SumInt
<1>3. \A y \in T : \A x \in S : column[y][x] \in Int
  BY <1>0
<1>4. \A s \in SUBSET S : \A y \in T : C(s)[y] = SumFunctionOnSet(column[y], s)
  OBVIOUS
<1>5. \A s \in SUBSET S : \A y \in T : C(s)[y] \in Int
  <2> SUFFICES ASSUME NEW s \in SUBSET S, NEW y \in T PROVE C(s)[y] \in Int
    OBVIOUS
  <2>1. \A x \in s : column[y][x] \in Int
    BY <1>3
  <2> QED
    BY <1>1, <1>4, <2>1, SumInt
<1> HIDE DEF C
<1>6. {} \in P
  <2>1. \A y \in T : C({})[y] = 0
    BY <1>4, SumEmpty
  <2>2. SumFunctionOnSet(C({}), T) = 0
    BY <2>1, SumZero
  <2> QED
    BY <2>2, SumEmpty
<1>7. ASSUME NEW s \in SUBSET S, NEW x \in s, s \ {x} \in P PROVE s \in P
  <2> DEFINE r == s \ {x}
             h == C(s)
             g == C(r)
  <2>1. r \in SUBSET S /\ SumFunctionOnSet(rows, r) = SumFunctionOnSet(g, T)
    BY <1>7
  <2>2. SumFunctionOnSet(rows, s) = rows[x] + SumFunctionOnSet(rows, r)
    <3>1. \A z \in s : rows[z] \in Int
      BY <1>2
    <3> QED
      BY <1>1, <3>1, SumRemove
  <2>3. ASSUME NEW y \in T PROVE h[y] = f[x][y] + g[y]
    <3>1. \A z \in s : column[y][z] \in Int
      BY <1>3
    <3>2. SumFunctionOnSet(column[y], s) = column[y][x] + SumFunctionOnSet(column[y], r)
      BY <1>1, <3>1, SumRemove
    <3> QED
      BY <1>0, <1>4, <2>1, <3>2
  <2>4. \A y \in T : f[x][y] \in Int /\ g[y] \in Int /\ h[y] = f[x][y] + g[y]
    BY <1>0, <1>5, <2>1, <2>3
  <2> HIDE DEF h, g, r
  <2>5. SumFunctionOnSet(h, T) = SumFunctionOnSet(f[x], T) + SumFunctionOnSet(g, T)
    <3> DEFINE row == f[x]
    <3>1. \A y \in T : row[y] \in Int /\ g[y] \in Int /\ h[y] = row[y] + g[y]
      BY <2>4
    <3> HIDE DEF row
    <3>2. SumFunctionOnSet(h, T) = SumFunctionOnSet(row, T) + SumFunctionOnSet(g, T)
      BY <3>1, SumPlus
    <3> QED
      BY <3>2 DEF row
  <2>6. SumFunctionOnSet(rows, s) = SumFunctionOnSet(h, T)
    BY <1>0, <2>1, <2>2, <2>5
  <2> QED
    BY <2>6 DEF h
<1> HIDE DEF P
<1>8. \A s \in SUBSET S : s \in P
  BY <1>6, <1>7, RemovalInduction
<1>9. SumFunctionOnSet(rows, S) = SumFunctionOnSet(C(S), T)
  BY <1>8 DEF P
<1>10. SumFunctionOnSet(C(S), T) = SumFunctionOnSet(columns, T)
  <2>1. \A y \in T : C(S)[y] \in Int /\ C(S)[y] = columns[y]
    BY <1>0, <1>4, <1>5
  <2> DEFINE c == C(S)
  <2>2. \A y \in T : c[y] \in Int /\ c[y] = columns[y]
    BY <2>1
  <2> HIDE DEF c
  <2>3. SumFunctionOnSet(c, T) = SumFunctionOnSet(columns, T)
    BY <2>2, SumCongruence
  <2> QED
    BY <2>3 DEF c
<1> QED
  BY <1>9, <1>10
-----------------------------------------------------------------------------
(* The largest of finitely many *)

\* A function takes its largest value on a finite set.
LEMMA LargestExists ==
    ASSUME NEW f, NEW S, IsFiniteSet(S), S # {}, \A x \in S : f[x] \in Int
    PROVE  \E x \in S : \A y \in S : f[y] <= f[x]
<1> DEFINE P == {s \in SUBSET S : s # {} => \E x \in s : \A y \in s : f[y] <= f[x]}
<1>1. {} \in P
  OBVIOUS
<1>2. ASSUME NEW s \in SUBSET S, NEW z \in s, s \ {z} \in P PROVE s \in P
  <2>1. CASE s = {z}
    BY <2>1
  <2>2. CASE s # {z}
    <3>1. PICK x \in s \ {z} : \A y \in s \ {z} : f[y] <= f[x]
      BY <1>2, <2>2
    <3>2. f[x] \in Int /\ f[z] \in Int /\ \A y \in s : f[y] \in Int
      BY <3>1
    <3>3. CASE f[z] <= f[x]
      BY <3>1, <3>3
    <3>4. CASE f[x] <= f[z]
      BY <3>1, <3>2, <3>4
    <3> QED
      BY <3>2, <3>3, <3>4
  <2> QED
    BY <2>1, <2>2
<1> HIDE DEF P
<1>3. \A s \in SUBSET S : s \in P
  BY <1>1, <1>2, RemovalInduction
<1> QED
  BY <1>3 DEF P
-----------------------------------------------------------------------------
(* The node *)

\* Its processes are finitely many.
LEMMA ProcessesFinite == /\ IsFiniteSet(Ranks)
                         /\ \A members \in SUBSET Ranks : IsFiniteSet(members)
<1>1. IsFiniteSet(Ranks)
  BY TopologyAssumption, FS_Interval DEF Ranks
<1> QED
  BY <1>1, FS_Subset

\* A node has cores, and a socket has no more of them than the node.
LEMMA CoresPositive == /\ NumCores \in Nat \ {0}
                       /\ CoresPerSocket <= NumCores
<1> SUFFICES ASSUME NEW a \in Nat \ {0}, NEW b \in Nat \ {0}
             PROVE  a * b \in Nat \ {0} /\ b <= a * b
  BY TopologyAssumption DEF NumCores
<1>1. (a - 1) * b >= 0
  OBVIOUS
<1>2. a * b = (a - 1) * b + b
  OBVIOUS
<1> QED
  BY <1>1, <1>2

-----------------------------------------------------------------------------
(* The order of the processes *)

Requests == [Ranks -> Nat]

\* A process comes before exactly those of a higher position, and every position
\* up to the number of processes is that of one of them.
LEMMA Positions ==
    ASSUME NEW threads \in Requests
    PROVE  /\ \A p \in Ranks : Position(threads, p) \in 1 .. NumProcs
           /\ \A k \in 1 .. NumProcs : \E p \in Ranks : Position(threads, p) = k
           /\ \A p, q \in Ranks : Before(threads, p, q)
                                   <=> Position(threads, p) < Position(threads, q)
           /\ \A p, q \in Ranks : Position(threads, p) = Position(threads, q) => p = q
<1> DEFINE B(p) == {q \in Ranks : Before(threads, q, p)}
           f == [p \in Ranks |-> Position(threads, p)]
<1>1. /\ IsFiniteSet(Ranks) /\ Cardinality(Ranks) = NumProcs
      /\ IsFiniteSet(1 .. NumProcs) /\ Cardinality(1 .. NumProcs) = NumProcs
      /\ Ranks \subseteq Nat /\ NumProcs \in Nat \ {0}
  <2>1. NumProcs \in Nat \ {0} /\ 0 \in Int /\ NumProcs - 1 \in Int /\ 1 \in Int
    BY TopologyAssumption
  <2>2. /\ IsFiniteSet(0 .. NumProcs - 1) /\ IsFiniteSet(1 .. NumProcs)
        /\ Cardinality(0 .. NumProcs - 1) = NumProcs
        /\ Cardinality(1 .. NumProcs) = NumProcs
    BY <2>1, FS_Interval
  <2> QED
    BY <2>1, <2>2 DEF Ranks
<1>2. /\ \A p \in Ranks : IsFiniteSet(B(p)) /\ Cardinality(B(p)) \in Nat
      /\ \A p \in Ranks : Position(threads, p) = 1 + Cardinality(B(p))
  BY <1>1, FS_Subset, FS_CardinalityType DEF Position
<1>3. \A p \in Ranks : threads[p] \in Nat /\ p \in Nat
  BY <1>1 DEF Requests
<1>4. \A p, q \in Ranks : p = q \/ Before(threads, p, q) \/ Before(threads, q, p)
  BY <1>3 DEF Before
<1>5. ASSUME NEW p \in Ranks PROVE Position(threads, p) \in 1 .. NumProcs
  <2>1. B(p) \subseteq Ranks \ {p}
    BY <1>3 DEF Before
  <2>2. IsFiniteSet(Ranks \ {p}) /\ Cardinality(Ranks \ {p}) = NumProcs - 1
    BY <1>1, FS_RemoveElement
  <2>3. Cardinality(B(p)) <= NumProcs - 1
    BY <2>1, <2>2, FS_Subset
  <2> HIDE DEF B
  <2> QED
    BY <1>1, <1>2, <2>3
<1>6. ASSUME NEW p \in Ranks, NEW q \in Ranks, Before(threads, p, q)
      PROVE  Position(threads, p) < Position(threads, q)
  <2>1. B(p) \cup {p} \subseteq B(q) /\ p \notin B(p)
    <3>1. ASSUME NEW x \in Ranks, Before(threads, x, p)
          PROVE  Before(threads, x, q)
      BY <1>3, <1>6, <3>1 DEF Before
    <3>2. ~Before(threads, p, p)
      BY <1>3 DEF Before
    <3> QED
      BY <1>6, <3>1, <3>2
  <2>2. Cardinality(B(p) \cup {p}) = Cardinality(B(p)) + 1
    BY <1>2, <2>1, FS_AddElement
  <2>3. Cardinality(B(p) \cup {p}) <= Cardinality(B(q))
    BY <1>2, <2>1, FS_Subset
  <2> HIDE DEF B
  <2> QED
    BY <1>2, <2>2, <2>3
<1> HIDE DEF B
<1>7. \A p, q \in Ranks :
          /\ Position(threads, p) \in Int
          /\ Before(threads, p, q) <=> Position(threads, p) < Position(threads, q)
          /\ Position(threads, p) = Position(threads, q) => p = q
  BY <1>4, <1>5, <1>6
<1>8. f \in Injection(Ranks, 1 .. NumProcs)
  BY <1>5, <1>7 DEF Injection, IsInjective
<1>9. f \in Surjection(Ranks, 1 .. NumProcs)
  <2> HIDE DEF f
  <2> QED
    BY <1>1, <1>8, FS_Injection
<1>10. \A k \in 1 .. NumProcs : \E p \in Ranks : f[p] = k
  BY <1>9 DEF Surjection
<1> QED
  BY <1>5, <1>7, <1>10

\* The process a node places next.
NextOf(threads, node) ==
    CHOOSE p \in Ranks : Position(threads, p) = Len(node.placed) + 1

\* It is the one of the first free position.
LEMMA NextInOrder ==
    ASSUME NEW threads \in Requests, NEW node \in Node, Len(node.placed) < NumProcs
    PROVE  /\ NextOf(threads, node) \in Ranks
           /\ Position(threads, NextOf(threads, node)) = Len(node.placed) + 1
<1>1. Len(node.placed) + 1 \in 1 .. NumProcs
  BY TopologyAssumption DEF Node
<1>2. \E p \in Ranks : Position(threads, p) = Len(node.placed) + 1
  BY <1>1, Positions
<1> QED
  BY <1>2 DEF NextOf
-----------------------------------------------------------------------------
(* The search *)

\* What a node and its child on a socket have to do with each other.
IsChild(child, node, threads, s) ==
    LET left == node.free[s] - threads[NextOf(threads, node)]
    IN  /\ child \in Node
        /\ left \in Int
        /\ child.placed = Append(node.placed, s)
        /\ Len(child.placed) = Len(node.placed) + 1
        /\ child.free = [node.free EXCEPT ![s] = left]
        /\ child.norme = IF left > 0 THEN node.norme
                         ELSE IF node.norme = IntMin THEN left ELSE node.norme + left
        /\ child.min = node.min
        /\ child.best = NoBest

\* A child has one process more, the next one, on the socket.
LEMMA ChildIsNext ==
    ASSUME NEW threads \in Requests, NEW prevSocket, NEW node \in Node,
           Len(node.placed) < NumProcs, NEW s \in Sockets
    PROVE  IsChild(Child(node, threads, prevSocket, s), node, threads, s)
<1> DEFINE child == Child(node, threads, prevSocket, s)
           p     == NextOf(threads, node)
           left  == node.free[s] - threads[p]
           norme == IF left > 0 THEN node.norme
                    ELSE IF node.norme = IntMin THEN left ELSE node.norme + left
           changes == IF prevSocket[p] = s THEN node.changes ELSE node.changes + 1
<1>1. p \in Ranks /\ threads[p] \in Nat
  BY NextInOrder DEF Requests
<1>2. /\ node = [min |-> node.min, norme |-> node.norme, changes |-> node.changes,
                 free |-> node.free, placed |-> node.placed, best |-> node.best,
                 bestChanges |-> node.bestChanges]
      /\ node.min \in Int /\ node.norme \in Int /\ node.changes \in Int
      /\ node.free \in [Sockets -> Int] /\ node.placed \in Seq(Sockets)
      /\ node.best \in Seq(Sockets) /\ node.bestChanges \in Int
  BY DEF Node
<1>3. left \in Int /\ node.free[s] \in Int
  BY <1>1, <1>2
<1>4. child = [node EXCEPT !.free[s] = left, !.placed = Append(node.placed, s),
                           !.changes = changes, !.norme = norme, !.best = NoBest,
                           !.bestChanges = 0]
  BY Zenon DEF Child, NextOf
<1> HIDE DEF p, left, child
<1>5. /\ norme \in Int /\ changes \in Int
      /\ [node.free EXCEPT ![s] = left] \in [Sockets -> Int]
      /\ Append(node.placed, s) \in Seq(Sockets) /\ NoBest \in Seq(Sockets)
      /\ Len(Append(node.placed, s)) = Len(node.placed) + 1
  BY <1>2, <1>3 DEF NoBest
<1>6. norme = IF left > 0 THEN node.norme
              ELSE IF node.norme = IntMin THEN left ELSE node.norme + left
  OBVIOUS
<1> HIDE DEF norme, changes
<1>7. child.placed = Append(node.placed, s) /\ child.norme = norme /\ child.best = NoBest
      /\ child.min = node.min
  BY <1>4 DEF Node
<1>8. child.free = [node.free EXCEPT ![s] = left]
  BY <1>4 DEF Node
<1>9. child \in Node
  <2>1. child.changes = changes /\ child.bestChanges = 0
    BY <1>4 DEF Node
  <2> DEFINE free == [node.free EXCEPT ![s] = left]
             all  == Append(node.placed, s)
  <2>2. child = [min |-> node.min, norme |-> norme, changes |-> changes, free |-> free,
                 placed |-> all, best |-> NoBest, bestChanges |-> 0]
    BY <1>2, <1>4, Zenon
  <2>3. free \in [Sockets -> Int] /\ all \in Seq(Sockets) /\ 0 \in Int
    BY <1>5
  <2> HIDE DEF free, all
  <2> QED
    BY <1>2, <1>5, <2>2, <2>3 DEF Node
<1> QED
  BY <1>3, <1>5, <1>6, <1>7, <1>8, <1>9 DEF p, left, child, IsChild

\* The branch below a socket, and the next one, given what was explored below.
Below(threads, prevSocket, branch) ==
    [node |-> Child(branch.node, threads, prevSocket, branch.from), from |-> 0]

Offered(threads, prevSocket, branch, explored) ==
    LET child == Child(branch.node, threads, prevSocket, branch.from)
    IN  IF branch.node.free[branch.from] < 0 THEN branch.node
        ELSE IF Pruned(branch.node, child) THEN branch.node
        ELSE IF IsLeaf(child) THEN OfferLeaf(branch.node, child)
        ELSE OfferSubtree(branch.node, explored)

Beside(threads, prevSocket, branch, explored) ==
    [node |-> Offered(threads, prevSocket, branch, explored), from |-> branch.from + 1]

\* The subtree below a socket is explored.
GoesBelow(threads, prevSocket, branch) ==
    /\ ~(branch.node.free[branch.from] < 0)
    /\ ~Pruned(branch.node, Below(threads, prevSocket, branch).node)
    /\ ~IsLeaf(Below(threads, prevSocket, branch).node)

\* A function from branches to nodes that satisfies the search's definition.
IsExploring(g, threads, prevSocket) ==
    g = [branch \in Branch |->
            IF branch.from = NumSockets THEN branch.node
            ELSE g[Beside(threads, prevSocket, branch, g[Below(threads, prevSocket, branch)])]]

AtRoot == [node |-> Root, from |-> 0]

\* The search is some function with that definition.
LEMMA ExploreUnfolded ==
    ASSUME NEW threads, NEW prevSocket
    PROVE  Explore(threads, prevSocket)
             = (CHOOSE g : IsExploring(g, threads, prevSocket))[AtRoot]
BY Zenon DEF Explore, IsExploring, Beside, Below, Offered, AtRoot

\* A branch, and the branch below it.
LEMMA BelowFacts ==
    ASSUME NEW threads \in Requests, NEW prevSocket, NEW branch \in Branch,
           branch.from # NumSockets
    PROVE  /\ branch.node \in Node /\ Len(branch.node.placed) < NumProcs
           /\ branch.from \in Sockets
           /\ Below(threads, prevSocket, branch).node \in Node
           /\ Below(threads, prevSocket, branch).node
                = Child(branch.node, threads, prevSocket, branch.from)
           /\ Len(Below(threads, prevSocket, branch).node.placed)
                = Len(branch.node.placed) + 1
           /\ IsChild(Below(threads, prevSocket, branch).node, branch.node, threads,
                      branch.from)
           /\ GoesBelow(threads, prevSocket, branch)
                => Below(threads, prevSocket, branch) \in Branch
<1>1. branch.node \in Node /\ Len(branch.node.placed) < NumProcs
      /\ branch.from \in Sockets
  BY TopologyAssumption DEF Branch, Sockets
<1> DEFINE child == Child(branch.node, threads, prevSocket, branch.from)
<1>2. /\ child \in Node /\ Len(child.placed) = Len(branch.node.placed) + 1
      /\ IsChild(child, branch.node, threads, branch.from)
  <2> DEFINE node == branch.node
             s    == branch.from
  <2>1. node \in Node /\ Len(node.placed) < NumProcs /\ s \in Sockets
    BY <1>1
  <2> HIDE DEF node, s
  <2>2. IsChild(Child(node, threads, prevSocket, s), node, threads, s)
    BY <2>1, ChildIsNext
  <2> QED
    BY <2>2 DEF IsChild, node, s
<1>3. Below(threads, prevSocket, branch) = [node |-> child, from |-> 0]
  BY DEF Below
<1> HIDE DEF child
<1>4. Len(child.placed) \in Nat /\ Len(branch.node.placed) \in Nat
  BY <1>1, <1>2 DEF Node
<1>5. Below(threads, prevSocket, branch).node = child
  BY <1>3
<1>6. GoesBelow(threads, prevSocket, branch) => Len(child.placed) < NumProcs
  BY <1>1, <1>2, <1>4, <1>5, TopologyAssumption DEF GoesBelow, IsLeaf
<1>7. GoesBelow(threads, prevSocket, branch)
        => Below(threads, prevSocket, branch) \in Branch
  BY <1>2, <1>3, <1>6, TopologyAssumption DEF Branch
<1> QED
  BY <1>1, <1>2, <1>5, <1>7 DEF child

\* What a node takes over from a leaf or from a subtree: its candidate.
LEMMA OfferedFacts ==
    ASSUME NEW threads \in Requests, NEW prevSocket, NEW branch \in Branch,
           branch.from # NumSockets, NEW explored,
           GoesBelow(threads, prevSocket, branch) => explored \in Node
    PROVE  LET node == branch.node
               next == Offered(threads, prevSocket, branch, explored)
           IN  /\ next \in Node
               /\ next.placed = node.placed /\ next.free = node.free
               /\ next.norme = node.norme
               /\ Beside(threads, prevSocket, branch, explored) \in Branch
<1> DEFINE node  == branch.node
           child == Below(threads, prevSocket, branch).node
           next  == Offered(threads, prevSocket, branch, explored)
           Same(n) == /\ n \in Node /\ n.placed = node.placed /\ n.free = node.free
                      /\ n.norme = node.norme
<1>1. node \in Node /\ Len(node.placed) < NumProcs /\ child \in Node
      /\ branch.from \in Sockets
  BY BelowFacts
<1>2. Same(node)
  BY <1>1
<1>3. Same(OfferLeaf(node, child))
  <2> HIDE DEF node, child
  <2> QED
    BY <1>1 DEF OfferLeaf, Node
<1>4. ASSUME explored \in Node PROVE Same(OfferSubtree(node, explored))
  <2> HIDE DEF node, child
  <2> QED
    BY <1>1, <1>4 DEF OfferSubtree, Node
<1>5. Same(next)
  <2> HIDE DEF Same
  <2> QED
    BY <1>2, <1>3, <1>4, BelowFacts DEF Offered, GoesBelow
<1>6. Beside(threads, prevSocket, branch, explored)
        = [node |-> next, from |-> branch.from + 1]
  BY DEF Beside
<1>7. branch.from + 1 \in 0 .. NumSockets
  BY <1>1, TopologyAssumption DEF Sockets
<1> HIDE DEF next
<1>8. [node |-> next, from |-> branch.from + 1] \in Branch
  BY <1>1, <1>5, <1>7 DEF Branch
<1> QED
  BY <1>5, <1>6, <1>8 DEF next

\* How much is left to search: levels, then sockets.
BranchSize(branch) ==
    (NumProcs - Len(branch.node.placed)) * (NumSockets + 1) + (NumSockets - branch.from)

\* What is below a branch, or beside it, is smaller.
LEMMA BranchSizeDecreases ==
    ASSUME NEW threads \in Requests, NEW prevSocket, NEW branch \in Branch
    PROVE  /\ BranchSize(branch) \in Nat
           /\ branch.from # NumSockets /\ GoesBelow(threads, prevSocket, branch) =>
                BranchSize(Below(threads, prevSocket, branch)) < BranchSize(branch)
           /\ branch.from # NumSockets => \A explored :
                (GoesBelow(threads, prevSocket, branch) => explored \in Node) =>
                  BranchSize(Beside(threads, prevSocket, branch, explored))
                    < BranchSize(branch)
<1> DEFINE k == Len(branch.node.placed)
           a == NumProcs - k
           b == NumSockets + 1
<1>1. k \in Nat /\ k < NumProcs /\ a \in Nat /\ a >= 1 /\ b \in Nat
      /\ branch.from \in 0 .. NumSockets
  BY TopologyAssumption DEF Branch, Node
<1>2. a * b \in Nat /\ (a - 1) * b = a * b - b
  <2> HIDE DEF a, b
  <2> QED
    BY <1>1
<1>3. BranchSize(branch) = a * b + (NumSockets - branch.from)
  BY DEF BranchSize
<1>4. ASSUME branch.from # NumSockets, GoesBelow(threads, prevSocket, branch)
      PROVE  BranchSize(Below(threads, prevSocket, branch)) < BranchSize(branch)
  <2>1. Len(Below(threads, prevSocket, branch).node.placed) = k + 1
    BY <1>4, BelowFacts
  <2>2. NumProcs - (k + 1) = a - 1
    BY <1>1, TopologyAssumption
  <2>3. BranchSize(Below(threads, prevSocket, branch))
          = (NumProcs - (k + 1)) * b + (NumSockets - 0)
    BY <2>1 DEF BranchSize, Below
  <2> DEFINE m == a * b
             n == (a - 1) * b
  <2>4. BranchSize(Below(threads, prevSocket, branch)) = n + NumSockets
    BY <2>2, <2>3, TopologyAssumption
  <2>5. n = m - b /\ m \in Nat /\ BranchSize(branch) = m + (NumSockets - branch.from)
    BY <1>2, <1>3
  <2> HIDE DEF a, m, n
  <2> QED
    BY <1>1, <1>4, <2>4, <2>5, TopologyAssumption
<1>5. ASSUME branch.from # NumSockets, NEW explored,
             GoesBelow(threads, prevSocket, branch) => explored \in Node
      PROVE  BranchSize(Beside(threads, prevSocket, branch, explored)) < BranchSize(branch)
  <2>1. Beside(threads, prevSocket, branch, explored).node.placed = branch.node.placed
    BY <1>5, OfferedFacts DEF Beside
  <2>2. BranchSize(Beside(threads, prevSocket, branch, explored))
          = a * b + (NumSockets - (branch.from + 1))
    BY <2>1 DEF BranchSize, Beside
  <2> DEFINE m == a * b
  <2>3. /\ m \in Nat /\ BranchSize(branch) = m + (NumSockets - branch.from)
        /\ BranchSize(Beside(threads, prevSocket, branch, explored))
             = m + (NumSockets - (branch.from + 1))
    BY <1>2, <1>3, <2>2
  <2> HIDE DEF m
  <2> QED
    BY <1>1, <2>3, TopologyAssumption
<1>6. BranchSize(branch) \in Nat
  <2> DEFINE m == a * b
  <2>1. m \in Nat /\ BranchSize(branch) = m + (NumSockets - branch.from)
    BY <1>2, <1>3
  <2> HIDE DEF m
  <2> QED
    BY <1>1, <2>1, TopologyAssumption
<1> QED
  BY <1>4, <1>5, <1>6

\* Where the search starts.
LEMMA AtRootFacts == /\ Root \in Node /\ AtRoot \in Branch
                    /\ AtRoot.node = Root /\ AtRoot.from = 0
<1>1. [s \in Sockets |-> CoresPerSocket] \in [Sockets -> Int]
  BY TopologyAssumption
<1>2. Root \in Node
  BY <1>1 DEF Root, Node, NoBest, IntMin
<1>3. Len(Root.placed) = 0
  BY DEF Root
<1> QED
  BY <1>2, <1>3, TopologyAssumption DEF AtRoot, Branch

\* Without anything explored below, what is beside a branch is the same
\* whatever it would be.
LEMMA NothingBelow ==
    ASSUME NEW threads \in Requests, NEW prevSocket, NEW branch \in Branch,
           branch.from # NumSockets, ~GoesBelow(threads, prevSocket, branch),
           NEW e, NEW f
    PROVE  Beside(threads, prevSocket, branch, e) = Beside(threads, prevSocket, branch, f)
<1>1. Below(threads, prevSocket, branch).node
        = Child(branch.node, threads, prevSocket, branch.from)
  BY BelowFacts
<1> QED
  BY <1>1 DEF Beside, Offered, GoesBelow

\* The search is defined: there is a function with its definition.
LEMMA ExploreExists ==
    ASSUME NEW threads \in Requests, NEW prevSocket
    PROVE  \E g \in [Branch -> Node] : IsExploring(g, threads, prevSocket)
<1> DEFINE mu   == [b \in Branch |-> BranchSize(b)]
           body == [y \in Branch \X [Branch -> Node] |->
                      IF y[1].from = NumSockets THEN y[1].node
                      ELSE y[2][Beside(threads, prevSocket, y[1],
                                       y[2][Below(threads, prevSocket, y[1])])]]
<1>1. \A b \in Branch : \A g \in [Branch -> Node] :
          body[<<b, g>>] = IF b.from = NumSockets THEN b.node
                           ELSE g[Beside(threads, prevSocket, b,
                                         g[Below(threads, prevSocket, b)])]
  OBVIOUS
<1>2. \A b \in Branch : mu[b] = BranchSize(b) /\ mu[b] \in Nat
  BY BranchSizeDecreases
<1> HIDE DEF mu, body
<1>3. ASSUME NEW b \in Branch, NEW g \in [Branch -> Node], b.from # NumSockets
      PROVE  Beside(threads, prevSocket, b, g[Below(threads, prevSocket, b)]) \in Branch
  <2>1. GoesBelow(threads, prevSocket, b) => g[Below(threads, prevSocket, b)] \in Node
    BY <1>3, BelowFacts
  <2> QED
    BY <1>3, <2>1, OfferedFacts
<1>4. \A b \in Branch : \A g \in [Branch -> Node] : body[<<b, g>>] \in Node
  <2> SUFFICES ASSUME NEW b \in Branch, NEW g \in [Branch -> Node]
               PROVE  body[<<b, g>>] \in Node
    OBVIOUS
  <2>1. CASE b.from = NumSockets
    BY <1>1, <2>1 DEF Branch
  <2>2. CASE b.from # NumSockets
    BY <1>1, <1>3, <2>2
  <2> QED
    BY <2>1, <2>2
<1>5. ASSUME NEW b \in Branch, NEW g \in [Branch -> Node], NEW h \in [Branch -> Node],
             \A c \in Branch : mu[c] < mu[b] => g[c] = h[c]
      PROVE  body[<<b, g>>] = body[<<b, h>>]
  <2>1. CASE b.from = NumSockets
    BY <1>1, <2>1
  <2>2. CASE b.from # NumSockets
    <3> DEFINE c == Below(threads, prevSocket, b)
    <3>1. Beside(threads, prevSocket, b, g[c]) = Beside(threads, prevSocket, b, h[c])
      <4>1. CASE GoesBelow(threads, prevSocket, b)
        <5>1. c \in Branch
          BY <2>2, <4>1, BelowFacts
        <5>2. BranchSize(c) < BranchSize(b)
          BY <2>2, <4>1, BranchSizeDecreases
        <5>3. g[c] = h[c]
          BY <1>2, <1>5, <5>1, <5>2
        <5> QED
          BY <5>3
      <4>2. CASE ~GoesBelow(threads, prevSocket, b)
        BY <2>2, <4>2, NothingBelow
      <4> QED
        BY <4>1, <4>2
    <3>2. GoesBelow(threads, prevSocket, b) => g[c] \in Node
      BY <2>2, BelowFacts
    <3> DEFINE d == Beside(threads, prevSocket, b, g[c])
    <3>3. d \in Branch
      BY <1>3, <2>2
    <3>4. BranchSize(d) < BranchSize(b)
      BY <2>2, <3>2, BranchSizeDecreases
    <3>5. g[d] = h[d]
      <4> HIDE DEF d
      <4> QED
        BY <1>2, <1>5, <3>3, <3>4
    <3>6. body[<<b, g>>] = g[d] /\ body[<<b, h>>] = h[d]
      BY <1>1, <2>2, <3>1
    <3> QED
      BY <3>5, <3>6
  <2> QED
    BY <2>1, <2>2
<1>6. Node # {}
  BY AtRootFacts
<1>7. IsRecursion(Branch, Node, mu, body)
  BY <1>2, <1>4, <1>5, <1>6 DEF IsRecursion
<1>8. PICK g \in [Branch -> Node] : \A b \in Branch : g[b] = body[<<b, g>>]
  BY <1>7, RecursionExists
<1>9. IsExploring(g, threads, prevSocket)
  <2>1. \A b \in Branch : g[b] = IF b.from = NumSockets THEN b.node
                           ELSE g[Beside(threads, prevSocket, b,
                                         g[Below(threads, prevSocket, b)])]
    BY <1>1, <1>8
  <2>2. g = [b \in Branch |-> g[b]]
    OBVIOUS
  <2> QED
    BY <2>1, <2>2, Zenon DEF IsExploring
<1> QED
  BY <1>9

\* What holds of a node whose sockets have all been tried, and of a branch when
\* it holds of what is below and of what is beside it.
IsSearchInvariant(P, threads, prevSocket) ==
    /\ \A b \in Branch : b.from = NumSockets => <<b, b.node>> \in P
    /\ \A b \in Branch : \A e, r \in Node :
        (/\ b.from # NumSockets
         /\ GoesBelow(threads, prevSocket, b) => <<Below(threads, prevSocket, b), e>> \in P
         /\ <<Beside(threads, prevSocket, b, e), r>> \in P)
            => <<b, r>> \in P

\* It holds of the whole search.
LEMMA ExploreRule ==
    ASSUME NEW threads \in Requests, NEW prevSocket, NEW P,
           IsSearchInvariant(P, threads, prevSocket)
    PROVE  /\ Explore(threads, prevSocket) \in Node
           /\ <<AtRoot, Explore(threads, prevSocket)>> \in P
<1> DEFINE g == CHOOSE g : IsExploring(g, threads, prevSocket)
<1>1. IsExploring(g, threads, prevSocket)
  BY ExploreExists
<1>2. Explore(threads, prevSocket) = g[AtRoot]
  BY ExploreUnfolded
<1> HIDE DEF g
<1>3. \A b \in Branch : g[b] = IF b.from = NumSockets THEN b.node
                         ELSE g[Beside(threads, prevSocket, b,
                                       g[Below(threads, prevSocket, b)])]
  BY <1>1, Zenon DEF IsExploring
<1> DEFINE Q  == {b \in Branch : g[b] \in Node /\ <<b, g[b]>> \in P}
           mu == [b \in Branch |-> BranchSize(b)]
<1>4. \A b \in Branch : mu[b] \in Nat /\ mu[b] = BranchSize(b)
  BY BranchSizeDecreases
<1>5. ASSUME NEW b \in Branch, \A c \in Branch : mu[c] < mu[b] => c \in Q
      PROVE  b \in Q
  <2>1. CASE b.from = NumSockets
    BY <1>3, <2>1 DEF Branch, IsSearchInvariant
  <2>2. CASE b.from # NumSockets
    <3> DEFINE c == Below(threads, prevSocket, b)
               e == IF GoesBelow(threads, prevSocket, b) THEN g[c] ELSE Root
               d == Beside(threads, prevSocket, b, e)
    <3>1. GoesBelow(threads, prevSocket, b) => c \in Q
      <4> SUFFICES ASSUME GoesBelow(threads, prevSocket, b) PROVE c \in Q
        OBVIOUS
      <4>1. c \in Branch
        BY <2>2, BelowFacts
      <4>2. BranchSize(c) < BranchSize(b)
        BY <2>2, BranchSizeDecreases
      <4> HIDE DEF Q, c
      <4> QED
        BY <1>4, <1>5, <4>1, <4>2
    <3>2. e \in Node
      BY <3>1, AtRootFacts
    <3>3. d = Beside(threads, prevSocket, b, g[c])
      BY <2>2, NothingBelow
    <3>4. d \in Branch
      BY <2>2, <3>2, OfferedFacts
    <3>5. BranchSize(d) < BranchSize(b)
      BY <2>2, <3>2, BranchSizeDecreases
    <3>6. d \in Q
      <4> HIDE DEF Q, d
      <4> QED
        BY <1>4, <1>5, <3>4, <3>5
    <3>7. g[b] = g[d]
      BY <1>3, <2>2, <3>3
    <3>8. GoesBelow(threads, prevSocket, b) => <<c, e>> \in P
      BY <3>1
    <3>9. g[d] \in Node /\ <<d, g[d]>> \in P
      BY <3>6
    <3> HIDE DEF c, e, Q
    <3>10. <<b, g[d]>> \in P
      BY <2>2, <3>2, <3>8, <3>9 DEF IsSearchInvariant, c
    <3> QED
      BY <3>7, <3>9, <3>10 DEF Q
  <2> QED
    BY <2>1, <2>2
<1>6. \A b \in Branch : b \in Q
  <2> HIDE DEF Q, mu
  <2> QED
    BY <1>4, <1>5, MeasureInduction
<1> QED
  BY <1>2, <1>6, AtRootFacts
-----------------------------------------------------------------------------
(* What the search keeps true *)

\* The processes a node has placed, and those it has placed on a socket.
Done(threads, node) == {p \in Ranks : Position(threads, p) <= Len(node.placed)}

PlacedOn(threads, node, s) ==
    {p \in Done(threads, node) : node.placed[Position(threads, p)] = s}

\* Those placed before p on the socket of p.
Ahead(threads, placed, p) ==
    {q \in Ranks : /\ Before(threads, q, p)
                   /\ placed[Position(threads, q)] = placed[Position(threads, p)]}

\* No process was placed on a socket already over-committed.
Orderly(threads, placed) ==
    \A p \in Ranks : Position(threads, p) <= Len(placed) =>
        SumFunctionOnSet(threads, Ahead(threads, placed, p)) <= CoresPerSocket

\* The cores free are those nobody placed there has.
Accounted(threads, node) ==
    /\ \A s \in Sockets : node.free[s]
         = CoresPerSocket - SumFunctionOnSet(threads, PlacedOn(threads, node, s))
    /\ Orderly(threads, node.placed)

\* The parts of the node's processes are finite sets, with a natural for a sum.
LEMMA PartSums ==
    ASSUME NEW threads \in Requests, NEW part \in SUBSET Ranks
    PROVE  /\ IsFiniteSet(part) /\ \A p \in part : threads[p] \in Nat /\ threads[p] \in Int
           /\ SumFunctionOnSet(threads, part) \in Nat
<1>1. IsFiniteSet(part) /\ \A p \in part : threads[p] \in Nat /\ threads[p] \in Int
  BY ProcessesFinite DEF Requests
<1> QED
  BY <1>1, SumNat

\* Nothing is placed at first.
LEMMA RootAccounted ==
    ASSUME NEW threads \in Requests
    PROVE  Done(threads, Root) = {} /\ Accounted(threads, Root)
<1>1. Len(Root.placed) = 0 /\ \A s \in Sockets : Root.free[s] = CoresPerSocket
  BY DEF Root
<1>2. \A p \in Ranks : Position(threads, p) \in 1 .. NumProcs
  BY Positions
<1>3. \A p \in Ranks : ~(Position(threads, p) <= Len(Root.placed))
  BY <1>1, <1>2, TopologyAssumption
<1>4. Done(threads, Root) = {} /\ \A s \in Sockets : PlacedOn(threads, Root, s) = {}
  BY <1>3 DEF Done, PlacedOn
<1>5. SumFunctionOnSet(threads, {}) = 0
  BY SumEmpty
<1>6. Orderly(threads, Root.placed)
  BY <1>3 DEF Orderly
<1>7. \A s \in Sockets : Root.free[s]
        = CoresPerSocket - SumFunctionOnSet(threads, PlacedOn(threads, Root, s))
  <2> SUFFICES ASSUME NEW s \in Sockets
               PROVE  Root.free[s]
                        = CoresPerSocket - SumFunctionOnSet(threads, PlacedOn(threads, Root, s))
    OBVIOUS
  <2>1. PlacedOn(threads, Root, s) = {} /\ Root.free[s] = CoresPerSocket
    BY <1>1, <1>4
  <2> QED
    BY <1>5, <2>1, TopologyAssumption
<1> QED
  BY <1>4, <1>6, <1>7 DEF Accounted

\* What a node and its child on a socket have placed.
PlacesNext(child, node, threads, s) ==
    LET next == NextOf(threads, node)
    IN  /\ next \in Ranks /\ next \notin Done(threads, node)
        /\ Done(threads, child) = Done(threads, node) \cup {next}
        /\ PlacedOn(threads, child, s) = PlacedOn(threads, node, s) \cup {next}
        /\ \A r \in Sockets \ {s} :
               PlacedOn(threads, child, r) = PlacedOn(threads, node, r)
        /\ Ahead(threads, child.placed, next) = PlacedOn(threads, node, s)
        /\ \A p \in Done(threads, node) :
               Ahead(threads, child.placed, p) = Ahead(threads, node.placed, p)

\* A child has placed the next process too, last of its socket.
LEMMA ChildPlaced ==
    ASSUME NEW threads \in Requests, NEW node \in Node, Len(node.placed) < NumProcs,
           NEW s \in Sockets, NEW child, IsChild(child, node, threads, s)
    PROVE  PlacesNext(child, node, threads, s)
<1> DEFINE next == NextOf(threads, node)
           k == Len(node.placed)
           Pos(p) == Position(threads, p)
<1>1. /\ next \in Ranks /\ Pos(next) = k + 1 /\ k \in Nat
      /\ \A p \in Ranks : Pos(p) \in Int /\ Pos(p) >= 1
      /\ \A p \in Ranks : Pos(p) = k + 1 => p = next
      /\ \A p, q \in Ranks : Before(threads, p, q) <=> Pos(p) < Pos(q)
  <2>1. next \in Ranks /\ Pos(next) = k + 1
    BY NextInOrder
  <2>2. k \in Nat
    BY DEF Node
  <2> QED
    BY <2>1, <2>2, Positions
<1>2. /\ Len(child.placed) = k + 1
      /\ child.placed[k + 1] = s
      /\ \A i \in 1 .. k : child.placed[i] = node.placed[i]
  BY DEF IsChild, Node
<1> HIDE DEF next, Pos, k
<1>3. /\ \A p \in Ranks : p \in Done(threads, node) <=> Pos(p) <= k
      /\ \A p \in Ranks : p \in Done(threads, child) <=> Pos(p) <= k + 1
      /\ Done(threads, node) \in SUBSET Ranks /\ Done(threads, child) \in SUBSET Ranks
  BY <1>2 DEF Done, Pos, k
<1>4. \A p \in Ranks : (Pos(p) <= k + 1 /\ p # next) => Pos(p) <= k
  BY <1>1
<1>5. next \notin Done(threads, node)
      /\ Done(threads, child) = Done(threads, node) \cup {next}
  BY <1>1, <1>3, <1>4
<1>6. \A p \in Done(threads, node) : Pos(p) \in 1 .. k
  BY <1>1, <1>3
<1>7. /\ \A p \in Done(threads, node) : child.placed[Pos(p)] = node.placed[Pos(p)]
      /\ child.placed[Pos(next)] = s
  BY <1>1, <1>2, <1>6
<1>8. PlacedOn(threads, child, s) = PlacedOn(threads, node, s) \cup {next}
      /\ \A r \in Sockets \ {s} : PlacedOn(threads, child, r) = PlacedOn(threads, node, r)
  BY <1>5, <1>7 DEF PlacedOn, Pos
<1>9. \A p \in Done(threads, node) : \A q \in Ranks :
          Before(threads, q, p) => q \in Done(threads, node)
  BY <1>1, <1>3
<1>10. \A q \in Ranks : Before(threads, q, next) <=> q \in Done(threads, node)
  BY <1>1, <1>3
<1>11. Ahead(threads, child.placed, next) = PlacedOn(threads, node, s)
  BY <1>3, <1>7, <1>10 DEF Ahead, PlacedOn, Pos
<1>12. \A p \in Done(threads, node) :
          Ahead(threads, child.placed, p) = Ahead(threads, node.placed, p)
  BY <1>3, <1>7, <1>9 DEF Ahead, Pos
<1> QED
  BY <1>1, <1>5, <1>8, <1>11, <1>12 DEF next, PlacesNext

\* A child on a socket that is not over-committed keeps the account.
LEMMA ChildAccounted ==
    ASSUME NEW threads \in Requests, NEW node \in Node, Len(node.placed) < NumProcs,
           NEW s \in Sockets, NEW child, IsChild(child, node, threads, s),
           Accounted(threads, node), ~(node.free[s] < 0)
    PROVE  Accounted(threads, child)
<1> DEFINE next == NextOf(threads, node)
           S(part) == SumFunctionOnSet(threads, part)
           here == PlacedOn(threads, node, s)
<1>1. /\ next \in Ranks /\ next \notin Done(threads, node)
      /\ Done(threads, child) = Done(threads, node) \cup {next}
      /\ PlacedOn(threads, child, s) = here \cup {next}
      /\ \A r \in Sockets \ {s} :
            PlacedOn(threads, child, r) = PlacedOn(threads, node, r)
      /\ Ahead(threads, child.placed, next) = here
      /\ \A p \in Done(threads, node) :
            Ahead(threads, child.placed, p) = Ahead(threads, node.placed, p)
  <2>1. PlacesNext(child, node, threads, s)
    BY ChildPlaced
  <2> QED
    BY <2>1 DEF PlacesNext
<1>2. here \in SUBSET Ranks /\ next \notin here
  BY <1>1 DEF PlacedOn, Done
<1>3. S(here \cup {next}) = threads[next] + S(here)
  <2>1. IsFiniteSet(here) /\ \A p \in here : threads[p] \in Int
    BY <1>2, PartSums
  <2>2. threads[next] \in Int
    BY <1>1 DEF Requests
  <2> HIDE DEF here, next
  <2> QED
    BY <1>2, <2>1, <2>2, SumAdd
<1>4. S(here) \in Nat /\ threads[next] \in Nat
  BY <1>1, <1>2, PartSums DEF Requests
<1>5. /\ child.free = [node.free EXCEPT ![s] = node.free[s] - threads[next]]
      /\ node.free \in [Sockets -> Int]
      /\ node.free[s] = CoresPerSocket - S(here)
  BY DEF IsChild, Accounted, Node
<1> HIDE DEF here, next, S
<1>6. ASSUME NEW r \in Sockets
      PROVE  child.free[r] = CoresPerSocket - S(PlacedOn(threads, child, r))
  <2>1. CASE r = s
    <3>1. child.free[s] = node.free[s] - threads[next]
      BY <1>5
    <3>2. child.free[s] = CoresPerSocket - S(here) - threads[next]
      BY <1>5, <3>1
    <3>3. S(PlacedOn(threads, child, s)) = threads[next] + S(here)
      BY <1>1, <1>3
    <3> QED
      BY <1>4, <2>1, <3>2, <3>3, TopologyAssumption
  <2>2. CASE r # s
    BY <1>1, <1>5, <2>2 DEF Accounted, S
  <2> QED
    BY <2>1, <2>2
<1>7. S(here) <= CoresPerSocket
  BY <1>4, <1>5, TopologyAssumption
<1>8. ASSUME NEW p \in Ranks, Position(threads, p) <= Len(child.placed)
      PROVE  S(Ahead(threads, child.placed, p)) <= CoresPerSocket
  <2>1. p \in Done(threads, node) \/ p = next
    BY <1>1, <1>8 DEF Done
  <2>2. CASE p = next
    BY <1>1, <1>7, <2>2
  <2>3. CASE p \in Done(threads, node)
    BY <1>1, <2>3 DEF Accounted, Orderly, Done, S
  <2> QED
    BY <2>1, <2>2, <2>3
<1> QED
  BY <1>6, <1>8 DEF Accounted, Orderly, S

\* What trying a socket makes of a node: nothing when the socket is already
\* over-committed or the child is pruned; when the child is a leaf, its placement
\* may become the candidate; otherwise the candidate of the subtree may.
Refused(node, child, s) ==
    \/ node.free[s] < 0
    \/ child.norme # IntMin /\ child.norme < node.min

TakesLeaf(next, node, child, s) ==
    /\ ~Refused(node, child, s) /\ IsLeaf(child)
    /\ \/ next = node /\ (child.norme < node.min \/ node.best # NoBest)
       \/ next.best = child.placed /\ next.min = child.norme /\ ~(child.norme < node.min)

TakesSubtree(next, node, explored) ==
    \/ next = node /\ node.min >= explored.min
    \/ next.best = explored.best /\ next.min = explored.min /\ ~(node.min >= explored.min)

\* There is nothing else.
LEMMA OfferedCases ==
    ASSUME NEW threads \in Requests, NEW prevSocket, NEW branch \in Branch,
           branch.from # NumSockets, NEW explored \in Node
    PROVE  LET node  == branch.node
               child == Below(threads, prevSocket, branch).node
               next  == Offered(threads, prevSocket, branch, explored)
           IN  \/ Refused(node, child, branch.from) /\ next = node
               \/ TakesLeaf(next, node, child, branch.from)
               \/ /\ ~(node.free[branch.from] < 0)
                  /\ GoesBelow(threads, prevSocket, branch)
                  /\ TakesSubtree(next, node, explored)
<1> DEFINE node  == branch.node
           child == Below(threads, prevSocket, branch).node
           next  == Offered(threads, prevSocket, branch, explored)
           s     == branch.from
<1>1. /\ node \in Node /\ child \in Node
      /\ child = Child(node, threads, prevSocket, s)
  BY BelowFacts
<1>2. next = IF node.free[s] < 0 THEN node ELSE IF Pruned(node, child) THEN node
             ELSE IF IsLeaf(child) THEN OfferLeaf(node, child)
             ELSE OfferSubtree(node, explored)
  BY <1>1 DEF Offered
<1>3. GoesBelow(threads, prevSocket, branch)
        <=> ~(node.free[s] < 0) /\ ~Pruned(node, child) /\ ~IsLeaf(child)
  BY DEF GoesBelow
<1> HIDE DEF node, child, next, s
<1>4. CASE node.free[s] < 0
  BY <1>2, <1>4 DEF Refused, node, child, next, s
<1>5. CASE ~(node.free[s] < 0) /\ Pruned(node, child)
  BY <1>2, <1>5 DEF Refused, Pruned, node, child, next, s
<1>6. CASE ~(node.free[s] < 0) /\ ~Pruned(node, child) /\ IsLeaf(child)
  <2>1. next = OfferLeaf(node, child)
    BY <1>2, <1>6
  <2>2. \/ next = node /\ (child.norme < node.min \/ node.best # NoBest)
        \/ next.best = child.placed /\ next.min = child.norme
           /\ ~(child.norme < node.min)
    BY <1>1, <2>1 DEF OfferLeaf, Node
  <2>3. ~Refused(node, child, s)
    BY <1>6 DEF Pruned, Refused
  <2>4. TakesLeaf(next, node, child, s)
    BY <1>6, <2>2, <2>3 DEF TakesLeaf
  <2> QED
    BY <2>4 DEF node, child, next, s
<1>7. CASE ~(node.free[s] < 0) /\ ~Pruned(node, child) /\ ~IsLeaf(child)
  <2>1. next = OfferSubtree(node, explored)
    BY <1>2, <1>7
  <2>2. TakesSubtree(next, node, explored)
    BY <1>1, <2>1 DEF OfferSubtree, Node, TakesSubtree
  <2>3. GoesBelow(threads, prevSocket, branch) /\ ~(node.free[s] < 0)
    BY <1>3, <1>7
  <2> QED
    BY <2>2, <2>3 DEF node, child, next, s
<1> QED
  BY <1>4, <1>5, <1>6, <1>7

\* The candidate of a node, if any, is a placement of everybody.
GoodBest(threads, node) ==
    node.best = NoBest \/ (Len(node.best) = NumProcs /\ Orderly(threads, node.best))

\* The child of a node in order is in order, unless the node refuses it; and the
\* node stays so whatever it takes over.
LEMMA OrderKept ==
    ASSUME NEW threads \in Requests, NEW prevSocket, NEW branch \in Branch,
           branch.from # NumSockets, NEW explored \in Node,
           Accounted(threads, branch.node)
    PROVE  /\ ~(branch.node.free[branch.from] < 0)
                => Accounted(threads, Below(threads, prevSocket, branch).node)
           /\ Accounted(threads, Offered(threads, prevSocket, branch, explored))
<1> DEFINE node  == branch.node
           child == Below(threads, prevSocket, branch).node
           next  == Offered(threads, prevSocket, branch, explored)
           s     == branch.from
<1>1. /\ node \in Node /\ Len(node.placed) < NumProcs /\ s \in Sockets
      /\ IsChild(child, node, threads, s) /\ Accounted(threads, node)
  BY BelowFacts
<1>2. next.placed = node.placed /\ next.free = node.free
  BY OfferedFacts
<1> HIDE DEF node, child, next, s
<1>3. Accounted(threads, next)
  <2>1. \A r \in Sockets : PlacedOn(threads, next, r) = PlacedOn(threads, node, r)
    BY <1>2 DEF PlacedOn, Done
  <2> QED
    BY <1>1, <1>2, <2>1 DEF Accounted
<1>4. ~(node.free[s] < 0) => Accounted(threads, child)
  BY <1>1, ChildAccounted
<1> QED
  BY <1>3, <1>4 DEF node, child, next, s

\* A search gives no candidate or a good one.
LEMMA ExploreGood ==
    ASSUME NEW threads \in Requests, NEW prevSocket
    PROVE  /\ Explore(threads, prevSocket) \in Node
           /\ GoodBest(threads, Explore(threads, prevSocket))
<1> DEFINE Keeps(b, r) == (Accounted(threads, b.node) /\ GoodBest(threads, b.node))
                            => GoodBest(threads, r)
           P == {x \in Branch \X Node : Keeps(x[1], x[2])}
<1>1. \A b \in Branch : \A r \in Node : <<b, r>> \in P <=> Keeps(b, r)
  OBVIOUS
<1>2. ASSUME NEW b \in Branch, NEW e \in Node, NEW r \in Node, b.from # NumSockets,
             GoesBelow(threads, prevSocket, b)
               => <<Below(threads, prevSocket, b), e>> \in P,
             <<Beside(threads, prevSocket, b, e), r>> \in P,
             Accounted(threads, b.node), GoodBest(threads, b.node)
      PROVE  GoodBest(threads, r)
  <2> DEFINE node  == b.node
             child == Below(threads, prevSocket, b).node
             next  == Offered(threads, prevSocket, b, e)
             s     == b.from
  <2>1. /\ IsChild(child, node, threads, s)
        /\ GoesBelow(threads, prevSocket, b) => Below(threads, prevSocket, b) \in Branch
        /\ Beside(threads, prevSocket, b, e) \in Branch
        /\ Beside(threads, prevSocket, b, e).node = next
    BY <1>2, BelowFacts, OfferedFacts DEF Beside
  <2>2. /\ ~(node.free[s] < 0) => Accounted(threads, child)
        /\ Accounted(threads, next)
    BY <1>2, OrderKept
  <2>3. \/ Refused(node, child, s) /\ next = node
        \/ TakesLeaf(next, node, child, s)
        \/ /\ ~(node.free[s] < 0) /\ GoesBelow(threads, prevSocket, b)
           /\ TakesSubtree(next, node, e)
    BY <1>2, OfferedCases
  <2>4. ~(node.free[s] < 0) /\ GoesBelow(threads, prevSocket, b) => GoodBest(threads, e)
    <3> SUFFICES ASSUME ~(node.free[s] < 0), GoesBelow(threads, prevSocket, b)
                 PROVE  GoodBest(threads, e)
      OBVIOUS
    <3>1. GoodBest(threads, child)
      BY <2>1 DEF IsChild, GoodBest
    <3> QED
      BY <1>1, <1>2, <2>1, <2>2, <3>1
  <2> HIDE DEF child, next, s, node
  <2>5. TakesLeaf(next, node, child, s) => GoodBest(threads, next)
    <3>1. TakesLeaf(next, node, child, s)
            => next = node \/ (next.best = child.placed /\ Len(child.placed) = NumProcs
                                /\ ~(node.free[s] < 0))
      BY DEF TakesLeaf, IsLeaf, Refused
    <3> QED
      BY <1>2, <2>2, <3>1 DEF GoodBest, Accounted, node
  <2>6. TakesSubtree(next, node, e) /\ GoodBest(threads, e) => GoodBest(threads, next)
    BY <1>2 DEF TakesSubtree, GoodBest, node
  <2>7. GoodBest(threads, next)
    BY <1>2, <2>3, <2>4, <2>5, <2>6 DEF node
  <2> QED
    BY <1>1, <1>2, <2>1, <2>2, <2>7
<1>3. \A b \in Branch : b.from = NumSockets => <<b, b.node>> \in P
  BY BelowFacts DEF Branch
<1> HIDE DEF P
<1>4. IsSearchInvariant(P, threads, prevSocket)
  BY <1>1, <1>2, <1>3 DEF IsSearchInvariant
<1>5. Accounted(threads, Root) /\ GoodBest(threads, Root)
  BY RootAccounted DEF Root, GoodBest
<1>6. Explore(threads, prevSocket) \in Node
      /\ <<AtRoot, Explore(threads, prevSocket)>> \in P
  BY <1>4, ExploreRule
<1> QED
  BY <1>1, <1>5, <1>6, AtRootFacts

\* Everybody in order is an admissible placement.
LEMMA OrderlyIsAdmissible ==
    ASSUME NEW threads \in Requests, NEW placed \in Seq(Sockets),
           Len(placed) = NumProcs, Orderly(threads, placed)
    PROVE  LET f == [p \in Ranks |-> placed[Position(threads, p)]]
           IN  f \in [Ranks -> Sockets] /\ Admissible(threads, f)
<1> DEFINE f == [p \in Ranks |-> placed[Position(threads, p)]]
<1>1. \A p \in Ranks : Position(threads, p) \in 1 .. Len(placed)
                       /\ Position(threads, p) <= Len(placed)
  BY Positions, TopologyAssumption
<1>2. f \in [Ranks -> Sockets]
  BY <1>1
<1>3. ASSUME NEW s \in Sockets, NEW p \in Ranks, f[p] = s
      PROVE  SumFunctionOnSet(threads, {q \in Ranks : f[q] = s /\ Before(threads, q, p)})
               <= CoresPerSocket
  <2>1. {q \in Ranks : f[q] = s /\ Before(threads, q, p)} = Ahead(threads, placed, p)
    BY <1>3 DEF Ahead
  <2> QED
    BY <1>1, <2>1 DEF Orderly
<1> HIDE DEF f
<1>4. Admissible(threads, f)
  BY <1>3 DEF Admissible
<1> QED
  BY <1>2, <1>4 DEF f

\* A placement that is found puts everybody on a socket, nobody on one that is
\* already over-committed.
LEMMA SolveSound ==
    ASSUME NEW threads \in Requests, NEW prevSocket, Solve(threads, prevSocket).found
    PROVE  /\ Solve(threads, prevSocket).socket \in [Ranks -> Sockets]
           /\ Admissible(threads, Solve(threads, prevSocket).socket)
<1> DEFINE best == Explore(threads, prevSocket).best
           f    == [p \in Ranks |-> best[Position(threads, p)]]
<1>1. best # NoBest
  BY DEF Solve
<1>2. best \in Seq(Sockets) /\ Len(best) = NumProcs /\ Orderly(threads, best)
  BY <1>1, ExploreGood DEF Node, GoodBest
<1>3. Solve(threads, prevSocket).socket = f
  BY <1>1 DEF Solve
<1> HIDE DEF best
<1>4. f \in [Ranks -> Sockets] /\ Admissible(threads, f)
  BY <1>2, OrderlyIsAdmissible
<1> QED
  BY <1>3, <1>4
-----------------------------------------------------------------------------
(* When the search finds nothing *)

\* The over-commitment of a node is unset while every socket has a core left,
\* and no more than what was placed otherwise.
Levelled(threads, node) ==
    /\ SumFunctionOnSet(node.free, Sockets)
         = NumCores - SumFunctionOnSet(threads, Done(threads, node))
    /\ \/ node.norme = IntMin /\ \A s \in Sockets : node.free[s] > 0
       \/ node.norme >= - SumFunctionOnSet(threads, Done(threads, node))

\* The sockets are finite.
LEMMA SocketsFinite == /\ IsFiniteSet(Sockets) /\ Cardinality(Sockets) = NumSockets
                       /\ 0 \in Sockets
<1>1. 0 \in Int /\ NumSockets - 1 \in Int /\ NumSockets \in Nat \ {0}
  BY TopologyAssumption
<1> QED
  BY <1>1, FS_Interval DEF Sockets

\* All the cores are free at first.
LEMMA RootLevelled ==
    ASSUME NEW threads \in Requests PROVE Levelled(threads, Root)
<1>1. SumFunctionOnSet(Root.free, Sockets) = NumCores
  <2> DEFINE one == [s \in Sockets |-> 1]
  <2>1. \A s \in Sockets : one[s] \in Int /\ one[s] = 1
                           /\ Root.free[s] = CoresPerSocket * one[s]
    BY TopologyAssumption DEF Root
  <2> HIDE DEF one
  <2>2. SumFunctionOnSet(one, Sockets) = NumSockets
    BY <2>1, SocketsFinite, SumOfOnes
  <2>3. SumFunctionOnSet(Root.free, Sockets) = CoresPerSocket * NumSockets
    BY <2>1, <2>2, SocketsFinite, SumScale, TopologyAssumption
  <2> QED
    BY <2>3, TopologyAssumption DEF NumCores
<1>2. SumFunctionOnSet(threads, Done(threads, Root)) = 0
  BY RootAccounted, SumEmpty
<1>3. Root.norme = IntMin /\ \A s \in Sockets : Root.free[s] > 0
  BY TopologyAssumption DEF Root
<1> QED
  BY <1>1, <1>2, <1>3, CoresPositive DEF Levelled

\* A child of a node that does not refuse it is levelled too.
LEMMA ChildLevelled ==
    ASSUME NEW threads, IsDemand(threads), NEW node \in Node, Len(node.placed) < NumProcs,
           NEW s \in Sockets, NEW child, IsChild(child, node, threads, s),
           Levelled(threads, node), ~(node.free[s] < 0)
    PROVE  Levelled(threads, child)
<1> DEFINE next == NextOf(threads, node)
           left == node.free[s] - threads[next]
           before == SumFunctionOnSet(threads, Done(threads, node))
           after == SumFunctionOnSet(threads, Done(threads, child))
           rest == SumFunctionOnSet(node.free, Sockets \ {s})
<1>1. threads \in Requests /\ \A p \in Ranks : threads[p] \in Nat \ {0}
  BY DEF IsDemand, Requests
<1>2. /\ next \in Ranks /\ next \notin Done(threads, node)
      /\ Done(threads, child) = Done(threads, node) \cup {next}
  <2>1. PlacesNext(child, node, threads, s)
    BY <1>1, ChildPlaced
  <2> QED
    BY <2>1 DEF PlacesNext
<1>3. before \in Nat /\ after = threads[next] + before
  <2>1. Done(threads, node) \in SUBSET Ranks
    BY DEF Done
  <2>2. /\ IsFiniteSet(Done(threads, node))
        /\ \A p \in Done(threads, node) : threads[p] \in Int
        /\ before \in Nat
    BY <1>1, <2>1, PartSums
  <2>3. threads[next] \in Int
    BY <1>1, <1>2
  <2> HIDE DEF next
  <2> QED
    BY <1>2, <2>2, <2>3, SumAdd
<1>4. before <= Int32Max
  <2>1. Done(threads, node) \in SUBSET Ranks /\ IsFiniteSet(Ranks)
    BY ProcessesFinite DEF Done
  <2>2. before <= SumFunctionOnSet(threads, Ranks)
    BY <1>1, <2>1, SumSubset
  <2>3. SumFunctionOnSet(threads, Ranks) \in Nat
    BY <1>1, PartSums
  <2> QED
    BY <1>3, <2>2, <2>3 DEF IsDemand, Int32Max
<1>5. /\ node.free \in [Sockets -> Int] /\ left \in Int /\ node.norme \in Int
      /\ child.free = [node.free EXCEPT ![s] = left]
      /\ child.norme = IF left > 0 THEN node.norme
                       ELSE IF node.norme = IntMin THEN left ELSE node.norme + left
  BY DEF Node, IsChild
<1>6. /\ SumFunctionOnSet(node.free, Sockets) = node.free[s] + rest
      /\ SumFunctionOnSet(child.free, Sockets) = left + rest
      /\ rest \in Int
  <2>1. /\ \A r \in Sockets : node.free[r] \in Int /\ child.free[r] \in Int
        /\ child.free[s] = left
        /\ \A r \in Sockets \ {s} : child.free[r] = node.free[r] /\ node.free[r] \in Int
        /\ IsFiniteSet(Sockets \ {s})
    BY <1>5, SocketsFinite, FS_RemoveElement
  <2> HIDE DEF left
  <2>2. SumFunctionOnSet(node.free, Sockets) = node.free[s] + rest
    BY <2>1, SocketsFinite, SumRemove
  <2>3. SumFunctionOnSet(child.free, Sockets)
          = child.free[s] + SumFunctionOnSet(child.free, Sockets \ {s})
    BY <2>1, SocketsFinite, SumRemove
  <2>4. SumFunctionOnSet(child.free, Sockets \ {s}) = rest
    BY <2>1, SumCongruence
  <2>5. rest \in Int
    BY <2>1, SumInt
  <2> QED
    BY <2>1, <2>2, <2>3, <2>4, <2>5
<1>7. threads[next] \in Nat /\ node.free[s] \in Int /\ NumCores \in Nat
  BY <1>1, <1>2, <1>5, CoresPositive
<1>8. left = node.free[s] - threads[next]
  OBVIOUS
<1>9. SumFunctionOnSet(child.free, Sockets) = NumCores - after
  <2> HIDE DEF next, left, before, after, rest
  <2>1. node.free[s] + rest = NumCores - before
    BY <1>6 DEF Levelled, before
  <2> DEFINE x == threads[next]
             y == node.free[s]
  <2>2. /\ y + rest = NumCores - before /\ left = y - x /\ after = x + before
        /\ SumFunctionOnSet(child.free, Sockets) = left + rest
        /\ x \in Int /\ y \in Int /\ rest \in Int /\ before \in Int /\ NumCores \in Int
    BY <1>3, <1>6, <1>7, <1>8, <2>1
  <2> HIDE DEF x, y
  <2>3. left + rest = NumCores - after
    BY <2>2
  <2> QED
    BY <2>2, <2>3
<1>10. \/ child.norme = IntMin /\ \A r \in Sockets : child.free[r] > 0
       \/ child.norme >= - after
  <2>1. \/ node.norme = IntMin /\ \A r \in Sockets : node.free[r] > 0
        \/ node.norme >= - before
    BY DEF Levelled
  <2> HIDE DEF next, left, before, after, rest
  <2>2. CASE left > 0
    <3>1. CASE node.norme = IntMin /\ \A r \in Sockets : node.free[r] > 0
      BY <1>5, <2>2, <3>1
    <3>2. CASE node.norme >= - before
      BY <1>3, <1>5, <1>7, <2>2, <3>2
    <3> QED
      BY <2>1, <3>1, <3>2
  <2>3. CASE ~(left > 0)
    <3>1. left >= - threads[next]
      BY <1>7, <1>8
    <3>2. CASE node.norme = IntMin
      BY <1>3, <1>5, <1>7, <2>3, <3>1, <3>2
    <3>3. CASE node.norme # IntMin
      BY <1>3, <1>5, <1>7, <2>1, <2>3, <3>1, <3>3
    <3> QED
      BY <3>2, <3>3
  <2> QED
    BY <2>2, <2>3
<1> QED
  BY <1>9, <1>10 DEF Levelled, after

\* The over-commitment of a leaf is set: some socket has no core left.
LEMMA LeafLevel ==
    ASSUME NEW threads, IsDemand(threads), NEW leaf \in Node, IsLeaf(leaf),
           Levelled(threads, leaf)
    PROVE  leaf.norme > IntMin
<1> DEFINE all == SumFunctionOnSet(threads, Ranks)
<1>1. threads \in Requests /\ all \in Nat
  BY PartSums DEF IsDemand, Requests
<1>2. Done(threads, leaf) = Ranks
  <2>1. \A p \in Ranks : Position(threads, p) \in 1 .. NumProcs
    BY <1>1, Positions
  <2> QED
    BY <2>1, TopologyAssumption DEF Done, IsLeaf
<1>3. SumFunctionOnSet(leaf.free, Sockets) <= 0
  BY <1>1, <1>2, CoresPositive DEF Levelled, IsDemand
<1>4. ~ \A s \in Sockets : leaf.free[s] > 0
  <2> SUFFICES ASSUME \A s \in Sockets : leaf.free[s] > 0 PROVE FALSE
    OBVIOUS
  <2>1. \A s \in Sockets : leaf.free[s] \in Nat /\ leaf.free[s] > 0
    BY DEF Node
  <2>2. leaf.free[0] <= SumFunctionOnSet(leaf.free, Sockets)
        /\ SumFunctionOnSet(leaf.free, Sockets) \in Nat
    BY <2>1, SocketsFinite, SumElement, SumNat
  <2> QED
    BY <1>3, <2>1, <2>2, SocketsFinite
<1>5. leaf.norme >= - all
  BY <1>2, <1>4 DEF Levelled
<1> QED
  BY <1>1, <1>5 DEF IsDemand, Int32Max, IntMin, Node

\* A candidate has its over-commitment.
Settled(node) == node.min >= IntMin /\ (node.best # NoBest => node.min > IntMin)

\* An admissible placement that does what a node did, and puts the next process
\* on a socket not tried yet.
Completes(f, threads, node, from) ==
    /\ f \in [Ranks -> Sockets] /\ Admissible(threads, f)
    /\ \A p \in Done(threads, node) : node.placed[Position(threads, p)] = f[p]
    /\ f[NextOf(threads, node)] >= from

Completable(threads, node, from) == \E f : Completes(f, threads, node, from)

\* The processes placed are those before the next one.
LEMMA NextAfterDone ==
    ASSUME NEW threads \in Requests, NEW node \in Node, Len(node.placed) < NumProcs
    PROVE  \A q \in Ranks : Before(threads, q, NextOf(threads, node))
                              <=> q \in Done(threads, node)
<1>1. Len(node.placed) \in Nat
  BY DEF Node
<1> QED
  BY <1>1, NextInOrder, Positions DEF Done

\* Nothing admissible puts the next process on a socket already over-committed.
LEMMA NotOnFullSocket ==
    ASSUME NEW threads \in Requests, NEW node \in Node, Len(node.placed) < NumProcs,
           Accounted(threads, node), NEW s \in Sockets, node.free[s] < 0,
           NEW f, Completes(f, threads, node, s)
    PROVE  f[NextOf(threads, node)] # s
<1> DEFINE next == NextOf(threads, node)
<1> SUFFICES ASSUME f[next] = s PROVE FALSE
  OBVIOUS
<1>1. next \in Ranks /\ \A q \in Ranks : Before(threads, q, next) <=> q \in Done(threads, node)
  BY NextInOrder, NextAfterDone
<1>2. {q \in Ranks : f[q] = s /\ Before(threads, q, next)} = PlacedOn(threads, node, s)
  BY <1>1 DEF Completes, PlacedOn, Done
<1>3. SumFunctionOnSet(threads, PlacedOn(threads, node, s)) <= CoresPerSocket
  <2>1. SumFunctionOnSet(threads, {q \in Ranks : f[q] = s /\ Before(threads, q, next)})
          <= CoresPerSocket
    BY <1>1 DEF Completes, Admissible
  <2> QED
    BY <1>2, <2>1
<1>4. SumFunctionOnSet(threads, PlacedOn(threads, node, s)) \in Nat
  BY PartSums DEF PlacedOn, Done
<1> QED
  BY <1>3, <1>4, TopologyAssumption DEF Accounted

\* A completion that puts the next process elsewhere is beside the socket; one
\* that puts it there is below.
LEMMA CompletesOnward ==
    ASSUME NEW threads \in Requests, NEW node \in Node, Len(node.placed) < NumProcs,
           NEW s \in Sockets, NEW f, Completes(f, threads, node, s),
           NEW child, IsChild(child, node, threads, s)
    PROVE  IF f[NextOf(threads, node)] = s
           THEN ~IsLeaf(child) => Completes(f, threads, child, 0)
           ELSE Completes(f, threads, node, s + 1)
<1> DEFINE next == NextOf(threads, node)
           k == Len(node.placed)
<1>1. next \in Ranks /\ Position(threads, next) = k + 1 /\ k \in Nat
  BY NextInOrder DEF Node
<1>2. f \in [Ranks -> Sockets] /\ f[next] \in Int /\ f[next] >= s /\ s \in Int
  BY <1>1 DEF Completes, Sockets
<1>3. CASE f[next] # s
  <2>1. f[next] >= s + 1
    BY <1>2, <1>3
  <2> QED
    BY <1>3, <2>1 DEF Completes
<1>4. CASE f[next] = s /\ ~IsLeaf(child)
  <2>1. child \in Node /\ Len(child.placed) = k + 1
    BY DEF IsChild
  <2>2. Len(child.placed) < NumProcs
    BY <1>1, <1>4, <2>1, TopologyAssumption DEF IsLeaf
  <2>3. NextOf(threads, child) \in Ranks
    BY <2>1, <2>2, NextInOrder
  <2>4. f[NextOf(threads, child)] >= 0
    BY <1>2, <2>3, TopologyAssumption DEF Sockets
  <2>5. Done(threads, child) = Done(threads, node) \cup {next}
    <3>1. PlacesNext(child, node, threads, s)
      BY ChildPlaced
    <3> QED
      BY <3>1 DEF PlacesNext
  <2>6. /\ child.placed[k + 1] = s
        /\ \A i \in 1 .. k : child.placed[i] = node.placed[i]
    BY DEF IsChild, Node
  <2>7. \A p \in Done(threads, node) : Position(threads, p) \in 1 .. k
    BY <1>1, Positions DEF Done
  <2>8. \A p \in Done(threads, child) : child.placed[Position(threads, p)] = f[p]
    <3> HIDE DEF next, k
    <3> QED
      BY <1>1, <1>4, <2>5, <2>6, <2>7 DEF Completes
  <2> QED
    BY <1>4, <2>4, <2>8 DEF Completes
<1> QED
  BY <1>3, <1>4

\* What a search below a node does: a candidate is only replaced by one with less
\* over-commitment; and when there is none, one is found if there is any.
Ready(threads, node) == /\ Accounted(threads, node) /\ Levelled(threads, node)
                        /\ Settled(node)

Finds(threads, branch, node) ==
    /\ Settled(node) /\ node.min >= branch.node.min
    /\ node.min > branch.node.min => node.best # NoBest
    /\ branch.node.best # NoBest => node.best # NoBest
    /\ (branch.node.min = IntMin /\ Completable(threads, branch.node, branch.from))
          => node.min > IntMin

\* A node that is ready stays so, and so is its child unless it refuses it.
LEMMA ReadyKept ==
    ASSUME NEW threads, IsDemand(threads), NEW prevSocket, NEW branch \in Branch,
           branch.from # NumSockets, NEW explored \in Node,
           Ready(threads, branch.node),
           GoesBelow(threads, prevSocket, branch)
             => Finds(threads, Below(threads, prevSocket, branch), explored)
    PROVE  /\ ~(branch.node.free[branch.from] < 0)
                => Ready(threads, Below(threads, prevSocket, branch).node)
           /\ Ready(threads, Offered(threads, prevSocket, branch, explored))
<1> DEFINE node  == branch.node
           child == Below(threads, prevSocket, branch).node
           next  == Offered(threads, prevSocket, branch, explored)
           s     == branch.from
<1>1. threads \in Requests
  BY DEF IsDemand, Requests
<1>2. /\ node \in Node /\ Len(node.placed) < NumProcs /\ s \in Sockets
      /\ child \in Node /\ IsChild(child, node, threads, s)
  BY <1>1, BelowFacts
<1>3. next \in Node /\ next.placed = node.placed /\ next.free = node.free
      /\ next.norme = node.norme
  BY <1>1, OfferedFacts
<1>4. (~(node.free[s] < 0) => Accounted(threads, child)) /\ Accounted(threads, next)
  BY <1>1, OrderKept DEF Ready
<1>5. \/ Refused(node, child, s) /\ next = node
      \/ TakesLeaf(next, node, child, s)
      \/ /\ ~(node.free[s] < 0) /\ GoesBelow(threads, prevSocket, branch)
         /\ TakesSubtree(next, node, explored)
  BY <1>1, OfferedCases
<1>6. GoesBelow(threads, prevSocket, branch) => Settled(explored)
  BY DEF Finds
<1> HIDE DEF child, next, s, node
<1>7. Accounted(threads, node) /\ Levelled(threads, node) /\ Settled(node)
  BY DEF Ready, node
<1>8. ASSUME ~(node.free[s] < 0) PROVE Ready(threads, child)
  <2>1. Levelled(threads, child)
    BY <1>2, <1>7, <1>8, ChildLevelled
  <2>2. Settled(child)
    BY <1>2, <1>7 DEF IsChild, Settled
  <2> QED
    BY <1>4, <1>8, <2>1, <2>2 DEF Ready
<1>9. Levelled(threads, next)
  <2>1. Done(threads, next) = Done(threads, node)
    BY <1>3 DEF Done
  <2> QED
    BY <1>3, <1>7, <2>1 DEF Levelled
<1>10. Settled(next)
  <2>1. CASE next = node
    BY <1>7, <2>1
  <2>2. CASE TakesLeaf(next, node, child, s) /\ next # node
    <3>1. ~(node.free[s] < 0) /\ IsLeaf(child) /\ next.min = child.norme
      BY <2>2 DEF TakesLeaf, Refused
    <3>2. child.norme > IntMin
      BY <1>2, <1>8, <3>1, LeafLevel DEF Ready
    <3> QED
      BY <1>3, <3>1, <3>2 DEF Settled, Node, IntMin
  <2>3. CASE TakesSubtree(next, node, explored) /\ next # node
             /\ GoesBelow(threads, prevSocket, branch)
    <3>1. next.best = explored.best /\ next.min = explored.min
      BY <2>3 DEF TakesSubtree
    <3> QED
      BY <1>6, <2>3, <3>1 DEF Settled
  <2> QED
    BY <1>5, <2>1, <2>2, <2>3
<1> QED
  BY <1>4, <1>8, <1>9, <1>10 DEF Ready, child, next, s, node

\* No over-commitment is below the value that says there is none.
LEMMA LevelBound ==
    ASSUME NEW threads, IsDemand(threads), NEW node \in Node, Levelled(threads, node)
    PROVE  node.norme >= IntMin
<1> DEFINE placed == SumFunctionOnSet(threads, Done(threads, node))
           all == SumFunctionOnSet(threads, Ranks)
<1>1. threads \in Requests /\ Done(threads, node) \in SUBSET Ranks
  BY DEF IsDemand, Requests, Done
<1>2. placed \in Nat /\ all \in Nat
  BY <1>1, PartSums
<1>3. placed <= all
  BY <1>1, ProcessesFinite, SumSubset DEF Requests
<1>4. all <= Int32Max
  BY DEF IsDemand
<1>5. node.norme = IntMin \/ node.norme >= - placed
  BY DEF Levelled
<1> HIDE DEF placed, all
<1>6. node.norme \in Int
  BY DEF Node
<1> QED
  BY <1>2, <1>3, <1>4, <1>5, <1>6 DEF Int32Max, IntMin

\* What holds below and beside holds of the branch.
LEMMA FindsKept ==
    ASSUME NEW threads, IsDemand(threads), NEW prevSocket, NEW branch \in Branch,
           branch.from # NumSockets, NEW explored \in Node, NEW r \in Node,
           Ready(threads, branch.node),
           GoesBelow(threads, prevSocket, branch)
             /\ Ready(threads, Below(threads, prevSocket, branch).node)
             => Finds(threads, Below(threads, prevSocket, branch), explored),
           Ready(threads, Offered(threads, prevSocket, branch, explored))
             => Finds(threads, Beside(threads, prevSocket, branch, explored), r)
    PROVE  Finds(threads, branch, r)
<1> DEFINE node  == branch.node
           below == Below(threads, prevSocket, branch)
           child == below.node
           next  == Offered(threads, prevSocket, branch, explored)
           s     == branch.from
<1>1. threads \in Requests
  BY DEF IsDemand, Requests
<1>2. /\ node \in Node /\ Len(node.placed) < NumProcs /\ s \in Sockets
      /\ child \in Node /\ IsChild(child, node, threads, s)
      /\ child = Child(node, threads, prevSocket, s) /\ below.from = 0
  BY <1>1, BelowFacts DEF Below
<1>3. /\ next \in Node /\ next.placed = node.placed /\ next.free = node.free
      /\ next.norme = node.norme
  BY <1>1, OfferedFacts
<1>4. \/ Refused(node, child, s) /\ next = node
      \/ TakesLeaf(next, node, child, s)
      \/ /\ ~(node.free[s] < 0) /\ GoesBelow(threads, prevSocket, branch)
         /\ TakesSubtree(next, node, explored)
  BY <1>1, OfferedCases
<1>5. ~(node.free[s] < 0) => Ready(threads, child)
  <2> SUFFICES ASSUME ~(node.free[s] < 0) PROVE Ready(threads, child)
    OBVIOUS
  <2>1. Accounted(threads, child)
    BY <1>1, OrderKept DEF Ready
  <2>2. Levelled(threads, node) /\ Settled(node)
    BY DEF Ready
  <2> HIDE DEF node, below, child, s
  <2>3. Levelled(threads, child)
    BY <1>2, <2>2, ChildLevelled DEF s, node
  <2>4. Settled(child)
    BY <1>2, <2>2 DEF IsChild, Settled
  <2> QED
    BY <2>1, <2>3, <2>4 DEF Ready
<1>6. GoesBelow(threads, prevSocket, branch)
        => ~(node.free[s] < 0) /\ ~IsLeaf(child) /\ Finds(threads, below, explored)
  BY <1>5 DEF GoesBelow
<1>7. Ready(threads, next)
  BY <1>6, ReadyKept
<1>8. /\ Finds(threads, Beside(threads, prevSocket, branch, explored), r)
      /\ Beside(threads, prevSocket, branch, explored).node = next
      /\ Beside(threads, prevSocket, branch, explored).from = s + 1
  BY <1>7 DEF Beside
<1>9. Settled(node) /\ Accounted(threads, node)
  BY DEF Ready
<1> HIDE DEF child, next, s, node, below
<1>10. /\ Settled(r) /\ r.min >= next.min
       /\ r.min > next.min => r.best # NoBest
       /\ next.best # NoBest => r.best # NoBest
       /\ (next.min = IntMin /\ Completable(threads, next, s + 1)) => r.min > IntMin
  BY <1>8 DEF Finds
<1>11. /\ node.min \in Int /\ next.min \in Int /\ r.min \in Int /\ explored.min \in Int
       /\ child.norme \in Int /\ child.min = node.min /\ child.best = NoBest
       /\ IntMin \in Int
  BY <1>2, <1>3 DEF Node, IsChild, IntMin
<1>12. \/ next = node
       \/ next.min >= node.min /\ next.best # NoBest /\ next.min > IntMin
  <2>1. CASE TakesLeaf(next, node, child, s) /\ next # node
    <3>1. /\ ~(node.free[s] < 0) /\ IsLeaf(child) /\ next.min = child.norme
          /\ next.best = child.placed /\ ~(child.norme < node.min)
      BY <2>1 DEF TakesLeaf, Refused
    <3>2. child.norme > IntMin
      BY <1>2, <1>5, <3>1, LeafLevel DEF Ready
    <3>3. child.placed # NoBest
      BY <3>1, TopologyAssumption DEF IsLeaf, NoBest
    <3> QED
      BY <1>11, <3>1, <3>2, <3>3
  <2>2. CASE TakesSubtree(next, node, explored) /\ next # node
             /\ GoesBelow(threads, prevSocket, branch)
    <3>1. next.best = explored.best /\ next.min = explored.min
          /\ ~(node.min >= explored.min)
      BY <2>2 DEF TakesSubtree
    <3>2. explored.min > child.min => explored.best # NoBest
      BY <1>6, <2>2 DEF Finds, child
    <3> QED
      BY <1>9, <1>11, <3>1, <3>2 DEF Settled
  <2> QED
    BY <1>4, <2>1, <2>2
<1>13. ASSUME node.min = IntMin, NEW f, Completes(f, threads, node, s), next = node
       PROVE  r.min > IntMin
  <2> DEFINE p == NextOf(threads, node)
  <2>1. CASE f[p] # s
    <3>1. Completes(f, threads, node, s + 1)
      BY <1>1, <1>2, <1>13, <2>1, CompletesOnward
    <3> QED
      BY <1>10, <1>13, <3>1 DEF Completable
  <2>2. CASE f[p] = s
    <3>1. ~(node.free[s] < 0)
      BY <1>1, <1>2, <1>9, <1>13, <2>2, NotOnFullSocket
    <3>2. Ready(threads, child) /\ ~Refused(node, child, s)
      <4>1. Ready(threads, child)
        BY <1>5, <3>1
      <4>2. child.norme >= IntMin
        BY <1>2, <4>1, LevelBound DEF Ready
      <4> QED
        BY <1>11, <1>13, <3>1, <4>1, <4>2 DEF Refused
    <3>3. CASE TakesLeaf(next, node, child, s)
      <4>1. IsLeaf(child) /\ child.norme > IntMin
        BY <1>2, <3>2, <3>3, LeafLevel DEF TakesLeaf, Ready
      <4>2. node.best # NoBest \/ next.min = child.norme
        BY <1>11, <1>13, <3>3, <4>1 DEF TakesLeaf
      <4> QED
        BY <1>9, <1>10, <1>11, <1>13, <4>1, <4>2 DEF Settled
    <3>4. CASE GoesBelow(threads, prevSocket, branch) /\ TakesSubtree(next, node, explored)
      <4>1. Completes(f, threads, child, 0)
        BY <1>1, <1>2, <1>6, <1>13, <2>2, <3>4, CompletesOnward
      <4>2. explored.min > IntMin
        BY <1>2, <1>6, <1>11, <1>13, <3>4, <4>1 DEF Finds, Completable, child
      <4> QED
        BY <1>10, <1>11, <1>13, <3>4, <4>2 DEF TakesSubtree
    <3> QED
      BY <1>4, <3>2, <3>3, <3>4
  <2> QED
    BY <2>1, <2>2
<1>14. /\ r.min >= node.min
       /\ r.min > node.min => r.best # NoBest
       /\ node.best # NoBest => r.best # NoBest
       /\ (node.min = IntMin /\ Completable(threads, node, s)) => r.min > IntMin
  <2>1. CASE next = node
    BY <1>10, <1>13, <2>1 DEF Completable
  <2>2. CASE next.min >= node.min /\ next.best # NoBest /\ next.min > IntMin
    BY <1>10, <1>11, <2>2
  <2> QED
    BY <1>12, <2>1, <2>2
<1> QED
  BY <1>10, <1>14 DEF Finds, node, s

\* Of a branch with nothing left to try.
LEMMA FindsNothing ==
    ASSUME NEW threads, IsDemand(threads), NEW branch \in Branch,
           branch.from = NumSockets, Ready(threads, branch.node)
    PROVE  Finds(threads, branch, branch.node)
<1> DEFINE node == branch.node
<1>1. threads \in Requests /\ node \in Node /\ Len(node.placed) < NumProcs
  BY DEF IsDemand, Requests, Branch
<1>2. ~Completable(threads, node, NumSockets)
  <2> SUFFICES ASSUME NEW f, Completes(f, threads, node, NumSockets) PROVE FALSE
    BY DEF Completable
  <2>1. NextOf(threads, node) \in Ranks
    BY <1>1, NextInOrder
  <2> QED
    BY <2>1, TopologyAssumption DEF Completes, Sockets
<1> QED
  BY <1>1, <1>2 DEF Finds, Ready, Node

\* A search finds a placement exactly when there is an admissible one.
LEMMA SolveComplete ==
    ASSUME NEW threads, IsDemand(threads), NEW prevSocket
    PROVE  Solve(threads, prevSocket).found <=> Placements(threads) # {}
<1> DEFINE end == Explore(threads, prevSocket)
           Keeps(b, r) == Ready(threads, b.node) => Finds(threads, b, r)
           P == {x \in Branch \X Node : Keeps(x[1], x[2])}
<1>1. threads \in Requests
  BY DEF IsDemand, Requests
<1>2. Solve(threads, prevSocket).found => Placements(threads) # {}
  BY <1>1, SolveSound DEF Placements
<1>3. \A b \in Branch : \A r \in Node : <<b, r>> \in P <=> Keeps(b, r)
  OBVIOUS
<1> HIDE DEF P
<1>4. \A b \in Branch : b.from = NumSockets => <<b, b.node>> \in P
  <2> SUFFICES ASSUME NEW b \in Branch, b.from = NumSockets PROVE <<b, b.node>> \in P
    OBVIOUS
  <2>1. b.node \in Node
    BY DEF Branch
  <2> QED
    BY <1>3, <2>1, FindsNothing
<1>5. ASSUME NEW b \in Branch, NEW e \in Node, NEW r \in Node, b.from # NumSockets,
             GoesBelow(threads, prevSocket, b)
               => <<Below(threads, prevSocket, b), e>> \in P,
             <<Beside(threads, prevSocket, b, e), r>> \in P
      PROVE  <<b, r>> \in P
  <2>1. /\ GoesBelow(threads, prevSocket, b) => Below(threads, prevSocket, b) \in Branch
        /\ Beside(threads, prevSocket, b, e) \in Branch
        /\ Beside(threads, prevSocket, b, e).node = Offered(threads, prevSocket, b, e)
    BY <1>1, <1>5, BelowFacts, OfferedFacts DEF Beside
  <2>2. GoesBelow(threads, prevSocket, b)
             /\ Ready(threads, Below(threads, prevSocket, b).node)
          => Finds(threads, Below(threads, prevSocket, b), e)
    BY <1>3, <1>5, <2>1
  <2>3. Ready(threads, Offered(threads, prevSocket, b, e))
          => Finds(threads, Beside(threads, prevSocket, b, e), r)
    BY <1>3, <1>5, <2>1
  <2>4. Ready(threads, b.node) => Finds(threads, b, r)
    BY <1>5, <2>2, <2>3, FindsKept
  <2> QED
    BY <1>3, <2>4
<1>6. IsSearchInvariant(P, threads, prevSocket)
  BY <1>4, <1>5 DEF IsSearchInvariant
<1>7. end \in Node /\ <<AtRoot, end>> \in P
  BY <1>1, <1>6, ExploreRule
<1>8. Ready(threads, Root)
  <2>1. Accounted(threads, Root) /\ Levelled(threads, Root)
    BY <1>1, RootAccounted, RootLevelled
  <2>2. Settled(Root)
    BY DEF Settled, Root, IntMin
  <2> QED
    BY <2>1, <2>2 DEF Ready
<1>9. Finds(threads, AtRoot, end)
  BY <1>3, <1>7, <1>8, AtRootFacts
<1>10. ASSUME NEW f \in Placements(threads) PROVE Completable(threads, Root, 0)
  <2>1. NextOf(threads, Root) \in Ranks
    BY <1>1, AtRootFacts, NextInOrder DEF Branch
  <2>2. f \in [Ranks -> Sockets] /\ Admissible(threads, f)
    BY DEF Placements
  <2>3. f[NextOf(threads, Root)] >= 0
    BY <2>1, <2>2, TopologyAssumption DEF Sockets
  <2> QED
    BY <1>1, <2>2, <2>3, RootAccounted DEF Completable, Completes
<1>11. Placements(threads) # {} => end.best # NoBest
  <2> SUFFICES ASSUME NEW f \in Placements(threads) PROVE end.best # NoBest
    OBVIOUS
  <2>1. Completable(threads, Root, 0) /\ AtRoot.node = Root /\ AtRoot.from = 0
    BY <1>10, AtRootFacts
  <2>2. Root.min = IntMin
    BY DEF Root
  <2> HIDE DEF end
  <2> QED
    BY <1>9, <2>1, <2>2 DEF Finds
<1>12. Solve(threads, prevSocket).found <=> end.best # NoBest
  BY DEF Solve
<1> QED
  BY <1>2, <1>11, <1>12
-----------------------------------------------------------------------------
(* The over-commitment of what the search finds *)

\* The cores a socket has too few of, as a negative number.
Deficit(free) == [s \in Sockets |-> IF free[s] < 0 THEN free[s] ELSE 0]

Depth(node) == SumFunctionOnSet(Deficit(node.free), Sockets)

\* The over-commitment of a node is exact once it is set.
Exact(node) == node.norme = IntMin \/ node.norme = Depth(node)

\* Deficits are never positive.
LEMMA DeficitFacts ==
    ASSUME NEW free \in [Sockets -> Int]
    PROVE  /\ \A s \in Sockets : /\ Deficit(free)[s] \in Int /\ Deficit(free)[s] <= 0
                                 /\ Deficit(free)[s] = IF free[s] < 0 THEN free[s] ELSE 0
           /\ SumFunctionOnSet(Deficit(free), Sockets) \in Int
<1>1. \A s \in Sockets : /\ Deficit(free)[s] \in Int /\ Deficit(free)[s] <= 0
                         /\ Deficit(free)[s] = IF free[s] < 0 THEN free[s] ELSE 0
  BY DEF Deficit
<1>2. SumFunctionOnSet(Deficit(free), Sockets) \in Int
  BY <1>1, SocketsFinite, SumInt
<1> QED
  BY <1>1, <1>2

\* A child that is not refused is exact when its father is.
LEMMA ChildExact ==
    ASSUME NEW threads, IsDemand(threads), NEW node \in Node, Len(node.placed) < NumProcs,
           NEW s \in Sockets, NEW child, IsChild(child, node, threads, s),
           Levelled(threads, node), Exact(node), ~(node.free[s] < 0)
    PROVE  Exact(child)
<1> DEFINE next == NextOf(threads, node)
           left == node.free[s] - threads[next]
           d    == Deficit(node.free)
           e    == Deficit(child.free)
           rest == SumFunctionOnSet(d, Sockets \ {s})
           placed == SumFunctionOnSet(threads, Done(threads, node))
<1>1. threads \in Requests /\ \A p \in Ranks : threads[p] \in Nat
  BY DEF IsDemand, Requests
<1>2. next \in Ranks /\ threads[next] \in Nat
  BY <1>1, NextInOrder
<1>3. /\ node.free \in [Sockets -> Int] /\ left \in Int /\ node.norme \in Int
      /\ child.free = [node.free EXCEPT ![s] = left] /\ child.free \in [Sockets -> Int]
      /\ child.norme = IF left > 0 THEN node.norme
                       ELSE IF node.norme = IntMin THEN left ELSE node.norme + left
  BY <1>2 DEF Node, IsChild
<1> HIDE DEF left, next
<1>4. /\ \A r \in Sockets : /\ d[r] \in Int /\ e[r] \in Int
                            /\ d[r] = IF node.free[r] < 0 THEN node.free[r] ELSE 0
                            /\ e[r] = IF child.free[r] < 0 THEN child.free[r] ELSE 0
      /\ Depth(node) = SumFunctionOnSet(d, Sockets)
      /\ Depth(child) = SumFunctionOnSet(e, Sockets)
  BY <1>3, DeficitFacts DEF Depth
<1> HIDE DEF d, e
<1>5. /\ SumFunctionOnSet(d, Sockets) = d[s] + rest
      /\ SumFunctionOnSet(e, Sockets) = e[s] + rest
      /\ rest \in Int
  <2>1. IsFiniteSet(Sockets) /\ IsFiniteSet(Sockets \ {s})
    BY SocketsFinite, FS_RemoveElement
  <2>2. \A r \in Sockets \ {s} : d[r] \in Int /\ e[r] \in Int /\ e[r] = d[r]
    BY <1>3, <1>4
  <2>3. SumFunctionOnSet(d, Sockets) = d[s] + rest
    BY <1>4, <2>1, SumRemove
  <2>4. SumFunctionOnSet(e, Sockets) = e[s] + SumFunctionOnSet(e, Sockets \ {s})
    BY <1>4, <2>1, SumRemove
  <2>5. SumFunctionOnSet(e, Sockets \ {s}) = rest
    BY <2>1, <2>2, SumCongruence
  <2>6. rest \in Int
    BY <2>1, <2>2, SumInt
  <2> QED
    BY <2>3, <2>4, <2>5, <2>6
<1>6. d[s] = 0 /\ e[s] = IF left < 0 THEN left ELSE 0
  BY <1>3, <1>4
<1>7. IntMin \in Int
  BY DEF IntMin
<1>8. CASE left > 0
  BY <1>3, <1>4, <1>5, <1>6, <1>8 DEF Exact
<1>9. CASE ~(left > 0) /\ node.norme # IntMin
  <2>1. child.norme = node.norme + left /\ node.norme = Depth(node) /\ e[s] = left
    BY <1>3, <1>6, <1>9 DEF Exact
  <2> QED
    BY <1>3, <1>4, <1>5, <1>6, <2>1 DEF Exact
<1>10. CASE ~(left > 0) /\ node.norme = IntMin
  <2>1. \A r \in Sockets : node.free[r] > 0
    <3>1. threads \in Requests /\ Done(threads, node) \in SUBSET Ranks
      BY <1>1 DEF Done
    <3>2. placed \in Nat /\ SumFunctionOnSet(threads, Ranks) \in Nat
      BY <3>1, PartSums
    <3>3. placed <= SumFunctionOnSet(threads, Ranks)
      BY <1>1, <3>1, ProcessesFinite, SumSubset
    <3>4. SumFunctionOnSet(threads, Ranks) <= Int32Max
      BY DEF IsDemand
    <3>5. (node.norme = IntMin /\ \A r \in Sockets : node.free[r] > 0)
             \/ node.norme >= - placed
      BY DEF Levelled
    <3> HIDE DEF placed
    <3> QED
      BY <1>10, <3>2, <3>3, <3>4, <3>5 DEF Int32Max, IntMin
  <2>2. \A r \in Sockets \ {s} : d[r] = 0
    BY <1>3, <1>4, <2>1
  <2>3. rest = 0
    BY <2>2, SocketsFinite, FS_RemoveElement, SumZero
  <2>4. child.norme = left /\ e[s] = left
    BY <1>3, <1>6, <1>10
  <2> QED
    BY <1>3, <1>4, <1>5, <2>3, <2>4 DEF Exact
<1> QED
  BY <1>8, <1>9, <1>10

\* The greater of zero and a number.
LEMMA MaxOfZero ==
    ASSUME NEW x \in Int PROVE Max({0, x}) = IF x > 0 THEN x ELSE 0
<1> DEFINE m == IF x > 0 THEN x ELSE 0
<1>1. m \in {0, x} /\ \A y \in {0, x} : m >= y
  OBVIOUS
<1>2. \A z \in {0, x} : (\A y \in {0, x} : z >= y) => z = m
  OBVIOUS
<1>3. Max({0, x}) \in {0, x} /\ \A y \in {0, x} : Max({0, x}) >= y
  BY <1>1, Zenon DEF Max
<1> QED
  BY <1>2, <1>3

\* What each socket is over-committed by.
Excess(threads, f) == [s \in Sockets |-> Max({0, Load(threads, f, s) - CoresPerSocket})]

\* What a socket exceeds its cores by; the over-commitment adds them up.
LEMMA ExcessFacts ==
    ASSUME NEW threads \in Requests, NEW f \in [Ranks -> Sockets]
    PROVE  /\ \A s \in Sockets :
                 /\ Load(threads, f, s) \in Nat
                 /\ Excess(threads, f)[s] \in Int
                 /\ Excess(threads, f)[s]
                      = IF Load(threads, f, s) > CoresPerSocket
                        THEN Load(threads, f, s) - CoresPerSocket ELSE 0
           /\ OverCommitment(threads, f) = SumFunctionOnSet(Excess(threads, f), Sockets)
           /\ OverCommitment(threads, f) \in Int
<1>1. ASSUME NEW s \in Sockets
      PROVE  /\ Load(threads, f, s) \in Nat
             /\ Excess(threads, f)[s] \in Int
             /\ Excess(threads, f)[s]
                  = IF Load(threads, f, s) > CoresPerSocket
                    THEN Load(threads, f, s) - CoresPerSocket ELSE 0
  <2>1. Load(threads, f, s) \in Nat
    BY PartSums DEF Load
  <2> DEFINE x == Load(threads, f, s) - CoresPerSocket
  <2>2. x \in Int /\ Excess(threads, f)[s] = Max({0, x})
    BY <2>1, TopologyAssumption DEF Excess
  <2>3. Max({0, x}) = IF x > 0 THEN x ELSE 0
    BY <2>2, MaxOfZero
  <2> QED
    BY <2>1, <2>2, <2>3, TopologyAssumption
<1>2. OverCommitment(threads, f) = SumFunctionOnSet(Excess(threads, f), Sockets)
  BY DEF OverCommitment, Excess
<1>3. SumFunctionOnSet(Excess(threads, f), Sockets) \in Int
  BY <1>1, SocketsFinite, SumInt
<1> QED
  BY <1>1, <1>2, <1>3

\* The placement of everybody that a sequence of sockets stands for.
Spread(threads, placed) == [p \in Ranks |-> placed[Position(threads, p)]]

\* A placement that does what a node did.
Extends(f, threads, node) ==
    /\ f \in [Ranks -> Sockets]
    /\ \A p \in Done(threads, node) : node.placed[Position(threads, p)] = f[p]

\* What a node over-commits is no more than what any placement that extends it does;
\* as much, when everybody is placed.
LEMMA DepthBound ==
    ASSUME NEW threads \in Requests, NEW node \in Node, Accounted(threads, node),
           NEW f, Extends(f, threads, node)
    PROVE  /\ Depth(node) \in Int /\ OverCommitment(threads, f) \in Int
           /\ Depth(node) >= - OverCommitment(threads, f)
           /\ IsLeaf(node) => Depth(node) = - OverCommitment(threads, f)
<1> DEFINE d == Deficit(node.free)
           x == Excess(threads, f)
           m == [s \in Sockets |-> (-1) * x[s]]
           On(s) == {p \in Ranks : f[p] = s}
<1>1. f \in [Ranks -> Sockets]
  BY DEF Extends
<1>2. /\ \A s \in Sockets : /\ Load(threads, f, s) \in Nat /\ x[s] \in Int
                            /\ x[s] = IF Load(threads, f, s) > CoresPerSocket
                                      THEN Load(threads, f, s) - CoresPerSocket ELSE 0
      /\ OverCommitment(threads, f) = SumFunctionOnSet(x, Sockets)
      /\ OverCommitment(threads, f) \in Int
  BY <1>1, ExcessFacts
<1>3. /\ \A s \in Sockets : /\ d[s] \in Int /\ node.free[s] \in Int
                            /\ d[s] = IF node.free[s] < 0 THEN node.free[s] ELSE 0
      /\ Depth(node) = SumFunctionOnSet(d, Sockets) /\ Depth(node) \in Int
  BY DeficitFacts DEF Node, Depth
<1> HIDE DEF d, x
<1>4. \A s \in Sockets : m[s] \in Int /\ m[s] = (-1) * x[s]
  BY <1>2
<1> HIDE DEF m
<1>5. SumFunctionOnSet(m, Sockets) = (-1) * SumFunctionOnSet(x, Sockets)
  BY <1>2, <1>4, SocketsFinite, SumScale
<1>6. SumFunctionOnSet(m, Sockets) = - OverCommitment(threads, f)
  BY <1>2, <1>5
<1>7. ASSUME NEW s \in Sockets
      PROVE  /\ node.free[s] >= CoresPerSocket - Load(threads, f, s)
             /\ IsLeaf(node) => node.free[s] = CoresPerSocket - Load(threads, f, s)
  <2> DEFINE here == PlacedOn(threads, node, s)
  <2>1. here \in SUBSET On(s) /\ On(s) \in SUBSET Ranks
    BY DEF PlacedOn, Done, Extends
  <2>2. IsFiniteSet(On(s)) /\ \A p \in On(s) : threads[p] \in Nat
    BY <2>1, PartSums
  <2>3. SumFunctionOnSet(threads, here) <= SumFunctionOnSet(threads, On(s))
    BY <2>1, <2>2, SumSubset
  <2>4. Load(threads, f, s) = SumFunctionOnSet(threads, On(s))
    BY DEF Load
  <2>5. node.free[s] = CoresPerSocket - SumFunctionOnSet(threads, here)
    BY DEF Accounted
  <2>6. SumFunctionOnSet(threads, here) \in Nat
    BY <2>1, PartSums
  <2>7. IsLeaf(node) => here = On(s)
    <3>1. \A p \in Ranks : Position(threads, p) \in 1 .. NumProcs
      BY Positions
    <3>2. IsLeaf(node) => Done(threads, node) = Ranks
      BY <3>1, TopologyAssumption DEF Done, IsLeaf
    <3> QED
      BY <3>2 DEF Extends, PlacedOn
  <2> HIDE DEF here, On
  <2> QED
    BY <1>2, <2>3, <2>4, <2>5, <2>6, <2>7, TopologyAssumption
<1>8. Depth(node) >= - OverCommitment(threads, f)
  <2>1. \A s \in Sockets : m[s] \in Int /\ d[s] \in Int /\ m[s] <= d[s]
    BY <1>2, <1>3, <1>4, <1>7, TopologyAssumption
  <2>2. SumFunctionOnSet(m, Sockets) <= SumFunctionOnSet(d, Sockets)
    BY <2>1, SocketsFinite, SumMonotone
  <2> QED
    BY <1>2, <1>3, <1>6, <2>2
<1>9. IsLeaf(node) => Depth(node) = - OverCommitment(threads, f)
  <2> SUFFICES ASSUME IsLeaf(node) PROVE Depth(node) = - OverCommitment(threads, f)
    OBVIOUS
  <2>1. \A s \in Sockets : m[s] \in Int /\ m[s] = d[s]
    BY <1>2, <1>3, <1>4, <1>7, TopologyAssumption
  <2>2. SumFunctionOnSet(m, Sockets) = SumFunctionOnSet(d, Sockets)
    BY <2>1, SocketsFinite, SumCongruence
  <2> QED
    BY <1>3, <1>6, <2>2
<1> QED
  BY <1>2, <1>3, <1>8, <1>9

\* The value kept with a candidate is its over-commitment.
Priced(threads, node) ==
    node.best = NoBest
      \/ node.min = - OverCommitment(threads, Spread(threads, node.best))

Fit(threads, node) == Ready(threads, node) /\ Exact(node) /\ Priced(threads, node)

\* A leaf is worth its placement.
LEMMA LeafPrice ==
    ASSUME NEW threads, IsDemand(threads), NEW leaf \in Node, IsLeaf(leaf),
           Ready(threads, leaf), Exact(leaf)
    PROVE  /\ \A f : Extends(f, threads, leaf) => leaf.norme = - OverCommitment(threads, f)
           /\ leaf.norme = - OverCommitment(threads, Spread(threads, leaf.placed))
<1> DEFINE g == Spread(threads, leaf.placed)
<1>1. threads \in Requests
  BY DEF IsDemand, Requests
<1>2. leaf.norme = Depth(leaf) /\ Accounted(threads, leaf)
  <2>1. leaf.norme > IntMin
    BY LeafLevel DEF Ready
  <2> QED
    BY <2>1 DEF Exact, Ready, IntMin
<1>3. ASSUME NEW f, Extends(f, threads, leaf)
      PROVE  leaf.norme = - OverCommitment(threads, f)
  BY <1>1, <1>2, <1>3, DepthBound
<1>4. Extends(g, threads, leaf)
  <2>1. \A p \in Ranks : Position(threads, p) \in 1 .. Len(leaf.placed)
    BY <1>1, Positions, TopologyAssumption DEF IsLeaf
  <2>2. leaf.placed \in Seq(Sockets)
    BY DEF Node
  <2>3. \A p \in Ranks : leaf.placed[Position(threads, p)] \in Sockets
    BY <2>1, <2>2
  <2> QED
    BY <2>3 DEF Extends, Spread, Done
<1> QED
  BY <1>3, <1>4

\* A node that is fit stays so, and so is its child unless it refuses it.
LEMMA FitKept ==
    ASSUME NEW threads, IsDemand(threads), NEW prevSocket, NEW branch \in Branch,
           branch.from # NumSockets, NEW explored \in Node,
           Fit(threads, branch.node),
           GoesBelow(threads, prevSocket, branch)
             => /\ Finds(threads, Below(threads, prevSocket, branch), explored)
                /\ Priced(threads, explored)
    PROVE  /\ ~(branch.node.free[branch.from] < 0)
                => Fit(threads, Below(threads, prevSocket, branch).node)
           /\ Fit(threads, Offered(threads, prevSocket, branch, explored))
<1> DEFINE node  == branch.node
           child == Below(threads, prevSocket, branch).node
           next  == Offered(threads, prevSocket, branch, explored)
           s     == branch.from
<1>1. threads \in Requests
  BY DEF IsDemand, Requests
<1>2. /\ node \in Node /\ Len(node.placed) < NumProcs /\ s \in Sockets
      /\ child \in Node /\ IsChild(child, node, threads, s)
  BY <1>1, BelowFacts
<1>3. next \in Node /\ next.placed = node.placed /\ next.free = node.free
      /\ next.norme = node.norme
  BY <1>1, OfferedFacts
<1>4. (~(node.free[s] < 0) => Ready(threads, child)) /\ Ready(threads, next)
  BY ReadyKept DEF Fit
<1>5. \/ Refused(node, child, s) /\ next = node
      \/ TakesLeaf(next, node, child, s)
      \/ /\ ~(node.free[s] < 0) /\ GoesBelow(threads, prevSocket, branch)
         /\ TakesSubtree(next, node, explored)
  BY <1>1, OfferedCases
<1>6. GoesBelow(threads, prevSocket, branch) => Priced(threads, explored)
  OBVIOUS
<1> HIDE DEF child, next, s, node
<1>7. Ready(threads, node) /\ Exact(node) /\ Priced(threads, node)
  BY DEF Fit, node
<1>8. ASSUME ~(node.free[s] < 0) PROVE Fit(threads, child)
  <2>1. Exact(child)
    BY <1>2, <1>7, <1>8, ChildExact DEF Ready
  <2>2. Priced(threads, child)
    BY <1>2 DEF IsChild, Priced
  <2> QED
    BY <1>4, <1>8, <2>1, <2>2 DEF Fit
<1>9. Exact(next)
  BY <1>3, <1>7 DEF Exact, Depth
<1>10. Priced(threads, next)
  <2>1. CASE next = node
    BY <1>7, <2>1
  <2>2. CASE TakesLeaf(next, node, child, s) /\ next # node
    <3>1. ~(node.free[s] < 0) /\ IsLeaf(child) /\ next.min = child.norme
          /\ next.best = child.placed
      BY <2>2 DEF TakesLeaf, Refused
    <3>2. child.norme = - OverCommitment(threads, Spread(threads, child.placed))
      BY <1>2, <1>8, <3>1, LeafPrice DEF Fit
    <3> QED
      BY <3>1, <3>2 DEF Priced
  <2>3. CASE TakesSubtree(next, node, explored) /\ next # node
             /\ GoesBelow(threads, prevSocket, branch)
    <3>1. next.best = explored.best /\ next.min = explored.min
      BY <2>3 DEF TakesSubtree
    <3> QED
      BY <1>6, <2>3, <3>1 DEF Priced
  <2> QED
    BY <1>5, <2>1, <2>2, <2>3
<1> QED
  BY <1>4, <1>8, <1>9, <1>10 DEF Fit, child, next, s, node

\* The last process is on the first socket that would take it.
Early(threads, f) ==
    \A p \in Ranks : Position(threads, p) = NumProcs =>
        \A r \in Sockets : r < f[p] => Load(threads, f, r) > CoresPerSocket

\* A node of the last level that has no candidate yet.
Fresh(node) == Len(node.placed) + 1 = NumProcs => node.best = NoBest

\* A search ends no worse than an early placement it could still find.
Beats(threads, f, branch, node) ==
    (Completes(f, threads, branch.node, branch.from) /\ Fresh(branch.node))
        => node.min >= - OverCommitment(threads, f)

\* An early placement completes a node of the last level on the first socket that
\* is not over-committed.
LEMMA EarlySocket ==
    ASSUME NEW threads \in Requests, NEW node \in Node, Len(node.placed) + 1 = NumProcs,
           Accounted(threads, node), NEW s \in Sockets, NEW f,
           Completes(f, threads, node, s), Early(threads, f),
           f[NextOf(threads, node)] # s
    PROVE  node.free[s] < 0
<1> DEFINE next == NextOf(threads, node)
           k    == Len(node.placed)
<1>1. k \in Nat /\ k < NumProcs
  BY TopologyAssumption DEF Node
<1>2. next \in Ranks /\ Position(threads, next) = NumProcs
  BY <1>1, NextInOrder
<1>3. f \in [Ranks -> Sockets] /\ f[next] \in Int /\ f[next] >= s /\ s \in Int
  BY <1>2 DEF Completes, Sockets
<1>4. Load(threads, f, s) > CoresPerSocket
  BY <1>2, <1>3 DEF Early
<1>5. {p \in Ranks : f[p] = s} = PlacedOn(threads, node, s)
  <2>1. \A p \in Ranks : p # next => p \in Done(threads, node)
    <3>1. \A p \in Ranks : Position(threads, p) \in 1 .. NumProcs
                           /\ (Position(threads, p) = NumProcs => p = next)
      BY <1>2, Positions
    <3> QED
      BY <1>1, <3>1, TopologyAssumption DEF Done
  <2> HIDE DEF next
  <2>2. \A p \in Done(threads, node) : p \in Ranks /\ node.placed[Position(threads, p)] = f[p]
    BY DEF Completes, Done
  <2> QED
    BY <2>1, <2>2 DEF PlacedOn, next
<1>6. node.free[s] = CoresPerSocket - Load(threads, f, s)
  BY <1>5 DEF Accounted, Load
<1>7. Load(threads, f, s) \in Nat
  BY PartSums DEF Load
<1> QED
  BY <1>4, <1>6, <1>7, TopologyAssumption

\* What a node that is completed by a placement is worth.
LEMMA WorthOfPart ==
    ASSUME NEW threads \in Requests, NEW node \in Node, Accounted(threads, node), Exact(node),
           NEW f, Extends(f, threads, node)
    PROVE  node.norme = IntMin \/ node.norme >= - OverCommitment(threads, f)
BY DepthBound DEF Exact

\* The child a completion goes through does what the completion does.
LEMMA ExtendsChild ==
    ASSUME NEW threads \in Requests, NEW node \in Node, Len(node.placed) < NumProcs,
           NEW s \in Sockets, NEW f, Completes(f, threads, node, s),
           f[NextOf(threads, node)] = s,
           NEW child, IsChild(child, node, threads, s)
    PROVE  Extends(f, threads, child)
<1> DEFINE next == NextOf(threads, node)
           k == Len(node.placed)
<1>1. next \in Ranks /\ Position(threads, next) = k + 1 /\ k \in Nat
  BY NextInOrder DEF Node
<1>2. Done(threads, child) = Done(threads, node) \cup {next}
  <2>1. PlacesNext(child, node, threads, s)
    BY ChildPlaced
  <2> QED
    BY <2>1 DEF PlacesNext
<1>3. /\ child.placed[k + 1] = s
      /\ \A i \in 1 .. k : child.placed[i] = node.placed[i]
  BY DEF IsChild, Node
<1>4. \A p \in Done(threads, node) : Position(threads, p) \in 1 .. k
  BY <1>1, Positions DEF Done
<1>5. f \in [Ranks -> Sockets]
      /\ \A p \in Done(threads, node) : node.placed[Position(threads, p)] = f[p]
  BY DEF Completes
<1>6. f[next] = s
  OBVIOUS
<1> HIDE DEF next, k
<1>7. \A p \in Done(threads, child) : child.placed[Position(threads, p)] = f[p]
  BY <1>1, <1>2, <1>3, <1>4, <1>5, <1>6
<1> QED
  BY <1>5, <1>7 DEF Extends

\* What holds below and beside holds of the branch.
LEMMA BeatsKept ==
    ASSUME NEW threads, IsDemand(threads), NEW prevSocket, NEW branch \in Branch,
           branch.from # NumSockets, NEW explored \in Node, NEW r \in Node,
           Fit(threads, branch.node), NEW f, Early(threads, f),
           GoesBelow(threads, prevSocket, branch)
             => /\ Finds(threads, Below(threads, prevSocket, branch), explored)
                /\ Priced(threads, explored)
                /\ Beats(threads, f, Below(threads, prevSocket, branch), explored),
           r.min >= Offered(threads, prevSocket, branch, explored).min,
           Beats(threads, f, Beside(threads, prevSocket, branch, explored), r)
    PROVE  Beats(threads, f, branch, r)
<1> DEFINE node  == branch.node
           below == Below(threads, prevSocket, branch)
           child == below.node
           next  == Offered(threads, prevSocket, branch, explored)
           s     == branch.from
           p     == NextOf(threads, node)
           cost  == OverCommitment(threads, f)
<1>1. threads \in Requests
  BY DEF IsDemand, Requests
<1>2. /\ node \in Node /\ Len(node.placed) < NumProcs /\ s \in Sockets
      /\ child \in Node /\ IsChild(child, node, threads, s) /\ below.from = 0
  BY <1>1, BelowFacts DEF Below
<1>3. /\ next \in Node /\ next.placed = node.placed /\ next.free = node.free
      /\ next.norme = node.norme
  BY <1>1, OfferedFacts
<1>4. \/ Refused(node, child, s) /\ next = node
      \/ TakesLeaf(next, node, child, s)
      \/ /\ ~(node.free[s] < 0) /\ GoesBelow(threads, prevSocket, branch)
         /\ TakesSubtree(next, node, explored)
  BY <1>1, OfferedCases
<1>5. (~(node.free[s] < 0) => Fit(threads, child)) /\ Fit(threads, next)
  BY FitKept
<1>6. GoesBelow(threads, prevSocket, branch)
        => ~IsLeaf(child) /\ Beats(threads, f, below, explored)
  BY DEF GoesBelow
<1>7. /\ Beats(threads, f, Beside(threads, prevSocket, branch, explored), r)
      /\ Beside(threads, prevSocket, branch, explored).node = next
      /\ Beside(threads, prevSocket, branch, explored).from = s + 1
      /\ r.min >= next.min
  BY DEF Beside
<1>8. Fit(threads, node)
  OBVIOUS
<1> SUFFICES ASSUME Completes(f, threads, node, s), Fresh(node)
             PROVE  r.min >= - cost
  BY DEF Beats
<1> HIDE DEF child, next, s, node, below
<1>9. Accounted(threads, node) /\ Exact(node) /\ f \in [Ranks -> Sockets]
  BY <1>8 DEF Fit, Ready, Completes
<1>10. node.min \in Int /\ next.min \in Int /\ r.min \in Int /\ explored.min \in Int
       /\ child.norme \in Int /\ cost \in Int
  BY <1>1, <1>2, <1>3, <1>9, ExcessFacts DEF Node
<1>11. CASE f[p] # s
  <2>1. Completes(f, threads, node, s + 1)
    BY <1>1, <1>2, <1>11, CompletesOnward
  <2>2. Completes(f, threads, next, s + 1)
    BY <1>3, <2>1 DEF Completes, Done, NextOf
  <2>3. Fresh(next)
    <3> SUFFICES ASSUME Len(node.placed) + 1 = NumProcs PROVE next.best = NoBest
      BY <1>3 DEF Fresh
    <3>1. node.free[s] < 0
      BY <1>1, <1>2, <1>9, <1>11, EarlySocket
    <3>2. next = node
      BY <1>4, <3>1 DEF TakesLeaf, Refused
    <3> QED
      BY <3>2 DEF Fresh
  <2> QED
    BY <1>7, <2>2, <2>3 DEF Beats
<1>12. CASE f[p] = s
  <2>1. ~(node.free[s] < 0)
    BY <1>1, <1>2, <1>9, <1>12, NotOnFullSocket
  <2>2. Fit(threads, child) /\ Extends(f, threads, child)
    BY <1>1, <1>2, <1>5, <1>12, <2>1, ExtendsChild
  <2>3. child.norme = IntMin \/ child.norme >= - cost
    BY <1>1, <1>2, <2>2, WorthOfPart DEF Fit, Ready
  <2>4. CASE Refused(node, child, s) /\ next = node
    <3>1. child.norme # IntMin /\ child.norme < node.min
      BY <2>1, <2>4 DEF Refused
    <3> QED
      BY <1>7, <1>10, <2>3, <2>4, <3>1
  <2>5. CASE TakesLeaf(next, node, child, s)
    <3>1. IsLeaf(child)
      BY <2>5 DEF TakesLeaf
    <3>2. child.norme = - cost
      BY <1>2, <2>2, <3>1, LeafPrice DEF Fit
    <3>3. node.best = NoBest
      <4>1. Len(node.placed) + 1 = NumProcs
        BY <1>2, <3>1 DEF IsChild, IsLeaf
      <4> QED
        BY <4>1 DEF Fresh
    <3> QED
      BY <1>7, <1>10, <2>5, <3>2, <3>3 DEF TakesLeaf
  <2>6. CASE GoesBelow(threads, prevSocket, branch) /\ TakesSubtree(next, node, explored)
    <3>1. Completes(f, threads, child, 0)
      BY <1>1, <1>2, <1>6, <1>12, <2>6, CompletesOnward
    <3>2. Fresh(child)
      BY <1>2 DEF IsChild, Fresh
    <3>3. explored.min >= - cost
      BY <1>2, <1>6, <2>6, <3>1, <3>2 DEF Beats, child
    <3> QED
      BY <1>7, <1>10, <2>6, <3>3 DEF TakesSubtree
  <2> QED
    BY <1>4, <2>4, <2>5, <2>6
<1> QED
  BY <1>11, <1>12

\* Two sockets exchange their processes.
Crossed(g, a, b) ==
    [p \in Ranks |-> IF g[p] = a THEN b ELSE IF g[p] = b THEN a ELSE g[p]]

\* The sockets being alike, an admissible placement stays so, and over-commits as much.
LEMMA SwapKeeps ==
    ASSUME NEW threads \in Requests, NEW g \in Placements(threads),
           NEW a \in Sockets, NEW b \in Sockets, a # b
    PROVE  LET f == Crossed(g, a, b)
           IN  /\ f \in Placements(threads)
               /\ \A s \in Sockets : Load(threads, f, s)
                    = Load(threads, g, IF s = a THEN b ELSE IF s = b THEN a ELSE s)
               /\ OverCommitment(threads, f) = OverCommitment(threads, g)
<1> DEFINE f == Crossed(g, a, b)
           other(s) == IF s = a THEN b ELSE IF s = b THEN a ELSE s
           x == Excess(threads, f)
           y == Excess(threads, g)
           S == Sockets \ {a}
           T == S \ {b}
<1>1. g \in [Ranks -> Sockets] /\ Admissible(threads, g)
  BY DEF Placements
<1>2. f \in [Ranks -> Sockets]
  BY <1>1 DEF Crossed
<1>3. \A s \in Sockets : other(s) \in Sockets /\ \A p \in Ranks : f[p] = s <=> g[p] = other(s)
  BY <1>1 DEF Crossed
<1> HIDE DEF f
<1>4. ASSUME NEW s \in Sockets, NEW p \in Ranks, f[p] = s
      PROVE  SumFunctionOnSet(threads, {q \in Ranks : f[q] = s /\ Before(threads, q, p)})
               <= CoresPerSocket
  <2>1. /\ other(s) \in Sockets /\ g[p] = other(s)
        /\ {q \in Ranks : f[q] = s /\ Before(threads, q, p)}
             = {q \in Ranks : g[q] = other(s) /\ Before(threads, q, p)}
    BY <1>3, <1>4
  <2> HIDE DEF other
  <2>2. SumFunctionOnSet(threads, {q \in Ranks : g[q] = other(s) /\ Before(threads, q, p)})
          <= CoresPerSocket
    BY <1>1, <2>1 DEF Admissible
  <2> QED
    BY <2>1, <2>2
<1>5. f \in Placements(threads)
  BY <1>2, <1>4 DEF Placements, Admissible
<1>6. \A s \in Sockets : Load(threads, f, s) = Load(threads, g, other(s))
  <2> SUFFICES ASSUME NEW s \in Sockets
               PROVE  Load(threads, f, s) = Load(threads, g, other(s))
    OBVIOUS
  <2>1. {p \in Ranks : f[p] = s} = {p \in Ranks : g[p] = other(s)}
    BY <1>3
  <2> HIDE DEF other
  <2> QED
    BY <2>1 DEF Load
<1>7. /\ \A s \in Sockets : x[s] \in Int /\ y[s] \in Int
      /\ OverCommitment(threads, f) = SumFunctionOnSet(x, Sockets)
      /\ OverCommitment(threads, g) = SumFunctionOnSet(y, Sockets)
  BY <1>1, <1>2, ExcessFacts
<1>8. \A s \in Sockets : x[s] = y[other(s)]
  BY <1>3, <1>6 DEF Excess
<1>9. /\ x[a] = y[b] /\ x[b] = y[a]
      /\ \A s \in T : x[s] = y[s]
  BY <1>8
<1> HIDE DEF x, y
<1>10. /\ IsFiniteSet(Sockets) /\ IsFiniteSet(S) /\ IsFiniteSet(T) /\ b \in S
       /\ S \subseteq Sockets /\ T \subseteq Sockets
  BY SocketsFinite, FS_RemoveElement
<1>11. ASSUME NEW z, \A s \in Sockets : z[s] \in Int
       PROVE  SumFunctionOnSet(z, Sockets) = z[a] + (z[b] + SumFunctionOnSet(z, T))
  <2>1. SumFunctionOnSet(z, Sockets) = z[a] + SumFunctionOnSet(z, S)
    BY <1>10, <1>11, SumRemove
  <2>2. \A s \in S : z[s] \in Int
    BY <1>10, <1>11
  <2>3. SumFunctionOnSet(z, S) = z[b] + SumFunctionOnSet(z, T)
    <3> HIDE DEF S
    <3> QED
      BY <1>10, <2>2, SumRemove
  <2> QED
    BY <2>1, <2>3
<1>12. SumFunctionOnSet(x, T) = SumFunctionOnSet(y, T)
       /\ SumFunctionOnSet(y, T) \in Int
  <2>1. \A s \in T : x[s] \in Int /\ x[s] = y[s] /\ y[s] \in Int
    BY <1>7, <1>9, <1>10
  <2> HIDE DEF T
  <2> QED
    BY <1>10, <2>1, SumCongruence, SumInt
<1>13. SumFunctionOnSet(x, Sockets) = SumFunctionOnSet(y, Sockets)
  <2>1. /\ SumFunctionOnSet(x, Sockets) = x[a] + (x[b] + SumFunctionOnSet(x, T))
        /\ SumFunctionOnSet(y, Sockets) = y[a] + (y[b] + SumFunctionOnSet(y, T))
    BY <1>7, <1>11
  <2>2. y[a] \in Int /\ y[b] \in Int
    BY <1>7
  <2> QED
    BY <1>9, <1>12, <2>1, <2>2
<1> QED
  BY <1>5, <1>6, <1>7, <1>13 DEF f

\* There is an early placement that over-commits no more than a given one.
LEMMA EarlyExists ==
    ASSUME NEW threads \in Requests, NEW g \in Placements(threads)
    PROVE  \E f \in Placements(threads) :
              Early(threads, f) /\ OverCommitment(threads, f) = OverCommitment(threads, g)
<1>1. NumProcs \in 1 .. NumProcs
  BY TopologyAssumption
<1>2. PICK p \in Ranks : Position(threads, p) = NumProcs
  BY <1>1, Positions
<1>3. \A q \in Ranks : Position(threads, q) = NumProcs => q = p
  BY <1>2, Positions
<1> DEFINE a == g[p]
           T == {r \in Sockets : r < a /\ ~(Load(threads, g, r) > CoresPerSocket)}
<1>4. g \in [Ranks -> Sockets] /\ a \in Sockets /\ Sockets \subseteq Nat
  BY TopologyAssumption DEF Placements, Sockets
<1> HIDE DEF a
<1>5. CASE T = {}
  <2>1. \A r \in Sockets : r < a => Load(threads, g, r) > CoresPerSocket
    BY <1>5
  <2>2. Early(threads, g)
    BY <1>3, <2>1 DEF Early, a
  <2> QED
    BY <2>2
<1>6. CASE T # {}
  <2>1. T \in SUBSET Nat
    BY <1>4
  <2>2. PICK b \in T : \A r \in T : b <= r
    <3> HIDE DEF T
    <3> QED
      BY <1>6, <2>1, LeastNatural
  <2>3. b \in Sockets /\ b < a /\ b # a /\ a \in Nat /\ b \in Nat
    BY <1>4, <2>2
  <2> DEFINE f == Crossed(g, a, b)
  <2>4. /\ f \in Placements(threads)
        /\ \A s \in Sockets : Load(threads, f, s)
             = Load(threads, g, IF s = a THEN b ELSE IF s = b THEN a ELSE s)
        /\ OverCommitment(threads, f) = OverCommitment(threads, g)
    BY <1>4, <2>3, SwapKeeps
  <2>5. f[p] = b
    BY DEF Crossed, a
  <2> HIDE DEF f
  <2>6. ASSUME NEW r \in Sockets, r < b PROVE Load(threads, f, r) > CoresPerSocket
    <3>1. r \in Nat /\ r # a /\ r # b /\ r < a
      BY <1>4, <2>3, <2>6
    <3>2. r \notin T
      BY <2>2, <2>3, <2>6, <3>1
    <3>3. Load(threads, f, r) = Load(threads, g, r)
      BY <2>4, <3>1
    <3> QED
      BY <3>1, <3>2, <3>3
  <2>7. Early(threads, f)
    BY <1>3, <2>5, <2>6 DEF Early
  <2> QED
    BY <2>4, <2>7
<1> QED
  BY <1>5, <1>6

\* What a search makes of a branch whose node is fit.
Ends(threads, branch, node) ==
    /\ Finds(threads, branch, node) /\ Priced(threads, node)
    /\ \A f : Early(threads, f) => Beats(threads, f, branch, node)

\* It holds of the whole search.
LEMMA ExploreEnds ==
    ASSUME NEW threads, IsDemand(threads), NEW prevSocket
    PROVE  /\ Explore(threads, prevSocket) \in Node
           /\ Ends(threads, AtRoot, Explore(threads, prevSocket))
<1> DEFINE end == Explore(threads, prevSocket)
           Keeps(b, r) == Fit(threads, b.node) => Ends(threads, b, r)
           P == {x \in Branch \X Node : Keeps(x[1], x[2])}
<1>1. threads \in Requests
  BY DEF IsDemand, Requests
<1>2. \A b \in Branch : \A r \in Node : <<b, r>> \in P <=> Keeps(b, r)
  OBVIOUS
<1> HIDE DEF P
<1>3. \A b \in Branch : b.from = NumSockets => <<b, b.node>> \in P
  <2> SUFFICES ASSUME NEW b \in Branch, b.from = NumSockets, Fit(threads, b.node)
               PROVE  Ends(threads, b, b.node)
    BY <1>2 DEF Branch
  <2>1. b.node \in Node /\ Len(b.node.placed) < NumProcs
    BY DEF Branch
  <2>2. Finds(threads, b, b.node)
    BY FindsNothing DEF Fit
  <2>3. ASSUME NEW f PROVE Beats(threads, f, b, b.node)
    <3>1. NextOf(threads, b.node) \in Ranks
      BY <1>1, <2>1, NextInOrder
    <3>2. ~Completes(f, threads, b.node, NumSockets)
      BY <3>1, TopologyAssumption DEF Completes, Sockets
    <3> QED
      BY <3>2 DEF Beats
  <2> QED
    BY <2>2, <2>3 DEF Ends, Fit
<1>4. ASSUME NEW b \in Branch, NEW e \in Node, NEW r \in Node, b.from # NumSockets,
             GoesBelow(threads, prevSocket, b)
               => <<Below(threads, prevSocket, b), e>> \in P,
             <<Beside(threads, prevSocket, b, e), r>> \in P,
             Fit(threads, b.node)
      PROVE  Ends(threads, b, r)
  <2> DEFINE below == Below(threads, prevSocket, b)
             beside == Beside(threads, prevSocket, b, e)
             next == Offered(threads, prevSocket, b, e)
             goes == GoesBelow(threads, prevSocket, b)
  <2>1. /\ goes => below \in Branch
        /\ beside \in Branch /\ beside.node = next
    BY <1>1, <1>4, BelowFacts, OfferedFacts DEF Beside
  <2>2. goes /\ Fit(threads, below.node) => Ends(threads, below, e)
    BY <1>2, <1>4, <2>1
  <2>3. goes => Fit(threads, below.node)
    <3> SUFFICES ASSUME goes PROVE Fit(threads, below.node)
      OBVIOUS
    <3> DEFINE node == b.node
               s    == b.from
               child == below.node
    <3>1. /\ node \in Node /\ Len(node.placed) < NumProcs /\ s \in Sockets
          /\ child \in Node /\ IsChild(child, node, threads, s)
      BY <1>1, <1>4, BelowFacts
    <3>2. ~(node.free[s] < 0)
      BY DEF GoesBelow
    <3>3. Accounted(threads, child)
      BY <1>1, <1>4, <3>2, OrderKept DEF Fit, Ready
    <3>4. Fit(threads, node)
      BY <1>4
    <3> HIDE DEF node, s, child, below
    <3>5. Levelled(threads, child) /\ Exact(child)
      BY <3>1, <3>2, <3>4, ChildLevelled, ChildExact DEF Fit, Ready
    <3>6. Settled(child) /\ Priced(threads, child)
      BY <3>1, <3>4 DEF IsChild, Fit, Ready, Settled, Priced
    <3>7. Fit(threads, child)
      BY <3>3, <3>5, <3>6 DEF Fit, Ready
    <3> QED
      BY <3>7 DEF child
  <2>4. goes => Ends(threads, below, e)
    BY <2>2, <2>3
  <2> HIDE DEF below, beside, next, goes
  <2>5. Fit(threads, next)
    BY <1>4, <2>4, FitKept DEF Ends, below, next, goes
  <2>6. Ends(threads, beside, r)
    BY <1>2, <1>4, <2>1, <2>5 DEF beside
  <2>7. Finds(threads, b, r)
    BY <1>4, <2>4, <2>6, FindsKept DEF Ends, Fit, below, beside, next, goes
  <2>8. r.min >= next.min
    BY <2>1, <2>6 DEF Ends, Finds
  <2>9. ASSUME NEW f, Early(threads, f) PROVE Beats(threads, f, b, r)
    <3>1. goes => /\ Finds(threads, below, e) /\ Priced(threads, e)
                  /\ Beats(threads, f, below, e)
      BY <2>4, <2>9 DEF Ends
    <3>2. Beats(threads, f, beside, r)
      BY <2>6, <2>9 DEF Ends
    <3> QED
      BY <1>4, <2>8, <2>9, <3>1, <3>2, BeatsKept DEF below, beside, next, goes
  <2> QED
    BY <2>6, <2>7, <2>9 DEF Ends
<1>5. IsSearchInvariant(P, threads, prevSocket)
  BY <1>2, <1>3, <1>4 DEF IsSearchInvariant
<1>6. end \in Node /\ <<AtRoot, end>> \in P
  BY <1>1, <1>5, ExploreRule
<1>7. Fit(threads, Root)
  <2>1. Accounted(threads, Root) /\ Levelled(threads, Root)
    BY <1>1, RootAccounted, RootLevelled
  <2>2. Settled(Root) /\ Exact(Root) /\ Priced(threads, Root)
    BY DEF Settled, Exact, Priced, Root, IntMin
  <2> QED
    BY <2>1, <2>2 DEF Fit, Ready
<1>8. Ends(threads, AtRoot, end)
  BY <1>2, <1>6, <1>7, AtRootFacts
<1> QED
  BY <1>6, <1>8

\* A search that finds a placement finds one of those that over-commit least.
LEMMA SolveBest ==
    ASSUME NEW threads, IsDemand(threads), NEW prevSocket, Solve(threads, prevSocket).found
    PROVE  Solve(threads, prevSocket).socket \in BestPlacements(threads)
<1> DEFINE end == Explore(threads, prevSocket)
           f   == Solve(threads, prevSocket).socket
<1>1. threads \in Requests
  BY DEF IsDemand, Requests
<1>2. f \in Placements(threads)
  BY <1>1, SolveSound DEF Placements
<1>3. end.best # NoBest /\ f = Spread(threads, end.best)
  BY DEF Solve, Spread
<1>4. end \in Node /\ Ends(threads, AtRoot, end)
  BY ExploreEnds
<1> HIDE DEF end, f
<1>5. end.min = - OverCommitment(threads, f)
  BY <1>3, <1>4 DEF Ends, Priced
<1>6. OverCommitment(threads, f) \in Int
  BY <1>1, <1>2, ExcessFacts DEF Placements
<1>7. ASSUME NEW g \in Placements(threads)
      PROVE  OverCommitment(threads, f) <= OverCommitment(threads, g)
  <2>1. PICK h \in Placements(threads) :
            Early(threads, h) /\ OverCommitment(threads, h) = OverCommitment(threads, g)
    BY <1>1, EarlyExists
  <2>2. h \in [Ranks -> Sockets] /\ Admissible(threads, h)
    BY DEF Placements
  <2>3. Completes(h, threads, Root, 0)
    <3>1. NextOf(threads, Root) \in Ranks
      BY <1>1, AtRootFacts, NextInOrder DEF Branch
    <3>2. h[NextOf(threads, Root)] >= 0
      BY <2>2, <3>1, TopologyAssumption DEF Sockets
    <3> QED
      BY <1>1, <2>2, <3>2, RootAccounted DEF Completes
  <2>4. Fresh(Root)
    BY DEF Fresh, Root
  <2>5. Beats(threads, h, AtRoot, end)
    BY <1>4, <2>1 DEF Ends
  <2>6. end.min >= - OverCommitment(threads, h)
    BY <2>3, <2>4, <2>5, AtRootFacts DEF Beats
  <2>7. OverCommitment(threads, h) \in Int
    BY <1>1, <2>2, ExcessFacts
  <2> QED
    BY <1>5, <1>6, <2>1, <2>6, <2>7
<1> QED
  BY <1>2, <1>7 DEF BestPlacements, f
=============================================================================
