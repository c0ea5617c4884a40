-------------------------- MODULE NodeBinding_proof --------------------------
(***************************************************************************)
(* Where threads are, for every finite set of machines, any number of      *)
(* processes and of placements.  The argument: the rounds keep the table   *)
(* to the machine and its placement to one that fits (RoundInv), so that   *)
(* every thread in a team is given a core no other is given (PlacedCores). *)
(* From there one invariant follows the numbers of the cores through a     *)
(* round (NumberInv), and one, of machines whose two numberings agree, the *)
(* cores themselves from round to round (PlainInv): it has to remember     *)
(* where the threads were, for the processes that find nothing to do.      *)
(***************************************************************************)
EXTENDS NodeBinding, FiniteSetTheorems, TLAPS

-----------------------------------------------------------------------------
(* Sums *)

\* What Placement_proof knows of sums is of all of them, and does not depend on
\* the node: any will do.
Library == INSTANCE Placement_proof WITH
    NumProcs <- NumProcs, NumSockets <- 1, CoresPerSocket <- 1

\* Its sums and its finite sets are those of this module.
LEMMA SameSums ==
    /\ \A f : \A S : Library!SumFunctionOnSet(f, S) = SumFunctionOnSet(f, S)
    /\ \A S : Library!IsFiniteSet(S) <=> IsFiniteSet(S)
BY DEF SumFunctionOnSet, FoldFunctionOnSet, MapThenFoldSet, IsFiniteSet,
       Library!SumFunctionOnSet, Library!FoldFunctionOnSet, Library!MapThenFoldSet,
       Library!IsFiniteSet

\* The sum over nothing is zero.
LEMMA SumEmpty == ASSUME NEW f PROVE SumFunctionOnSet(f, {}) = 0
BY Library!SumEmpty, SameSums, MachinesAssumption

\* An element more adds its value.
LEMMA SumAdd ==
    ASSUME NEW f, NEW S, IsFiniteSet(S), \A x \in S : f[x] \in Int,
           NEW y, y \notin S, f[y] \in Int
    PROVE  SumFunctionOnSet(f, S \cup {y}) = f[y] + SumFunctionOnSet(f, S)
BY Library!SumAdd, SameSums, MachinesAssumption

\* A sum of naturals is a natural.
LEMMA SumNat ==
    ASSUME NEW f, NEW S, IsFiniteSet(S), \A x \in S : f[x] \in Nat
    PROVE  SumFunctionOnSet(f, S) \in Nat
BY Library!SumNat, SameSums, MachinesAssumption

\* Part of a sum of naturals is no larger than the whole.
LEMMA SumSubset ==
    ASSUME NEW f, NEW S, IsFiniteSet(S), \A x \in S : f[x] \in Nat,
           NEW R \in SUBSET S
    PROVE  SumFunctionOnSet(f, R) <= SumFunctionOnSet(f, S)
BY Library!SumSubset, SameSums, MachinesAssumption

\* Only the values on the set count.
LEMMA SumCongruence ==
    ASSUME NEW f, NEW g, NEW S, IsFiniteSet(S),
           \A x \in S : f[x] \in Int /\ f[x] = g[x]
    PROVE  SumFunctionOnSet(f, S) = SumFunctionOnSet(g, S)
BY Library!SumCongruence, SameSums, MachinesAssumption

\* A function takes its largest value on a finite set.
LEMMA LargestExists ==
    ASSUME NEW f, NEW S, IsFiniteSet(S), S # {}, \A x \in S : f[x] \in Int
    PROVE  \E x \in S : \A y \in S : f[y] <= f[x]
BY Library!LargestExists, SameSums, MachinesAssumption

\* Induction on the naturals.
LEMMA NaturalInduction ==
    ASSUME NEW P, 0 \in P, \A n \in Nat : n \in P => n + 1 \in P
    PROVE  \A n \in Nat : n \in P
BY Library!NaturalInduction, MachinesAssumption

-----------------------------------------------------------------------------
(* Machines *)

\* A row is past the row before it.
LEMMA RowAfterRow ==
    ASSUME NEW s \in Nat, NEW r \in Nat, NEW c \in Nat, s < r
    PROVE  s * c + c <= r * c
<1> DEFINE d == r - s - 1
<1>1. d \in Nat /\ r = s + 1 + d
  OBVIOUS
<1> HIDE DEF d
<1>2. r * c = s * c + c + d * c
  BY <1>1
<1>3. d * c \in Nat /\ s * c \in Nat /\ r * c \in Nat
  BY <1>1
<1> QED
  BY <1>2, <1>3

\* The sum of n equal numbers.
LEMMA SumOfSame ==
    ASSUME NEW f, NEW n \in Nat, NEW c \in Nat, \A s \in 0 .. n - 1 : f[s] = c
    PROVE  SumFunctionOnSet(f, 0 .. n - 1) = n * c
<1> DEFINE P == {k \in Nat : k <= n => SumFunctionOnSet(f, 0 .. k - 1) = k * c}
<1>1. 0 \in P
  <2>1. 0 .. 0 - 1 = {}
    OBVIOUS
  <2>2. SumFunctionOnSet(f, 0 .. 0 - 1) = 0 * c
    BY <2>1, SumEmpty
  <2> QED
    BY <2>2
<1>2. ASSUME NEW k \in Nat, k \in P PROVE k + 1 \in P
  <2> SUFFICES ASSUME k + 1 <= n
               PROVE  SumFunctionOnSet(f, 0 .. (k + 1) - 1) = (k + 1) * c
    OBVIOUS
  <2>1. SumFunctionOnSet(f, 0 .. k - 1) = k * c
    BY <1>2
  <2> DEFINE row == 0 .. k - 1
  <2>2. 0 .. (k + 1) - 1 = row \cup {k} /\ k \notin row
    OBVIOUS
  <2>3. IsFiniteSet(row) /\ (\A x \in row : f[x] \in Int) /\ f[k] = c /\ f[k] \in Int
    <3>1. k - 1 \in Int /\ \A x \in 0 .. k - 1 : x \in 0 .. n - 1
      OBVIOUS
    <3>2. IsFiniteSet(row)
      BY <3>1, FS_Interval
    <3>3. k \in 0 .. n - 1
      OBVIOUS
    <3> QED
      BY <3>1, <3>2, <3>3
  <2>4. SumFunctionOnSet(f, row) = k * c
    BY <2>1
  <2> HIDE DEF row
  <2>5. SumFunctionOnSet(f, row \cup {k}) = f[k] + SumFunctionOnSet(f, row)
    BY <2>2, <2>3, SumAdd
  <2>6. (k + 1) * c = c + k * c
    OBVIOUS
  <2> QED
    BY <2>2, <2>3, <2>4, <2>5, <2>6
<1> HIDE DEF P
<1>3. \A k \in Nat : k \in P
  BY <1>1, <1>2, NaturalInduction
<1>4. n \in P
  BY <1>3
<1> QED
  BY <1>4 DEF P

\* A machine has cores, as many as its sockets together.
LEMMA MachineFacts ==
    ASSUME NEW m \in Machines
    PROVE  /\ NumCores(m) \in Nat
           /\ \A s \in Sockets(m) : /\ s \in Nat /\ m.cores[s] \in Nat \ {0}
                                    /\ m.cores[s] <= NumCores(m)
           /\ 0 \in Sockets(m)
<1>1. /\ IsFiniteSet(Sockets(m)) /\ 0 \in Sockets(m)
      /\ \A s \in Sockets(m) : m.cores[s] \in Nat \ {0}
      /\ \A s \in Sockets(m) : m.cores[s] \in Nat
  BY MachinesAssumption, HwlocAssumption
<1>2. SumFunctionOnSet(m.cores, Sockets(m)) \in Nat
  BY <1>1, SumNat
<1>3. ASSUME NEW s \in Sockets(m) PROVE m.cores[s] <= NumCores(m)
  <2>1. SumFunctionOnSet(m.cores, {s}) <= SumFunctionOnSet(m.cores, Sockets(m))
    BY <1>1, SumSubset
  <2>2. SumFunctionOnSet(m.cores, {} \cup {s}) = m.cores[s] + SumFunctionOnSet(m.cores, {})
    BY <1>1, FS_EmptySet, SumAdd
  <2>3. SumFunctionOnSet(m.cores, {}) = 0
    BY SumEmpty
  <2>4. {} \cup {s} = {s}
    OBVIOUS
  <2>5. SumFunctionOnSet(m.cores, {s}) = m.cores[s]
    BY <1>1, <2>2, <2>3, <2>4
  <2> QED
    BY <2>1, <2>5 DEF NumCores
<1>4. \A s \in Sockets(m) : s \in Nat
  <2>1. Sockets(m) = 0 .. Cardinality(Sockets(m)) - 1 /\ Cardinality(Sockets(m)) \in Nat
    BY <1>1, HwlocAssumption, FS_CardinalityType
  <2> QED
    BY <2>1
<1> QED
  BY <1>1, <1>2, <1>3, <1>4 DEF NumCores

\* The cores of a socket are cores of the machine, and of no other socket.
LEMMA SocketCores ==
    ASSUME NEW m \in Machines, Even(m), NEW c, c = m.cores[0]
    PROVE  /\ c \in Nat \ {0} /\ c <= NumCores(m)
           /\ \A s \in Sockets(m) : \A j \in 0 .. c - 1 : s * c + j \in AllCores(m)
           /\ \A s, r \in Sockets(m) : \A j, k \in 0 .. c - 1 :
                 s * c + j = r * c + k => s = r /\ j = k
<1>1. /\ 0 \in Sockets(m) /\ c \in Nat \ {0} /\ c <= NumCores(m) /\ NumCores(m) \in Nat
      /\ \A s \in Sockets(m) : s \in Nat
  BY MachineFacts
<1>2. ASSUME NEW s \in Sockets(m), NEW j \in 0 .. c - 1
      PROVE  s * c + j \in AllCores(m)
  <2> DEFINE n == Cardinality(Sockets(m))
  <2>1. n \in Nat /\ Sockets(m) = 0 .. n - 1
    BY HwlocAssumption, FS_CardinalityType
  <2>2. \A r \in 0 .. n - 1 : m.cores[r] = c
    BY <1>1, <2>1 DEF Even
  <2> HIDE DEF n
  <2>3. NumCores(m) = n * c
    BY <1>1, <2>1, <2>2, SumOfSame DEF NumCores
  <2>4. s < n /\ s \in Nat
    BY <2>1
  <2>5. s * c + c <= n * c
    BY <1>1, <2>1, <2>4, RowAfterRow
  <2>6. s * c \in Nat
    BY <1>1
  <2> DEFINE base == s * c
             total == n * c
  <2>7. base \in Nat /\ base + c <= total /\ NumCores(m) = total /\ total \in Nat
    BY <1>1, <2>3, <2>5, <2>6
  <2> HIDE DEF base, total
  <2>8. base + j \in 0 .. NumCores(m) - 1
    BY <1>1, <2>7
  <2> QED
    BY <2>8 DEF base, AllCores
<1>3. ASSUME NEW s \in Sockets(m), NEW r \in Sockets(m), NEW j \in 0 .. c - 1,
             NEW k \in 0 .. c - 1, s * c + j = r * c + k
      PROVE  s = r /\ j = k
  <2>1. s \in Nat /\ r \in Nat /\ s * c \in Nat /\ r * c \in Nat
    BY <1>1
  <2>2. ~(s < r) /\ ~(r < s)
    <3>1. s < r => s * c + c <= r * c
      BY <1>1, <2>1, RowAfterRow
    <3>2. r < s => r * c + c <= s * c
      BY <1>1, <2>1, RowAfterRow
    <3> DEFINE x == s * c
               y == r * c
    <3>3. x \in Nat /\ y \in Nat /\ x + j = y + k /\ (s < r => x + c <= y) /\ (r < s => y + c <= x)
      BY <1>3, <2>1, <3>1, <3>2
    <3> HIDE DEF x, y
    <3> QED
      BY <1>1, <3>3
  <2>3. s = r
    BY <2>1, <2>2
  <2> DEFINE x == s * c
  <2>4. x \in Nat /\ x + j = x + k
    BY <1>3, <2>1, <2>3
  <2> HIDE DEF x
  <2> QED
    BY <2>3, <2>4
<1> QED
  BY <1>1, <1>2, <1>3

\* There is a thread for every core of every machine.
LEMMA ThreadForEachCore == \A m \in Machines : \A t \in 0 .. NumCores(m) - 1 : t \in ThreadIds
<1> SUFFICES ASSUME NEW m \in Machines, NEW t \in 0 .. NumCores(m) - 1 PROVE t \in ThreadIds
  OBVIOUS
<1> DEFINE f == [x \in Machines |-> NumCores(x)]
           sizes == {NumCores(x) : x \in Machines}
<1>1. \A x \in Machines : f[x] = NumCores(x) /\ f[x] \in Int
  BY MachineFacts
<1> HIDE DEF f
<1>2. PICK large \in Machines : \A x \in Machines : f[x] <= f[large]
  BY <1>1, MachinesAssumption, LargestExists
<1>3. NumCores(large) \in sizes /\ \A y \in sizes : NumCores(large) >= y
  BY <1>1, <1>2
<1>4. Max(sizes) \in sizes /\ \A y \in sizes : Max(sizes) >= y
  BY <1>3 DEF Max
<1>5. Max(sizes) \in Int /\ Max(sizes) >= NumCores(m) /\ NumCores(m) \in Nat
  BY <1>1, <1>4, MachineFacts
<1> HIDE DEF sizes
<1>6. t \in 0 .. Max(sizes) - 1
  BY <1>5
<1> QED
  BY <1>6 DEF sizes, ThreadIds

-----------------------------------------------------------------------------
(* Placements *)

\* A team that has been placed: threads on a socket, that has the cores for them.
Placed == \A p \in Ranks : /\ team[p].threads \in Nat \ {0}
                           /\ team[p].socket \in Sockets(machine)
                           /\ FirstCore(p) \in Nat
                           /\ FirstCore(p) + team[p].threads <= CoresPerSocket
                           /\ \A q \in Ranks :
                                (team[q].socket = team[p].socket /\ p < q) =>
                                    FirstCore(p) + team[p].threads <= FirstCore(q)

\* The core a placement gives to thread t of p, and the number it has in the table.
Core(p, t) == SocketCore(team[p].socket, FirstCore(p) + t)

CoreNumber(p, t) == machine.osId[Core(p, t)]

\* A placement that fits places everybody on cores of its own.
LEMMA FitsPlaced ==
    ASSUME NEW threads, NEW socket, machine' = machine,
           threads \in [Ranks -> 1 .. CoresPerSocket], socket \in [Ranks -> Sockets(machine)],
           CoresPerSocket \in Nat, Fits(threads, socket),
           \A p \in Ranks : team'[p].threads = threads[p] /\ team'[p].socket = socket[p]
    PROVE  Placed'
<1> DEFINE loads == [q \in Ranks |-> team'[q].threads]
           Lower(q) == {r \in Ranks : team'[r].socket = team'[q].socket /\ r < q}
           Sum(part) == SumFunctionOnSet(loads, part)
           First(q) == FirstCore(q)'
<1>0. IsFiniteSet(Ranks) /\ \A q \in Ranks : q \in Int
  <2>1. NumProcs - 1 \in Int
    BY MachinesAssumption
  <2> QED
    BY <2>1, FS_Interval DEF Ranks
<1>1. \A q \in Ranks : /\ loads[q] = threads[q] /\ loads[q] \in Nat /\ loads[q] \in Int
                       /\ team'[q].threads = loads[q] /\ team'[q].threads \in Nat \ {0}
                       /\ team'[q].socket \in Sockets(machine)
  OBVIOUS
<1>2. \A q \in Ranks : First(q) = Sum(Lower(q))
  BY DEF FirstCore
<1> HIDE DEF loads, First
<1>3. \A part \in SUBSET Ranks : /\ IsFiniteSet(part) /\ Sum(part) \in Nat
                                 /\ \A q \in part : loads[q] \in Int /\ loads[q] \in Nat
  <2> SUFFICES ASSUME NEW part \in SUBSET Ranks
               PROVE  IsFiniteSet(part) /\ Sum(part) \in Nat
                      /\ \A q \in part : loads[q] \in Int /\ loads[q] \in Nat
    OBVIOUS
  <2>1. IsFiniteSet(part) /\ \A q \in part : loads[q] \in Int /\ loads[q] \in Nat
    BY <1>0, <1>1, FS_Subset
  <2> QED
    BY <2>1, SumNat
<1>4. ASSUME NEW p \in Ranks, NEW whole \in SUBSET Ranks,
             Lower(p) \cup {p} \in SUBSET whole
      PROVE  First(p) + team'[p].threads <= Sum(whole)
  <2> DEFINE lower == Lower(p)
  <2>1. lower \in SUBSET Ranks /\ p \notin lower
    BY <1>0
  <2>2. IsFiniteSet(lower) /\ Sum(lower) \in Nat /\ \A q \in lower : loads[q] \in Int
    BY <1>3, <2>1
  <2>3. lower \cup {p} \in SUBSET whole /\ First(p) = Sum(lower)
    BY <1>2, <1>4
  <2> HIDE DEF lower
  <2>4. Sum(lower \cup {p}) = loads[p] + Sum(lower)
    BY <1>1, <2>1, <2>2, SumAdd
  <2>5. IsFiniteSet(whole) /\ Sum(whole) \in Nat /\ \A q \in whole : loads[q] \in Nat
    BY <1>3
  <2>6. Sum(lower \cup {p}) <= Sum(whole)
    BY <2>3, <2>5, SumSubset
  <2> HIDE DEF Sum
  <2> QED
    BY <1>1, <2>2, <2>3, <2>4, <2>5, <2>6
<1>5. ASSUME NEW p \in Ranks
      PROVE  First(p) \in Nat /\ First(p) + team'[p].threads <= CoresPerSocket
  <2> DEFINE here == {q \in Ranks : socket[q] = team'[p].socket}
  <2>1. SumFunctionOnSet(threads, here) <= CoresPerSocket
    BY <1>1 DEF Fits
  <2>2. here \in SUBSET Ranks /\ Lower(p) \cup {p} \in SUBSET here /\ Lower(p) \in SUBSET Ranks
    OBVIOUS
  <2> HIDE DEF here, Lower
  <2>3. First(p) + team'[p].threads <= Sum(here) /\ First(p) \in Nat /\ Sum(here) \in Nat
    BY <1>2, <1>3, <1>4, <2>2
  <2>4. IsFiniteSet(here) /\ \A q \in here : loads[q] \in Int /\ loads[q] = threads[q]
    BY <1>1, <1>3, <2>2
  <2>5. Sum(here) = SumFunctionOnSet(threads, here)
    BY <2>4, SumCongruence
  <2> HIDE DEF Sum
  <2> QED
    BY <1>1, <2>1, <2>3, <2>5
<1>6. ASSUME NEW p \in Ranks, NEW q \in Ranks, team'[q].socket = team'[p].socket, p < q
      PROVE  First(p) + team'[p].threads <= First(q)
  <2>1. Lower(q) \in SUBSET Ranks /\ Lower(p) \cup {p} \in SUBSET Lower(q)
    BY <1>0, <1>6
  <2> HIDE DEF Lower, Sum
  <2> QED
    BY <1>2, <1>4, <2>1
<1> HIDE DEF Sum, Lower
<1> QED
  BY <1>1, <1>5, <1>6 DEF Placed, CoresPerSocket, First

\* The threads of a placed process, and the cores it is given.
LEMMA PlacedCores ==
    ASSUME machine \in Machines, Even(machine), Placed
    PROVE  /\ \A p \in Ranks : \A t \in TeamOf(p) :
                /\ t \in ThreadIds
                /\ FirstCore(p) + t \in 0 .. CoresPerSocket - 1
                /\ Core(p, t) \in AllCores(machine)
                /\ CoreNumber(p, t) \in Nat
           /\ \A p, q \in Ranks : \A t \in TeamOf(p), u \in TeamOf(q) :
                CoreNumber(p, t) = CoreNumber(q, u) => p = q /\ t = u
<1> DEFINE c == CoresPerSocket
<1>1. /\ c \in Nat \ {0} /\ c <= NumCores(machine)
      /\ \A s \in Sockets(machine) : \A j \in 0 .. c - 1 : s * c + j \in AllCores(machine)
      /\ \A s, r \in Sockets(machine) : \A j, k \in 0 .. c - 1 :
                 s * c + j = r * c + k => s = r /\ j = k
  <2>1. c = machine.cores[0]
    BY DEF CoresPerSocket
  <2> HIDE DEF c
  <2> QED
    BY <2>1, SocketCores
<1>2. \A s \in Sockets(machine) : \A j \in 0 .. c - 1 : SocketCore(s, j) = s * c + j
  BY DEF SocketCore
<1> HIDE DEF c
<1>3. /\ \A s \in Sockets(machine) : \A j \in 0 .. c - 1 : SocketCore(s, j) \in AllCores(machine)
      /\ \A s, r \in Sockets(machine) : \A j, k \in 0 .. c - 1 :
                 SocketCore(s, j) = SocketCore(r, k) => s = r /\ j = k
  BY <1>1, <1>2
<1>4. ASSUME NEW p \in Ranks, NEW t \in TeamOf(p)
      PROVE  /\ t \in ThreadIds
             /\ team[p].socket \in Sockets(machine)
             /\ FirstCore(p) + t \in 0 .. c - 1
             /\ FirstCore(p) \in Nat /\ team[p].threads \in Nat
             /\ t \in Nat /\ t < team[p].threads
             /\ Core(p, t) \in AllCores(machine)
             /\ CoreNumber(p, t) \in Nat
  <2>1. /\ FirstCore(p) \in Nat /\ team[p].threads \in Nat /\ t \in Nat /\ t < team[p].threads
        /\ FirstCore(p) + team[p].threads <= c /\ team[p].socket \in Sockets(machine)
    BY DEF Placed, TeamOf, c
  <2>2. FirstCore(p) + t \in 0 .. c - 1 /\ t \in 0 .. c - 1
    BY <1>1, <2>1
  <2>3. t \in ThreadIds
    <3>1. t \in 0 .. NumCores(machine) - 1 /\ NumCores(machine) \in Nat
      BY <1>1, <2>2, MachineFacts
    <3> QED
      BY <3>1, ThreadForEachCore
  <2>4. Core(p, t) \in AllCores(machine)
    BY <1>3, <2>1, <2>2 DEF Core
  <2>5. CoreNumber(p, t) \in Nat
    BY <2>4, MachinesAssumption DEF CoreNumber
  <2> QED
    BY <2>1, <2>2, <2>3, <2>4, <2>5
<1>5. ASSUME NEW p \in Ranks, NEW q \in Ranks, NEW t \in TeamOf(p), NEW u \in TeamOf(q),
             CoreNumber(p, t) = CoreNumber(q, u)
      PROVE  p = q /\ t = u
  <2>1. Core(p, t) = Core(q, u)
    <3>1. /\ Core(p, t) \in AllCores(machine) /\ Core(q, u) \in AllCores(machine)
          /\ machine.osId[Core(p, t)] = machine.osId[Core(q, u)]
      BY <1>4, <1>5 DEF CoreNumber
    <3> QED
      BY <3>1, HwlocAssumption
  <2>2. team[p].socket = team[q].socket /\ FirstCore(p) + t = FirstCore(q) + u
    BY <1>3, <1>4, <2>1 DEF Core
  <2>3. p = q
    <3>1. p < q \/ q < p \/ p = q
      BY MachinesAssumption DEF Ranks
    <3>2. p < q => FirstCore(p) + team[p].threads <= FirstCore(q)
      BY <2>2 DEF Placed
    <3>3. q < p => FirstCore(q) + team[q].threads <= FirstCore(p)
      BY <2>2 DEF Placed
    <3> QED
      BY <1>4, <2>2, <3>1, <3>2, <3>3
  <2> QED
    BY <1>4, <2>2, <2>3
<1> QED
  BY <1>4, <1>5 DEF c

-----------------------------------------------------------------------------
(* Rounds, and the types of the bindings *)

\* The table topo_init builds.
Built == [s \in Sockets(machine) |->
            [j \in 0 .. CoresPerSocket - 1 |-> machine.osId[SocketCore(s, j)]]]

\* A machine that is not even is never worked on; nobody has a socket before the
\* first placement, and everybody cores of its own after it.
RoundInv ==
    /\ machine \in Machines
    /\ round \in 0 .. MaxRounds
    /\ phase \in [Ranks -> {"down", "done", "apply", "move", "aborted"}]
    /\ skipped \subseteq Ranks
    /\ \/ table = NoTable /\ round = 0 /\ \A p \in Ranks : phase[p] \in {"down", "aborted"}
       \/ /\ table = Built /\ Even(machine)
          /\ \A p \in Ranks : phase[p] \in {"done", "apply", "move"}
    /\ round = 0 => \A p \in Ranks : /\ team[p].socket = -1
                                     /\ phase[p] \in {"down", "aborted", "done"}
    /\ round > 0 => Placed

\* The prime of a placement is the placement when the team and the machine stay.
LEMMA SameTeam ==
    ASSUME UNCHANGED <<machine, team>>
    PROVE  /\ CoresPerSocket' = CoresPerSocket
           /\ \A p \in Ranks : /\ FirstCore(p)' = FirstCore(p) /\ TeamOf(p)' = TeamOf(p)
                               /\ \A t \in TeamOf(p) : /\ Core(p, t)' = Core(p, t)
                                                       /\ CoreNumber(p, t)' = CoreNumber(p, t)
           /\ Placed' = Placed /\ Built' = Built
<1>1. CoresPerSocket' = CoresPerSocket
  BY DEF CoresPerSocket
<1>2. \A p \in Ranks : FirstCore(p)' = FirstCore(p) /\ TeamOf(p)' = TeamOf(p)
  BY DEF FirstCore, TeamOf
<1>3. \A p \in Ranks : \A t \in TeamOf(p) : /\ Core(p, t)' = Core(p, t)
                                            /\ CoreNumber(p, t)' = CoreNumber(p, t)
  BY <1>1, <1>2 DEF Core, CoreNumber, SocketCore
<1>4. Placed' = Placed
  BY <1>1, <1>2 DEF Placed
<1>5. Built' = Built
  BY <1>1 DEF Built, SocketCore
<1> QED
  BY <1>1, <1>2, <1>3, <1>4, <1>5

\* Before the table there is nothing to keep.
LEMMA InitRoundInv == BindingInit => RoundInv
BY MachinesAssumption DEF BindingInit, RoundInv

\* The table is built once, of an even machine; a placement comes when all have
\* applied the last, and stays until all have applied it.
LEMMA RoundStep == RoundInv /\ [BindingNext]_bindingVars => RoundInv'
<1> SUFFICES ASSUME RoundInv, [BindingNext]_bindingVars PROVE RoundInv'
  OBVIOUS
<1>1. CASE TopoInit
  <2>1. CASE Even(machine)
    <3>1. /\ table' = Built /\ phase' = [p \in Ranks |-> "done"]
          /\ UNCHANGED <<machine, team, round, skipped>>
      BY <1>1, <2>1 DEF TopoInit, BuildTable, Built
    <3>2. Built' = Built /\ Placed' = Placed
      BY <3>1, SameTeam
    <3>3. Even(machine)'
      BY <2>1, <3>1
    <3> QED
      BY <2>1, <3>1, <3>2, <3>3 DEF RoundInv
  <2>2. CASE ~Even(machine)
    <3>1. /\ table' = table /\ phase' = [p \in Ranks |-> "aborted"]
          /\ UNCHANGED <<machine, team, round, skipped>>
          /\ table = NoTable
      BY <1>1, <2>2 DEF TopoInit
    <3>2. Placed' = Placed
      BY <3>1, SameTeam
    <3>3. round = 0
      BY <2>2 DEF RoundInv
    <3> QED
      BY <3>1, <3>2, <3>3 DEF RoundInv
  <2> QED
    BY <2>1, <2>2
<1>2. CASE Place
  <2>1. PICK threads \in [Ranks -> 1 .. CoresPerSocket],
             socket \in [Ranks -> Sockets(machine)] :
          /\ Fits(threads, socket)
          /\ team' = [p \in Ranks |->
                        [threads |-> threads[p], socket |-> socket[p],
                         prevThreads |-> team[p].threads,
                         prevSocket |-> team[p].socket]]
    BY <1>2 DEF Place
  <2>2. /\ round < MaxRounds /\ round' = round + 1
        /\ phase' = [p \in Ranks |-> "apply"] /\ skipped' = {}
        /\ machine' = machine /\ table' = table
        /\ \A p \in Ranks : phase[p] = "done"
    BY <1>2 DEF Place
  <2>3. table = Built /\ Even(machine)
    <3>1. 0 \in Ranks
      BY MachinesAssumption DEF Ranks
    <3> QED
      BY <2>2, <3>1 DEF RoundInv
  <2>4. CoresPerSocket \in Nat
    BY MachineFacts DEF CoresPerSocket, RoundInv
  <2>5. \A p \in Ranks : team'[p].threads = threads[p] /\ team'[p].socket = socket[p]
    BY <2>1
  <2>6. Placed'
    BY <2>1, <2>2, <2>4, <2>5, FitsPlaced
  <2>7. Built' = Built
    BY <2>2 DEF Built, SocketCore, CoresPerSocket
  <2>8. Even(machine)'
    BY <2>2, <2>3
  <2>9. round' \in 1 .. MaxRounds
    BY <2>2, MachinesAssumption DEF RoundInv
  <2> QED
    BY <2>2, <2>3, <2>6, <2>7, <2>8, <2>9 DEF RoundInv
<1>3. ASSUME NEW p \in Ranks, Apply(p) \/ EndMove(p) \/ \E t \in ThreadIds : Move(p, t)
      PROVE  RoundInv'
  <2>1. /\ UNCHANGED <<machine, table, team, round>>
        /\ phase[p] \in {"apply", "move"}
        /\ phase' \in {phase, [phase EXCEPT ![p] = "move"], [phase EXCEPT ![p] = "done"]}
        /\ skipped' \in {skipped, skipped \cup {p}}
    BY <1>3 DEF Apply, EndMove, Move
  <2>2. Placed' = Placed /\ Built' = Built
    BY <2>1, SameTeam
  <2>3. round # 0 /\ table = Built /\ Even(machine)
    BY <2>1 DEF RoundInv
  <2>4. Even(machine)'
    BY <2>1, <2>3
  <2>5. /\ phase' \in [Ranks -> {"down", "done", "apply", "move", "aborted"}]
        /\ \A q \in Ranks : phase'[q] \in {"done", "apply", "move"}
    BY <2>1 DEF RoundInv
  <2> QED
    BY <2>1, <2>2, <2>3, <2>4, <2>5 DEF RoundInv
<1>4. CASE UNCHANGED bindingVars
  <2>1. UNCHANGED <<machine, table, team, round, phase, skipped>>
    BY <1>4 DEF bindingVars
  <2>2. Placed' = Placed /\ Built' = Built
    BY <2>1, SameTeam
  <2> QED
    BY <2>1, <2>2 DEF RoundInv
<1> QED
  BY <1>1, <1>2, <1>3, <1>4 DEF BindingNext, BindingEnded

\* Who works on a placement has the table and a machine it can be read of.
LEMMA AtWork ==
    ASSUME RoundInv, NEW p \in Ranks, phase[p] \in {"apply", "move"} \/ AtRest(p)
    PROVE  /\ round > 0 /\ Placed /\ Even(machine) /\ machine \in Machines
           /\ table = Built
           /\ \A t \in TeamOf(p) :
                /\ t \in ThreadIds /\ Core(p, t) \in AllCores(machine)
                /\ CoreNumber(p, t) \in Nat
                /\ table[team[p].socket][FirstCore(p) + t] = CoreNumber(p, t)
<1>1. round > 0 /\ machine \in Machines
  BY DEF RoundInv, AtRest
<1>2. Placed /\ Even(machine) /\ table = Built
  BY <1>1 DEF RoundInv
<1>3. \A t \in TeamOf(p) : /\ t \in ThreadIds /\ Core(p, t) \in AllCores(machine)
                           /\ CoreNumber(p, t) \in Nat
                           /\ FirstCore(p) + t \in 0 .. CoresPerSocket - 1
  BY <1>1, <1>2, PlacedCores
<1>4. team[p].socket \in Sockets(machine)
  BY <1>2 DEF Placed
<1>5. \A t \in TeamOf(p) : table[team[p].socket][FirstCore(p) + t] = CoreNumber(p, t)
  BY <1>2, <1>3, <1>4 DEF Built, CoreNumber, Core
<1> QED
  BY <1>1, <1>2, <1>3, <1>5

\* The bindings of the threads keep to their types: a thread is only ever on a core
\* it may run on.
ThreadsInv == /\ {new, cur} \subseteq [Ranks -> [ThreadIds -> Nat \cup {Unbound}]]
              /\ on \in [Ranks -> [ThreadIds -> machine.allowed \cup {Unbound}]]

\* The bindings keep their type: a thread is moved to a core of the machine, and
\* runs on it if it may.
LEMMA ThreadsStep == RoundInv /\ ThreadsInv /\ [BindingNext]_bindingVars => ThreadsInv'
<1> SUFFICES ASSUME RoundInv, ThreadsInv, [BindingNext]_bindingVars PROVE ThreadsInv'
  OBVIOUS
<1>0. machine' = machine
  BY DEF BindingNext, bindingVars, TopoInit, Place, BindingEnded, Apply, EndMove, Move
<1>1. CASE UNCHANGED threadVars
  BY <1>0, <1>1 DEF ThreadsInv, threadVars
<1>2. ASSUME NEW p \in Ranks, Apply(p) PROVE ThreadsInv'
  <2>1. \A t \in TeamOf(p) : table[team[p].socket][FirstCore(p) + t] \in Nat
    BY <1>2, AtWork DEF Apply
  <2>2. cur' = cur /\ on' = on
    BY <1>2 DEF Apply
  <2>3. new' \in [Ranks -> [ThreadIds -> Nat \cup {Unbound}]]
    <3>1. CASE NothingToDo(p)
      BY <1>2, <3>1 DEF Apply, ThreadsInv
    <3>2. CASE ~NothingToDo(p)
      <4> DEFINE row == [t \in ThreadIds |->
                           IF t \in TeamOf(p) THEN table[team[p].socket][FirstCore(p) + t]
                           ELSE new[p][t]]
      <4>1. new' = [new EXCEPT ![p] = row]
        BY <1>2, <3>2 DEF Apply
      <4>2. row \in [ThreadIds -> Nat \cup {Unbound}]
        BY <2>1 DEF ThreadsInv
      <4> HIDE DEF row
      <4> QED
        BY <4>1, <4>2 DEF ThreadsInv
    <3> QED
      BY <3>1, <3>2
  <2> QED
    BY <1>0, <2>2, <2>3 DEF ThreadsInv
<1>3. ASSUME NEW p \in Ranks, NEW t \in ThreadIds, Move(p, t) PROVE ThreadsInv'
  <2>1. /\ new[p][t] \in Nat \cup {Unbound}
        /\ on[p][t] \in machine.allowed \cup {Unbound}
    BY DEF ThreadsInv
  <2>2. /\ on' = [on EXCEPT ![p][t] = IF new[p][t] \in machine.allowed THEN new[p][t]
                                      ELSE on[p][t]]
        /\ cur' = [cur EXCEPT ![p][t] = new[p][t]]
        /\ new' = [new EXCEPT ![p][t] = Unbound]
    BY <1>3 DEF Move
  <2> QED
    BY <1>0, <2>1, <2>2 DEF ThreadsInv
<1> QED
  BY <1>1, <1>2, <1>3 DEF BindingNext, BindingEnded, bindingVars, TopoInit, Place, EndMove

\* The state of the machine, of the rounds and of the bindings keeps its type, for
\* every machine: sockets that differ are never worked with, and a thread is only
\* on a core it may run on (topo.c:60-118, hwloc_binding.c:50-83).
THEOREM BindingTyped == BindingSpec => []BindingTypeOK
<1>1. BindingInit => ThreadsInv
  BY DEF BindingInit, ThreadsInv, Nowhere, Unbound
<1>2. RoundInv /\ ThreadsInv => BindingTypeOK
  BY DEF RoundInv, ThreadsInv, BindingTypeOK
<1> QED
  BY <1>1, <1>2, InitRoundInv, RoundStep, ThreadsStep, PTL DEF BindingSpec

-----------------------------------------------------------------------------
(* Movers are apart *)

\* A thread that moves, or has moved, in this round does it to the core whose
\* number is that of its placement's core.
NumberInv ==
    \A p \in Ranks \ skipped : (phase[p] = "move" \/ AtRest(p)) =>
        \A t \in TeamOf(p) : \/ new[p][t] = CoreNumber(p, t)
                             \/ new[p][t] = Unbound /\ cur[p][t] = CoreNumber(p, t)

\* A round gives each thread its number, and a move only takes it from new_core_id
\* to cur_core_id.
LEMMA NumberStep ==
    RoundInv /\ ThreadsInv /\ NumberInv /\ [BindingNext]_bindingVars => NumberInv'
<1> SUFFICES ASSUME RoundInv, ThreadsInv, NumberInv, [BindingNext]_bindingVars PROVE NumberInv'
  OBVIOUS
<1>1. CASE TopoInit
  <2>1. round = 0 /\ round' = round
    <3>1. 0 \in Ranks
      BY MachinesAssumption DEF Ranks
    <3> QED
      BY <1>1, <3>1 DEF TopoInit, RoundInv
  <2>2. \A p \in Ranks : phase'[p] # "move"
    BY <1>1 DEF TopoInit
  <2> QED
    BY <2>1, <2>2 DEF NumberInv, AtRest
<1>2. CASE Place
  BY <1>2 DEF Place, NumberInv, AtRest
<1>3. ASSUME UNCHANGED <<machine, team>>, NEW p \in Ranks,
             round' = round, skipped \subseteq skipped',
             \A q \in Ranks \ {p} : /\ new'[q] = new[q] /\ cur'[q] = cur[q]
                                    /\ phase'[q] = phase[q],
             p \notin skipped' /\ (phase'[p] = "move" \/ AtRest(p)') =>
                \A t \in TeamOf(p) : \/ new'[p][t] = CoreNumber(p, t)
                                     \/ new'[p][t] = Unbound /\ cur'[p][t] = CoreNumber(p, t)
      PROVE  NumberInv'
  <2>1. \A q \in Ranks : /\ TeamOf(q)' = TeamOf(q)
                         /\ \A t \in TeamOf(q) : CoreNumber(q, t)' = CoreNumber(q, t)
    BY <1>3, SameTeam
  <2>2. ASSUME NEW q \in Ranks, q \notin skipped', phase'[q] = "move" \/ AtRest(q)'
        PROVE  \A t \in TeamOf(q) :
                  \/ new'[q][t] = CoreNumber(q, t)
                  \/ new'[q][t] = Unbound /\ cur'[q][t] = CoreNumber(q, t)
    <3>1. CASE q = p
      BY <1>3, <2>2, <3>1
    <3>2. CASE q # p
      <4>1. q \in Ranks \ skipped /\ (phase[q] = "move" \/ AtRest(q))
        BY <1>3, <2>2, <3>2 DEF AtRest
      <4> QED
        BY <1>3, <3>2, <4>1 DEF NumberInv
    <3> QED
      BY <3>1, <3>2
  <2> QED
    BY <2>1, <2>2 DEF NumberInv
<1>4. ASSUME NEW p \in Ranks, Apply(p) PROVE NumberInv'
  <2>1. /\ UNCHANGED <<machine, team>> /\ round' = round /\ skipped \subseteq skipped'
        /\ \A q \in Ranks \ {p} : /\ new'[q] = new[q] /\ cur'[q] = cur[q]
                                  /\ phase'[q] = phase[q]
    BY <1>4 DEF Apply, ThreadsInv, RoundInv
  <2>2. CASE NothingToDo(p)
    <3>1. p \in skipped'
      BY <1>4, <2>2 DEF Apply
    <3> QED
      BY <1>3, <2>1, <3>1
  <2>3. CASE ~NothingToDo(p)
    <3>1. new' = [new EXCEPT ![p] = [t \in ThreadIds |->
                    IF t \in TeamOf(p) THEN table[team[p].socket][FirstCore(p) + t]
                    ELSE new[p][t]]]
      BY <1>4, <2>3 DEF Apply
    <3>2. \A t \in TeamOf(p) : /\ t \in ThreadIds
                               /\ table[team[p].socket][FirstCore(p) + t] = CoreNumber(p, t)
      BY <1>4, AtWork DEF Apply
    <3>3. \A t \in TeamOf(p) : new'[p][t] = CoreNumber(p, t)
      BY <3>1, <3>2 DEF ThreadsInv
    <3> QED
      BY <1>3, <2>1, <3>3
  <2> QED
    BY <2>2, <2>3
<1>5. ASSUME NEW p \in Ranks, NEW t \in ThreadIds, Move(p, t) PROVE NumberInv'
  <2>1. /\ UNCHANGED <<machine, team, round, skipped, phase>>
        /\ phase[p] = "move" /\ t \in TeamOf(p) /\ new[p][t] \in AllCores(machine)
        /\ cur' = [cur EXCEPT ![p][t] = new[p][t]]
        /\ new' = [new EXCEPT ![p][t] = Unbound]
    BY <1>5 DEF Move
  <2>2. \A q \in Ranks \ {p} : new'[q] = new[q] /\ cur'[q] = cur[q]
    BY <2>1 DEF ThreadsInv
  <2>3. /\ new'[p][t] = Unbound /\ cur'[p][t] = new[p][t]
        /\ \A u \in ThreadIds \ {t} : new'[p][u] = new[p][u] /\ cur'[p][u] = cur[p][u]
    BY <2>1 DEF ThreadsInv
  <2>4. new[p][t] # Unbound
    BY <2>1 DEF AllCores, Unbound
  <2>5. \A u \in TeamOf(p) : u \in ThreadIds
    BY <2>1, AtWork
  <2>6. p \notin skipped =>
          \A u \in TeamOf(p) : \/ new'[p][u] = CoreNumber(p, u)
                               \/ new'[p][u] = Unbound /\ cur'[p][u] = CoreNumber(p, u)
    BY <2>1, <2>3, <2>4, <2>5 DEF NumberInv
  <2> QED
    BY <1>3, <2>1, <2>2, <2>6
<1>6. ASSUME NEW p \in Ranks, EndMove(p) PROVE NumberInv'
  <2>1. /\ UNCHANGED <<machine, team, round, skipped, new, cur>>
        /\ phase[p] = "move"
        /\ \A q \in Ranks \ {p} : phase'[q] = phase[q]
    BY <1>6 DEF EndMove, threadVars, RoundInv
  <2>2. p \notin skipped' =>
          \A t \in TeamOf(p) : \/ new'[p][t] = CoreNumber(p, t)
                               \/ new'[p][t] = Unbound /\ cur'[p][t] = CoreNumber(p, t)
    BY <2>1 DEF NumberInv
  <2> QED
    BY <1>3, <2>1, <2>2
<1>7. CASE UNCHANGED bindingVars
  <2>1. 0 \in Ranks
    BY MachinesAssumption DEF Ranks
  <2>2. /\ UNCHANGED <<machine, team, round, skipped, new, cur, phase>>
    BY <1>7 DEF bindingVars, threadVars
  <2>3. 0 \notin skipped' /\ (phase'[0] = "move" \/ AtRest(0)') =>
          \A t \in TeamOf(0) : \/ new'[0][t] = CoreNumber(0, t)
                               \/ new'[0][t] = Unbound /\ cur'[0][t] = CoreNumber(0, t)
    BY <2>1, <2>2 DEF NumberInv, AtRest
  <2> QED
    BY <1>3, <2>1, <2>2, <2>3
<1> QED
  BY <1>1, <1>2, <1>4, <1>5, <1>6, <1>7 DEF BindingNext, BindingEnded

\* Whatever the numbers, threads that were moved in this round are on different
\* cores, of one process or of two, for every even machine and any number of
\* processes: distinct indices of a table of distinct numbers (topo.c:92-113,
\* hwloc_binding.c:50).
THEOREM MovedApart == BindingSpec => []MoversApart
<1>1. BindingInit => NumberInv
  BY DEF BindingInit, NumberInv, AtRest
<1>2. BindingInit => ThreadsInv
  BY DEF BindingInit, ThreadsInv, Nowhere, Unbound
<1>3. RoundInv /\ NumberInv => MoversApart
  <2> SUFFICES ASSUME RoundInv, NumberInv,
                      NEW p \in Ranks \ skipped, NEW q \in Ranks \ skipped,
                      AtRest(p), AtRest(q), NEW t \in TeamOf(p), NEW u \in TeamOf(q),
                      WasMoved(p, t), WasMoved(q, u), on[p][t] = on[q][u]
               PROVE  p = q /\ t = u
    BY DEF MoversApart
  <2>1. Placed /\ Even(machine) /\ machine \in Machines
    BY AtWork
  <2>2. CoreNumber(p, t) \in Nat /\ CoreNumber(q, u) \in Nat
    BY <2>1, PlacedCores
  <2>3. cur[p][t] = CoreNumber(p, t)
    <3>1. new[p][t] = Unbound
      BY DEF WasMoved
    <3>2. \/ new[p][t] = CoreNumber(p, t)
          \/ cur[p][t] = CoreNumber(p, t)
      BY Zenon DEF NumberInv
    <3>3. CoreNumber(p, t) # Unbound
      BY <2>2 DEF Unbound
    <3> QED
      BY <3>1, <3>2, <3>3
  <2>4. cur[q][u] = CoreNumber(q, u)
    <3>1. new[q][u] = Unbound
      BY DEF WasMoved
    <3>2. \/ new[q][u] = CoreNumber(q, u)
          \/ cur[q][u] = CoreNumber(q, u)
      BY Zenon DEF NumberInv
    <3>3. CoreNumber(q, u) # Unbound
      BY <2>2 DEF Unbound
    <3> QED
      BY <3>1, <3>2, <3>3
  <2>5. CoreNumber(p, t) = CoreNumber(q, u)
    BY <2>3, <2>4 DEF WasMoved
  <2> QED
    BY <2>1, <2>5, PlacedCores
<1> QED
  BY <1>1, <1>2, <1>3, InitRoundInv, RoundStep, ThreadsStep, NumberStep, PTL DEF BindingSpec

-----------------------------------------------------------------------------
(* Threads are in place *)

\* Thread t of p is on a core, or was refused it.
Settled(p, t, core) == /\ cur[p][t] = core
                       /\ core \in machine.allowed => on[p][t] = core

\* Where the threads of a team are before it applies a placement: nowhere yet, or
\* on a row of cores of the socket it had.
Behind(p) ==
    \/ team[p].prevSocket = -1
    \/ /\ team[p].prevSocket \in Sockets(machine)
       /\ \E f \in Nat : /\ f + team[p].prevThreads <= CoresPerSocket
                         /\ \A t \in 0 .. team[p].prevThreads - 1 :
                               Settled(p, t, SocketCore(team[p].prevSocket, f + t))

PlainRank(p) ==
    /\ AtRest(p) => \A t \in TeamOf(p) : Settled(p, t, Core(p, t))
    /\ phase[p] = "move" => \A t \in TeamOf(p) :
         \/ new[p][t] = Core(p, t)
         \/ new[p][t] = Unbound /\ Settled(p, t, Core(p, t))
    /\ phase[p] = "apply" => Behind(p)

PlainInv == Plain(machine) => \A p \in Ranks : PlainRank(p)

\* A process that has nothing to do on a plain machine is in place: its index is
\* the number of a core of the first socket only, so that is where it was.
LEMMA ShortcutInPlace ==
    ASSUME RoundInv, NEW p \in Ranks, phase[p] = "apply", Behind(p), NothingToDo(p)
    PROVE  \A t \in TeamOf(p) : Settled(p, t, Core(p, t))
<1>1. /\ round > 0 /\ Placed /\ Even(machine) /\ machine \in Machines
  BY AtWork
<1>2. /\ team[p].threads = team[p].prevThreads /\ team[p].socket = team[p].prevSocket
      /\ cur[p][0] = FirstCore(p)
  BY DEF NothingToDo
<1>3. /\ team[p].threads \in Nat \ {0} /\ team[p].socket \in Sockets(machine)
      /\ FirstCore(p) \in Nat /\ FirstCore(p) + team[p].threads <= CoresPerSocket
  BY <1>1 DEF Placed
<1>4. team[p].socket \in Nat /\ 0 \in Sockets(machine)
  BY <1>1, <1>3, MachineFacts
<1>5. PICK f \in Nat : /\ f + team[p].threads <= CoresPerSocket
                       /\ \A t \in 0 .. team[p].threads - 1 :
                            Settled(p, t, SocketCore(team[p].socket, f + t))
  BY <1>2, <1>4 DEF Behind
<1>6. cur[p][0] = SocketCore(team[p].socket, f + 0)
  BY <1>3, <1>5 DEF Settled
<1> DEFINE c == CoresPerSocket
<1>7. /\ c \in Nat \ {0}
      /\ \A s, r \in Sockets(machine) : \A j, k \in 0 .. c - 1 :
            s * c + j = r * c + k => s = r /\ j = k
  <2>1. c = machine.cores[0]
    BY DEF CoresPerSocket
  <2> HIDE DEF c
  <2> QED
    BY <1>1, <2>1, SocketCores
<1>8. team[p].socket * c + f = 0 * c + FirstCore(p)
  BY <1>2, <1>3, <1>4, <1>6, <1>7 DEF SocketCore
<1>9. f \in 0 .. c - 1 /\ FirstCore(p) \in 0 .. c - 1
  BY <1>3, <1>5, <1>7
<1> HIDE DEF c
<1>10. f = FirstCore(p)
  BY <1>3, <1>4, <1>7, <1>8, <1>9
<1> QED
  BY <1>5, <1>10 DEF TeamOf, Core

\* A new placement finds the threads where the last one put them; who applies it
\* moves them, or has nothing to do.
LEMMA PlainStep ==
    RoundInv /\ ThreadsInv /\ PlainInv /\ [BindingNext]_bindingVars => PlainInv'
<1> SUFFICES ASSUME RoundInv, ThreadsInv, PlainInv, [BindingNext]_bindingVars PROVE PlainInv'
  OBVIOUS
<1>0. machine' = machine
  BY DEF BindingNext, bindingVars, TopoInit, Place, BindingEnded, Apply, EndMove, Move
<1> SUFFICES ASSUME Plain(machine) PROVE \A p \in Ranks : PlainRank(p)'
  BY <1>0 DEF PlainInv
<1>1. \A p \in Ranks : PlainRank(p)
  BY DEF PlainInv
<1>2. CASE TopoInit
  <2>1. 0 \in Ranks
    BY MachinesAssumption DEF Ranks
  <2>2. round = 0 /\ round' = round
    BY <1>2, <2>1 DEF TopoInit, RoundInv
  <2>3. \A p \in Ranks : phase'[p] \notin {"move", "apply"}
    BY <1>2 DEF TopoInit
  <2> QED
    BY <2>2, <2>3 DEF PlainRank, AtRest
<1>3. CASE Place
  <2> SUFFICES ASSUME NEW p \in Ranks PROVE PlainRank(p)'
    OBVIOUS
  <2>1. /\ phase'[p] = "apply" /\ phase[p] = "done"
        /\ team'[p].prevThreads = team[p].threads
        /\ team'[p].prevSocket = team[p].socket
        /\ UNCHANGED <<machine, cur, on>>
    BY <1>3 DEF Place, threadVars
  <2>2. CASE round = 0
    <3>1. team'[p].prevSocket = -1
      BY <2>1, <2>2 DEF RoundInv
    <3> QED
      BY <2>1, <3>1 DEF PlainRank, Behind, AtRest
  <2>3. CASE round # 0
    <3>1. AtRest(p) /\ Placed
      BY <2>1, <2>3 DEF AtRest, RoundInv
    <3>2. /\ team[p].socket \in Sockets(machine) /\ FirstCore(p) \in Nat
          /\ FirstCore(p) + team[p].threads <= CoresPerSocket
      BY <3>1 DEF Placed
    <3>3. \A t \in 0 .. team[p].threads - 1 :
             Settled(p, t, SocketCore(team[p].socket, FirstCore(p) + t))
      BY <1>1, <3>1 DEF PlainRank, TeamOf, Core
    <3>4. Behind(p)'
      <4>1. CoresPerSocket' = CoresPerSocket
        BY <2>1 DEF CoresPerSocket
      <4> DEFINE f == FirstCore(p)
                 s == team[p].socket
                 n == team[p].threads
      <4>2. /\ s \in Sockets(machine) /\ f \in Nat /\ f + n <= CoresPerSocket
            /\ \A t \in 0 .. n - 1 : Settled(p, t, SocketCore(s, f + t))
        BY <3>2, <3>3
      <4>3. team'[p].prevSocket = s /\ team'[p].prevThreads = n
        BY <2>1
      <4> HIDE DEF f, s, n
      <4>4. \A t \in 0 .. n - 1 : /\ cur'[p][t] = SocketCore(s, f + t)
                                  /\ SocketCore(s, f + t) \in machine'.allowed
                                       => on'[p][t] = SocketCore(s, f + t)
        BY <2>1, <4>2 DEF Settled
      <4>5. \A t \in 0 .. n - 1 : SocketCore(s, f + t) = s * CoresPerSocket + (f + t)
        BY DEF SocketCore
      <4> QED
        BY <2>1, <4>1, <4>2, <4>3, <4>4, <4>5 DEF Behind, Settled, SocketCore
    <3> QED
      BY <2>1, <3>4 DEF PlainRank, AtRest
  <2> QED
    BY <2>2, <2>3
<1>4. ASSUME UNCHANGED <<machine, team, round>>, NEW q \in Ranks,
             new'[q] = new[q], cur'[q] = cur[q], on'[q] = on[q], phase'[q] = phase[q]
      PROVE  PlainRank(q)'
  <2>1. /\ CoresPerSocket' = CoresPerSocket /\ TeamOf(q)' = TeamOf(q)
        /\ \A t \in TeamOf(q) : Core(q, t)' = Core(q, t)
    BY <1>4, SameTeam
  <2>2. \A t, core : Settled(q, t, core)' = Settled(q, t, core)
    BY <1>4 DEF Settled
  <2>3. Behind(q)' = Behind(q)
    <3>1. \A s, j : SocketCore(s, j)' = SocketCore(s, j)
      BY <2>1 DEF SocketCore
    <3> QED
      BY <1>4, <2>1, <3>1 DEF Behind, Settled
  <2>4. AtRest(q)' = AtRest(q)
    BY <1>4 DEF AtRest
  <2>5. PlainRank(q)
    BY <1>1
  <2> QED
    BY <1>4, <2>1, <2>3, <2>4, <2>5 DEF PlainRank, Settled
<1>5. ASSUME NEW p \in Ranks, Apply(p) PROVE \A q \in Ranks : PlainRank(q)'
  <2>1. /\ UNCHANGED <<machine, team, round>> /\ cur' = cur /\ on' = on
        /\ phase[p] = "apply"
        /\ \A q \in Ranks \ {p} : new'[q] = new[q] /\ phase'[q] = phase[q]
    BY <1>5 DEF Apply, ThreadsInv, RoundInv
  <2>2. /\ TeamOf(p)' = TeamOf(p) /\ \A t \in TeamOf(p) : Core(p, t)' = Core(p, t)
    BY <2>1, SameTeam
  <2>3. PlainRank(p)'
    <3>1. CASE NothingToDo(p)
      <4>1. phase'[p] = "done"
        BY <1>5, <3>1 DEF Apply, RoundInv
      <4>2. Behind(p)
        BY <1>1, <2>1 DEF PlainRank
      <4>3. \A t \in TeamOf(p) : Settled(p, t, Core(p, t))
        BY <2>1, <3>1, <4>2, ShortcutInPlace
      <4> QED
        BY <2>1, <2>2, <4>1, <4>3 DEF PlainRank, Settled
    <3>2. CASE ~NothingToDo(p)
      <4>1. /\ phase'[p] = "move"
            /\ new' = [new EXCEPT ![p] = [t \in ThreadIds |->
                    IF t \in TeamOf(p) THEN table[team[p].socket][FirstCore(p) + t]
                    ELSE new[p][t]]]
        BY <1>5, <3>2 DEF Apply, RoundInv
      <4>2. \A t \in TeamOf(p) :
              /\ t \in ThreadIds /\ Core(p, t) \in AllCores(machine)
              /\ table[team[p].socket][FirstCore(p) + t] = CoreNumber(p, t)
        BY <2>1, AtWork
      <4>3. \A t \in TeamOf(p) : CoreNumber(p, t) = Core(p, t)
        BY <4>2 DEF CoreNumber, Plain
      <4>4. \A t \in TeamOf(p) : new'[p][t] = Core(p, t)
        BY <4>1, <4>2, <4>3 DEF ThreadsInv
      <4> QED
        BY <2>2, <4>1, <4>4 DEF PlainRank, AtRest
    <3> QED
      BY <3>1, <3>2
  <2>4. \A q \in Ranks \ {p} : PlainRank(q)'
    BY <1>4, <2>1
  <2> QED
    BY <2>3, <2>4
<1>6. ASSUME NEW p \in Ranks, NEW t \in ThreadIds, Move(p, t)
      PROVE  \A q \in Ranks : PlainRank(q)'
  <2>1. /\ UNCHANGED <<machine, team, round, phase>>
        /\ phase[p] = "move" /\ t \in TeamOf(p) /\ new[p][t] \in AllCores(machine)
        /\ on' = [on EXCEPT ![p][t] = IF new[p][t] \in machine.allowed THEN new[p][t]
                                      ELSE on[p][t]]
        /\ cur' = [cur EXCEPT ![p][t] = new[p][t]]
        /\ new' = [new EXCEPT ![p][t] = Unbound]
    BY <1>6 DEF Move
  <2>2. /\ TeamOf(p)' = TeamOf(p) /\ \A u \in TeamOf(p) : Core(p, u)' = Core(p, u)
    BY <2>1, SameTeam
  <2>3. /\ new'[p][t] = Unbound /\ cur'[p][t] = new[p][t]
        /\ new[p][t] \in machine.allowed => on'[p][t] = new[p][t]
        /\ \A u \in ThreadIds \ {t} : /\ new'[p][u] = new[p][u] /\ cur'[p][u] = cur[p][u]
                                      /\ on'[p][u] = on[p][u]
    BY <2>1 DEF ThreadsInv
  <2>4. \A u \in TeamOf(p) : u \in ThreadIds
    BY <2>1, AtWork
  <2>5. \A u \in TeamOf(p) : \/ new[p][u] = Core(p, u)
                             \/ new[p][u] = Unbound /\ Settled(p, u, Core(p, u))
    BY <1>1, <2>1 DEF PlainRank
  <2>6. new[p][t] = Core(p, t)
    BY <2>1, <2>5 DEF AllCores, Unbound
  <2>7. ASSUME NEW u \in TeamOf(p)
        PROVE  \/ new'[p][u] = Core(p, u)
               \/ /\ new'[p][u] = Unbound
                  /\ cur'[p][u] = Core(p, u)
                  /\ Core(p, u) \in machine.allowed => on'[p][u] = Core(p, u)
    <3>1. CASE u = t
      BY <2>3, <2>6, <3>1
    <3>2. CASE u # t
      BY <2>3, <2>4, <2>5, <3>2 DEF Settled
    <3> QED
      BY <3>1, <3>2
  <2>8. PlainRank(p)'
    BY <2>1, <2>2, <2>7 DEF PlainRank, Settled, AtRest
  <2>9. \A q \in Ranks \ {p} : new'[q] = new[q] /\ cur'[q] = cur[q] /\ on'[q] = on[q]
    BY <2>1 DEF ThreadsInv
  <2>10. \A q \in Ranks \ {p} : PlainRank(q)'
    BY <1>4, <2>1, <2>9
  <2> QED
    BY <2>8, <2>10
<1>7. ASSUME NEW p \in Ranks, EndMove(p) PROVE \A q \in Ranks : PlainRank(q)'
  <2>1. /\ UNCHANGED <<machine, team, round, new, cur, on>>
        /\ phase[p] = "move" /\ phase'[p] = "done"
        /\ \A t \in TeamOf(p) : new[p][t] \notin AllCores(machine)
        /\ \A q \in Ranks \ {p} : phase'[q] = phase[q]
    BY <1>7 DEF EndMove, threadVars, RoundInv
  <2>2. /\ TeamOf(p)' = TeamOf(p) /\ \A t \in TeamOf(p) : Core(p, t)' = Core(p, t)
    BY <2>1, SameTeam
  <2>3. \A t \in TeamOf(p) : Core(p, t) \in AllCores(machine)
    BY <2>1, AtWork
  <2>4. \A t \in TeamOf(p) : Settled(p, t, Core(p, t))
    BY <1>1, <2>1, <2>3 DEF PlainRank
  <2>5. PlainRank(p)'
    BY <2>1, <2>2, <2>4 DEF PlainRank, Settled
  <2>6. \A q \in Ranks \ {p} : PlainRank(q)'
    BY <1>4, <2>1
  <2> QED
    BY <2>5, <2>6
<1>8. CASE UNCHANGED bindingVars
  BY <1>4, <1>8 DEF bindingVars, threadVars
<1> QED
  BY <1>2, <1>3, <1>5, <1>6, <1>7, <1>8 DEF BindingNext, BindingEnded

\* Where the system numbers the cores as hwloc does, each thread of a process that
\* has applied a placement is on the core the placement gives it, or was refused
\* it, for every even machine, any number of processes and any interleaving of
\* their threads (sabo.c:737-749, hwloc_binding.c:50, 70-83).
THEOREM ThreadsInPlace == BindingSpec => []InPlace
<1>1. BindingInit => PlainInv
  BY DEF BindingInit, PlainInv, PlainRank, AtRest
<1>2. BindingInit => ThreadsInv
  BY DEF BindingInit, ThreadsInv, Nowhere, Unbound
<1>3. PlainInv => InPlace
  BY DEF PlainInv, PlainRank, InPlace, Settled, Core
<1> QED
  BY <1>1, <1>2, <1>3, InitRoundInv, RoundStep, ThreadsStep, PlainStep, PTL DEF BindingSpec
=============================================================================
