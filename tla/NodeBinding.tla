----------------------------- MODULE NodeBinding -----------------------------
(***************************************************************************)
(* From a placement to the cores the threads run on: the table of core     *)
(* identifiers (src/common/topo.c), what a process does of a new placement *)
(* (core_apply_new_placement, src/core/sabo.c) and the binding its threads *)
(* make in parallel (src/intel/sabo_intel_omp.c, src/common/binding.c,     *)
(* src/common/hwloc_binding.c).                                            *)
(*                                                                         *)
(* A core has two numbers: hwloc's logical index, which counts the cores   *)
(* socket by socket, and the operating system's number of its first        *)
(* hardware thread.  The table holds the second, hwloc is asked for a core *)
(* by the first.  The machine chooses how it numbers, and which cores the  *)
(* processes may run on.                                                   *)
(*                                                                         *)
(* External: the placements, any that fit, the same for all processes      *)
(* (SaboNode); hwloc and the operating system.                             *)
(***************************************************************************)
EXTENDS NodeProcesses, FiniteSets, FiniteSetsExt

CONSTANTS Machines,         \* the machines considered
          OmpNumThreads,    \* OMP_NUM_THREADS
          MaxRounds         \* bound: placements

Unbound == -1               \* anywhere; and no identifier

\* A machine: the cores of each socket, the number the system gives each core,
\* and the cores a thread may be bound to.
Sockets(m)  == DOMAIN m.cores
NumCores(m) == SumFunctionOnSet(m.cores, Sockets(m))
AllCores(m) == 0 .. NumCores(m) - 1

ASSUME MachinesAssumption ==
    /\ NumProcs \in Nat \ {0} /\ OmpNumThreads \in Nat /\ MaxRounds \in Nat
    /\ IsFiniteSet(Machines)
    /\ \A m \in Machines : /\ \A s \in Sockets(m) : m.cores[s] \in Nat \ {0}
                           /\ m.osId \in [AllCores(m) -> Nat]
                           /\ m.allowed \subseteq AllCores(m)

\* hwloc numbers the sockets from zero; a processor is in one core only, so that
\* its number tells the core (topo.c:81, 100-109).
ASSUME HwlocAssumption ==
    \A m \in Machines :
        /\ IsFiniteSet(Sockets(m)) /\ 0 \in Sockets(m)
        /\ Sockets(m) = 0 .. Cardinality(Sockets(m)) - 1
        /\ \A c, d \in AllCores(m) : m.osId[c] = m.osId[d] => c = d

VARIABLES
    machine,    \* the machine
    table,      \* sabo_topo_core_id_by_socket, once it is built
    team,       \* threads, socket and their previous values of each process
    round,      \* placements so far
    phase,      \* where each process is in core_apply_new_placement
    new, cur,   \* binding[t].new_core_id and cur_core_id, thread by thread
    on,         \* the core, by its logical index, each thread is bound to
    skipped     \* history: who had nothing to do in this round

threadVars == <<new, cur, on>>
bindingVars == <<machine, table, team, round, phase, threadVars, skipped>>

NoTable == <<>>
Even(m) == \A s, r \in Sockets(m) : m.cores[s] = m.cores[r]

\* topo_get_num_cores_per_socket, of a machine whose sockets are alike.
CoresPerSocket == machine.cores[0]
SocketCore(s, j) == s * CoresPerSocket + j

ThreadIds == 0 .. Max({NumCores(m) : m \in Machines}) - 1
Nowhere   == [p \in Ranks |-> [t \in ThreadIds |-> Unbound]]

BindingInit == /\ machine \in Machines
               /\ table = NoTable
               /\ team = [p \in Ranks |-> [threads |-> OmpNumThreads, socket |-> -1,
                                           prevThreads |-> -1, prevSocket |-> -1]]
               /\ round = 0
               /\ phase = [p \in Ranks |-> "down"]
               /\ new = Nowhere /\ cur = Nowhere /\ on = Nowhere
               /\ skipped = {}
-----------------------------------------------------------------------------
(* The topology *)

\* A faulty version: the table is filled in by the index in the socket.
BuildTableLocal ==
    table' = [s \in Sockets(machine) |-> [j \in 0 .. CoresPerSocket - 1 |-> j]]

\* topo_get_socket_core_id, called by topo_init before any thread is.
BuildTable ==
    table' = [s \in Sockets(machine) |->
                [j \in 0 .. CoresPerSocket - 1 |-> machine.osId[SocketCore(s, j)]]]

\* A faulty version: the sockets are taken to be like the first.
TopoInitAnyway == /\ table = NoTable /\ \A p \in Ranks : phase[p] = "down"
                  /\ BuildTable /\ phase' = [p \in Ranks |-> "done"]
                  /\ UNCHANGED <<machine, team, round, threadVars, skipped>>

\* topo_init.  Sockets that differ give a number of cores of -1, which is only
\* reported: the allocation of the table is what fails.
TopoInit == /\ table = NoTable /\ \A p \in Ranks : phase[p] = "down"
            /\ IF Even(machine)
               THEN BuildTable /\ phase' = [p \in Ranks |-> "done"]
               ELSE table' = table /\ phase' = [p \in Ranks |-> "aborted"]
            /\ UNCHANGED <<machine, team, round, threadVars, skipped>>
-----------------------------------------------------------------------------
(* A round *)

Fits(threads, socket) ==
    \A s \in Sockets(machine) :
        SumFunctionOnSet(threads, {p \in Ranks : socket[p] = s}) <= CoresPerSocket

\* All processes have decided the same placement, and none can decide another
\* before all have applied this one: they exchange their times in between.
Place ==
    /\ round < MaxRounds /\ \A p \in Ranks : phase[p] = "done"
    /\ round' = round + 1
    /\ \E threads \in [Ranks -> 1 .. CoresPerSocket],
          socket \in [Ranks -> Sockets(machine)] :
          /\ Fits(threads, socket)
          /\ team' = [p \in Ranks |->
                        [threads |-> threads[p], socket |-> socket[p],
                         prevThreads |-> team[p].threads,
                         prevSocket |-> team[p].socket]]
    /\ phase' = [p \in Ranks |-> "apply"] /\ skipped' = {}
    /\ UNCHANGED <<machine, table, threadVars>>

\* core_compute_first_core_id.
FirstCore(p) == SumFunctionOnSet([q \in Ranks |-> team[q].threads],
                    {q \in Ranks : team[q].socket = team[p].socket /\ q < p})

TeamOf(p) == 0 .. team[p].threads - 1

\* A faulty version: it is enough to have as many threads as before.
NothingToDoSameThreads(p) == /\ team[p].threads = team[p].prevThreads
                             /\ team[p].socket = team[p].prevSocket

\* The core the first thread was bound to, as the table names it, is compared
\* with an index in the socket.
NothingToDo(p) == /\ team[p].threads = team[p].prevThreads
                  /\ cur[p][0] = FirstCore(p)
                  /\ team[p].socket = team[p].prevSocket

\* core_apply_new_placement, up to the region that moves the threads.
Apply(p) ==
    /\ phase[p] = "apply"
    /\ IF NothingToDo(p)
       THEN /\ phase' = [phase EXCEPT ![p] = "done"]
            /\ skipped' = skipped \cup {p} /\ new' = new
       ELSE /\ phase' = [phase EXCEPT ![p] = "move"] /\ skipped' = skipped
            /\ new' = [new EXCEPT ![p] = [t \in ThreadIds |->
                         IF t \in TeamOf(p)
                         THEN table[team[p].socket][FirstCore(p) + t]
                         ELSE @[t]]]
    /\ UNCHANGED <<machine, table, team, round, cur, on>>

\* sabo_hwloc_set_thread_affinity.  The system may refuse the core: that is only
\* reported, and the thread counts as moved.
Move(p, t) ==
    /\ phase[p] = "move" /\ t \in TeamOf(p)
    /\ new[p][t] \in AllCores(machine)
    /\ on' = [on EXCEPT ![p][t] = IF new[p][t] \in machine.allowed THEN new[p][t]
                                  ELSE @]
    /\ cur' = [cur EXCEPT ![p][t] = new[p][t]]
    /\ new' = [new EXCEPT ![p][t] = Unbound]
    /\ UNCHANGED <<machine, table, team, round, phase, skipped>>

\* The end of the region.  A thread whose core hwloc does not know has left
\* everything as it was.
EndMove(p) == /\ phase[p] = "move"
              /\ \A t \in TeamOf(p) : new[p][t] \notin AllCores(machine)
              /\ phase' = [phase EXCEPT ![p] = "done"]
              /\ UNCHANGED <<machine, table, team, round, threadVars, skipped>>

BindingEnded == /\ \/ \A p \in Ranks : phase[p] = "aborted"
                   \/ round = MaxRounds /\ \A p \in Ranks : phase[p] = "done"
                /\ UNCHANGED bindingVars

BindingNext == \/ TopoInit \/ Place \/ BindingEnded
               \/ \E p \in Ranks : Apply(p) \/ EndMove(p)
               \/ \E p \in Ranks, t \in ThreadIds : Move(p, t)

BindingSpec == BindingInit /\ [][BindingNext]_bindingVars
-----------------------------------------------------------------------------
(* Properties *)

\* Sockets that differ are never worked with.
BindingTypeOK == /\ machine \in Machines
                 /\ table # NoTable => Even(machine)
                 /\ round \in 0 .. MaxRounds
                 /\ phase \in [Ranks -> {"down", "done", "apply", "move", "aborted"}]
                 /\ {new, cur} \subseteq [Ranks -> [ThreadIds -> Nat \cup {Unbound}]]
                 /\ on \in [Ranks -> [ThreadIds -> machine.allowed \cup {Unbound}]]
                 /\ skipped \subseteq Ranks

AtRest(p) == phase[p] = "done" /\ round > 0

Plain(m) == \A c \in AllCores(m) : m.osId[c] = c

\* Where the system numbers the cores as hwloc does, each thread of a process
\* that has applied a placement is on the core the placement gives it, or was
\* refused it -- also when the process did nothing because its first thread, as
\* far as it knows, was in place (sabo.c:737-749, hwloc_binding.c:50, 70-83).
InPlace ==
    \A p \in Ranks : AtRest(p) /\ Plain(machine) =>
        \A t \in TeamOf(p) :
            LET core == SocketCore(team[p].socket, FirstCore(p) + t)
            IN  core \in machine.allowed => on[p][t] = core

\* The core was known, and not refused.
WasMoved(p, t) == /\ new[p][t] = Unbound
                  /\ on[p][t] # Unbound /\ on[p][t] = cur[p][t]

\* Whatever the numbers, threads that were moved in this round are on different
\* cores, of one process or of two: the confusion of the two numberings moves
\* threads to other cores than meant, and other sockets, but never two to the
\* same one (topo.c:92-113, hwloc_binding.c:50).  A process that found nothing to
\* do is left out: the index it compares with may be somebody else's core.
MoversApart ==
    \A p, q \in {r \in Ranks \ skipped : AtRest(r)} :
        \A t \in TeamOf(p), u \in TeamOf(q) :
            (WasMoved(p, t) /\ WasMoved(q, u) /\ on[p][t] = on[q][u])
                => p = q /\ t = u
=============================================================================
