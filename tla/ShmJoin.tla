------------------------------ MODULE ShmJoin ------------------------------
(***************************************************************************)
(* How the processes of a node find their shared segment (src/modules/     *)
(* module_shm.c, sabo_module_shm_init), run after run on the same node.    *)
(*                                                                         *)
(* The master creates the segment, then writes its name in the rendezvous  *)
(* file; the clients read the file until it is complete, and open what it  *)
(* names.  Both names are the same in every run, neither is ever removed,  *)
(* and a run may die at any step: the next one starts from what is left.   *)
(*                                                                         *)
(* Abstracted: the file is absent, too short, or complete (all runs write  *)
(* the same thing; readers and writer hold its lock, so that a write is    *)
(* one step); the contributions, which are in ShmAllgather.  The memset is *)
(* one step.  External: who ends the runs and cleans the node.             *)
(***************************************************************************)
EXTENDS NodeProcesses, FiniteSets

CONSTANTS WorldRank,        \* world rank of each node rank
          Window,           \* SABO_NUM_STEPS_EXCHANGED
          MaxRuns           \* bound: runs on the node

MaxProcs == 256             \* SABO_MAX_PROCESSES_ON_NODE

ASSUME JoinAssumption == /\ NumProcs \in 1 .. MaxProcs /\ Window \in Nat
                         /\ MaxRuns \in Nat
                         /\ WorldRank \in [0 .. NumProcs - 1 -> Nat]

Master  == 0
Clients == Ranks \ {Master}

\* The segment: the run that created it, whether it has its size, and what the
\* processes share.
Segment == [maker : 1 .. MaxRuns, sized : BOOLEAN, world : [Ranks -> Nat],
            nwritter : Nat, gen : Nat]
NoSegment == [maker |-> 0]

\* Where its fields are, in bytes: the world ranks, then the two counters.
RankOffset(q)  == 4 * q
GenOffset      == 4 * MaxProcs
NwritterOffset == GenOffset + 4

PageSize == 4096            \* x86_64

\* What shm_get_mmap_size returns: a number of pages, taken for bytes.
Pages == LET bytes == NwritterOffset + 4 + 8 * Window * NumProcs
         IN  bytes \div PageSize + (IF bytes % PageSize # 0 THEN 1 ELSE 0)

\* What that many bytes of zeroes make of a field: its low bytes come first.
Cleared(offset, value) ==
    LET reached == Pages - offset
    IN  CASE reached <= 0 -> value
          [] reached = 1  -> value - (value % 256)
          [] reached = 2  -> value - (value % 65536)
          [] reached = 3  -> value - (value % 16777216)
          [] reached >= 4 -> 0

VARIABLES
    pc,         \* where a process is in sabo_module_shm_init
    file,       \* the rendezvous file: absent, short or full
    segment,    \* the segment of that name, if there is one
    local,      \* sabo_shm_module_ctx->gen_id
    translate,  \* sabo_shm_module_translate_node_rank
    run,        \* runs started on the node
    clean,      \* history: the run under way found nothing left of another
    came        \* history: the processes of this run that came to the barrier

node == <<run, clean>>
vars == <<pc, file, segment, local, translate, node, came>>

NoTranslation == [q \in Ranks |-> -1]

\* A node nobody has used, before the first run.
Init == /\ pc = [p \in Ranks |-> "gone"]
        /\ file = "absent" /\ segment = NoSegment
        /\ local = [p \in Ranks |-> 0]
        /\ translate = [p \in Ranks |-> NoTranslation]
        /\ run = 0 /\ clean = FALSE /\ came = {}

Goto(p, place) == pc' = [pc EXCEPT ![p] = place]
-----------------------------------------------------------------------------
(* The node *)

Between == \A p \in Ranks : pc[p] = "gone"

StartRun == /\ Between /\ run < MaxRuns
            /\ run' = run + 1
            /\ clean' = (file = "absent" /\ segment = NoSegment)
            /\ pc' = [p \in Ranks |-> IF p = Master THEN "create" ELSE "read"]
            /\ local' = [p \in Ranks |-> 0]
            /\ translate' = [p \in Ranks |-> NoTranslation]
            /\ came' = {}
            /\ UNCHANGED <<file, segment>>

\* A process is killed; or all are, when the run ends: MPI_Finalize is a fatal
\* error here, and nothing is removed.
Crash(p) == /\ pc[p] \notin {"gone", "failed", "crashed", "joined"}
            /\ Goto(p, "crashed")
            /\ UNCHANGED <<file, segment, local, translate, node, came>>

EndRun == /\ ~Between
          /\ pc' = [p \in Ranks |-> "gone"]
          /\ UNCHANGED <<file, segment, local, translate, node, came>>

\* Somebody removes what is left, or the node restarts and loses the segment.
Clean == /\ Between /\ <<file, segment>> # <<"absent", NoSegment>>
         /\ file' \in {file, "absent"} /\ segment' \in {segment, NoSegment}
         /\ UNCHANGED <<pc, local, translate, node, came>>
-----------------------------------------------------------------------------
(* The master: shm_init_node_master *)

\* A faulty version: a segment that is there is taken as it is.
CreateOrOpen == /\ pc[Master] = "create"
                /\ IF segment = NoSegment
                   THEN segment' = [maker |-> run, sized |-> FALSE, gen |-> 0,
                           world |-> [q \in Ranks |-> 0], nwritter |-> 0]
                   ELSE segment' = [segment EXCEPT !.maker = run]
                /\ Goto(Master, "size")
                /\ UNCHANGED <<file, local, translate, node, came>>

\* shm_open with O_EXCL: a segment of that name is fatal.
Create == /\ pc[Master] = "create"
          /\ IF segment = NoSegment
             THEN /\ segment' = [maker |-> run, sized |-> FALSE, gen |-> 0,
                           world |-> [q \in Ranks |-> 0], nwritter |-> 0]
                  /\ Goto(Master, "size")
             ELSE segment' = segment /\ Goto(Master, "failed")
          /\ UNCHANGED <<file, local, translate, node, came>>

\* ftruncate, which also fills the segment with zeroes.
Size == /\ pc[Master] = "size"
        /\ segment' = [segment EXCEPT !.sized = TRUE]
        /\ Goto(Master, "clear")
        /\ UNCHANGED <<file, local, translate, node, came>>

\* A faulty version: memset over the whole segment.
ClearAll == /\ pc[Master] = "clear"
            /\ segment' = [segment EXCEPT !.world = [q \in Ranks |-> 0],
                                          !.nwritter = 0, !.gen = 0]
            /\ Goto(Master, "open")
            /\ UNCHANGED <<file, local, translate, node, came>>

\* memset over as many bytes as the segment has pages.  That is the world rank of
\* the master, and from five pages on those of clients that may have come early.
Clear == /\ pc[Master] = "clear"
         /\ segment' = [segment EXCEPT
                !.world = [q \in Ranks |-> Cleared(RankOffset(q), @[q])],
                !.gen = Cleared(GenOffset, @),
                !.nwritter = Cleared(NwritterOffset, @)]
         /\ Goto(Master, "open")
         /\ UNCHANGED <<file, local, translate, node, came>>

\* shm_sync_remote_master: open creates an empty file when there is none; a page
\* is shorter than what is written.
OpenFile == /\ pc[Master] = "open"
            /\ file' = IF file = "absent" THEN "short" ELSE file
            /\ Goto(Master, "truncate")
            /\ UNCHANGED <<segment, local, translate, node, came>>

Truncate == /\ pc[Master] = "truncate"
            /\ file' = "short"
            /\ Goto(Master, "write")
            /\ UNCHANGED <<segment, local, translate, node, came>>

\* A faulty version: no more than the page is written.
WritePage == /\ pc[Master] = "write"
             /\ Goto(Master, "arrive")
             /\ UNCHANGED <<file, segment, local, translate, node, came>>

Write == /\ pc[Master] = "write"
         /\ file' = "full"
         /\ Goto(Master, "arrive")
         /\ UNCHANGED <<segment, local, translate, node, came>>

Publish == OpenFile \/ Truncate \/ Write
-----------------------------------------------------------------------------
(* The clients: shm_init_node_client *)

\* A faulty version: any file that is there will do.
ReadAnything(p) == /\ pc[p] = "read" /\ file # "absent"
                   /\ Goto(p, IF file = "full" THEN "map" ELSE "failed")
                   /\ UNCHANGED <<file, segment, local, translate, node, came>>

\* shm_sync_remote_client goes on until the file is there and complete.
Read(p) == /\ pc[p] = "read" /\ file = "full"
           /\ Goto(p, "map")
           /\ UNCHANGED <<file, segment, local, translate, node, came>>

\* A faulty version: the result of mmap is not looked at.
MapAnyway(p) == /\ pc[p] = "map"
                /\ Goto(p, "enter")
                /\ UNCHANGED <<file, segment, local, translate, node, came>>

\* shm_open without O_CREAT: without a segment, mmap fails.
Map(p) == /\ pc[p] = "map"
          /\ Goto(p, IF segment = NoSegment THEN "failed" ELSE "enter")
          /\ UNCHANGED <<file, segment, local, translate, node, came>>

\* The first access, a bus error as long as the segment has no size.
Enter(p) ==
    /\ pc[p] = "enter"
    /\ IF segment.sized
       THEN /\ segment' = [segment EXCEPT !.world[p] = WorldRank[p]]
            /\ Goto(p, "arrive")
       ELSE segment' = segment /\ Goto(p, "failed")
    /\ UNCHANGED <<file, local, translate, node, came>>
-----------------------------------------------------------------------------
(* Everybody: the barrier, and the table of world ranks *)

NextGeneration(p) == local' = [local EXCEPT ![p] = @ + 1]

Arrive(p) ==
    /\ pc[p] = "arrive"
    /\ segment' = [segment EXCEPT !.nwritter = @ + 1]
    /\ came' = came \cup {p}
    /\ IF segment.nwritter = NumProcs - 1
       THEN Goto(p, "reset") /\ local' = local
       ELSE Goto(p, "wait") /\ NextGeneration(p)
    /\ UNCHANGED <<file, translate, node>>

Reset(p) == /\ pc[p] = "reset"
            /\ segment' = [segment EXCEPT !.nwritter = 0]
            /\ Goto(p, "advance")
            /\ UNCHANGED <<file, local, translate, node, came>>

Advance(p) == /\ pc[p] = "advance"
              /\ segment' = [segment EXCEPT !.gen = @ + 1]
              /\ NextGeneration(p)
              /\ Goto(p, "wait")
              /\ UNCHANGED <<file, translate, node, came>>

\* A faulty version: the table is read without waiting for the others.
TranslateAtOnce(p) == /\ pc[p] = "wait"
                      /\ translate' = [translate EXCEPT ![p] = segment.world]
                      /\ Goto(p, "joined")
                      /\ UNCHANGED <<file, segment, local, node, came>>

Translate(p) == /\ pc[p] = "wait" /\ segment.gen = local[p]
                /\ translate' = [translate EXCEPT ![p] = segment.world]
                /\ Goto(p, "joined")
                /\ UNCHANGED <<file, segment, local, node, came>>

ClientStep(p) == Read(p) \/ Map(p) \/ Enter(p)

MasterStep == Create \/ Size \/ Clear \/ Publish

Barrier(p) == Arrive(p) \/ Reset(p) \/ Advance(p) \/ Translate(p)

Inside(p) == \/ p = Master /\ MasterStep
             \/ p \in Clients /\ ClientStep(p)
             \/ Barrier(p)

\* The last run on the node has ended.
Ended == Between /\ run = MaxRuns /\ UNCHANGED vars

Next == \/ StartRun \/ EndRun \/ Clean \/ Ended
        \/ \E p \in Ranks : Inside(p) \/ Crash(p)

\* A process inside the module is scheduled until it is killed; whether a run
\* ends, or somebody cleans the node, is not for the module to say.
Spec == Init /\ [][Next]_vars /\ \A p \in Ranks : WF_vars(Inside(p))
-----------------------------------------------------------------------------
(* Properties *)

Places == {"gone", "create", "size", "clear", "open", "truncate", "write", "read",
           "map", "enter", "arrive", "reset", "advance", "wait", "joined",
           "failed", "crashed"}

TypeOK == /\ pc \in [Ranks -> Places]
          /\ file \in {"absent", "short", "full"}
          /\ segment \in Segment \cup {NoSegment}
          /\ local \in [Ranks -> 0 .. 1]
          /\ translate \in [Ranks -> [Ranks -> Nat \cup {-1}]]
          /\ run \in 0 .. MaxRuns /\ clean \in BOOLEAN /\ came \subseteq Ranks
          \* Inside the barrier there is a segment to look at.
          /\ \A p \in Ranks : pc[p] \in {"enter", "arrive", "reset", "advance",
                                         "wait"} => segment # NoSegment

Joined(p) == pc[p] = "joined"

\* The processes of a run meet each other, not the dead: once the master has
\* created the segment of its run, nobody joins before every process of the run
\* has come, although clients may have followed a file and a name another run
\* left; and a master never joins with a segment it did not create
\* (module_shm.c:257, 294-301, 326-331).
MeetsOwnRun ==
    /\ segment.maker = run =>
          \A p \in Ranks : Joined(p) => came = Ranks
    /\ Joined(Master) => segment.maker = run /\ came = Ranks

\* A process that joins its own run's segment knows the world rank of every
\* client: only in a run that found something of another, where clients may come
\* before the segment is cleared, may the clearing have taken it, or its low bytes
\* (module_shm.c:94, 268, 308, 338-341).
RanksTranslated ==
    \A p \in Ranks : (Joined(p) /\ segment.maker = run) => \A q \in Clients :
        \/ translate[p][q] = WorldRank[q]
        \/ ~clean /\ translate[p][q] = Cleared(RankOffset(q), WorldRank[q])

\* What the comment at module_shm.c:335 says of the table ("translation from node
\* rank to world rank"): it gives the world rank of every process of the node.
\* The master never writes its own.
EveryRankTranslated ==
    \A p \in Ranks : (Joined(p) /\ segment.maker = run) =>
        \A q \in Ranks : translate[p][q] = WorldRank[q]

\* On a node where nothing is left of another run nobody fails, wherever the
\* clients are when the master creates and writes (module_shm.c:133-159,
\* 186-193, 297-302).
CleanRunNeverFails == clean => \A p \in Ranks : pc[p] # "failed"

\* Such a run gets everybody to join, unless it is killed.
CleanRunJoins ==
    (clean /\ ~Between) ~> \/ \A p \in Ranks : Joined(p)
                           \/ \E p \in Ranks : pc[p] \in {"crashed", "gone"}
=============================================================================
