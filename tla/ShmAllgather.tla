---------------------------- MODULE ShmAllgather ----------------------------
(***************************************************************************)
(* The allgather of the processes of a node through a shared segment       *)
(* (src/modules/module_shm.c): the counter-and-generation barrier, the     *)
(* segment's layout, the table of world ranks exchanged at initialisation. *)
(*                                                                         *)
(* A step is one access to shared memory.  They are taken in program       *)
(* order: the code runs on x86_64 only (arch.h) and both counters are      *)
(* updated by locked instructions.  A copy is one step, from "copy" to the *)
(* place after it: a process in "copy" is anywhere inside its memcpy.      *)
(* External: the files the processes find the segment by.                  *)
(***************************************************************************)
EXTENDS NodeProcesses, Sequences, FiniteSets

CONSTANTS Count,            \* doubles each process contributes (window)
          GenMod,           \* values a generation takes (2^32)
          WorldRank,        \* world rank of each node rank
          Garbage,          \* a world rank overwritten by a double
          MaxCalls          \* bound: allgathers each process makes

ASSUME CountersAssumption == /\ NumProcs \in Nat \ {0} /\ Count \in Nat \ {0}
                             /\ GenMod \in Nat /\ GenMod > 1
                             /\ MaxCalls \in Nat

Nobody == <<>>              \* a slot nobody wrote

SizeofDouble == 8
SizeofInt    == 4
RbufOffset   == 24          \* sizeof(struct module_shm_ctx)
GenOffset    == 1024        \* offset of gen_id and nwritter in the segment
PageSize     == 4096

\* shm_allgather adds a number of bytes to a pointer to double: in units of
\* Count doubles, the contribution of p is in slot 8p.
Slot(p) == p * SizeofDouble

FirstByte(p) == RbufOffset + Slot(p) * Count * SizeofDouble
LastByte(p)  == FirstByte(p) + Count * SizeofDouble - 1

Overlap(p, first, last) == FirstByte(p) <= last /\ first <= LastByte(p)

\* rbuf starts inside the header, over the world ranks from the 7th on.
OverwritesRank(p, q) ==
    Overlap(p, SizeofInt * q, SizeofInt * q + SizeofInt - 1)

\* The instances considered: no contribution is over the two counters, and
\* all are in the one page that is mapped.
ASSUME LayoutAssumption == \A p \in Ranks :
    ~Overlap(p, GenOffset, GenOffset + 7) /\ LastByte(p) < PageSize

VARIABLES
    pc,             \* where a process is
    part,           \* what it copies next or copied last: join, in or out
    local,          \* sabo_shm_module_ctx->gen_id
    gen, nwritter,  \* the counters of the segment
    world,          \* world_ranks, in the segment
    slot,           \* the contributions, in the segment
    translate,      \* sabo_shm_module_translate_node_rank of each process
    received,       \* what each process got from its last allgather
    calls,          \* allgathers each process has made
    arrived, passed \* history: barriers each process came to and went past

memory  == <<world, slot, translate, received>>
history == <<arrived, passed>>
vars == <<pc, part, local, gen, nwritter, memory, calls, history>>

Init == /\ pc = [p \in Ranks |-> "down"]
        /\ part = [p \in Ranks |-> "join"]
        /\ local = [p \in Ranks |-> 0]
        /\ gen = 0 /\ nwritter = 0
        /\ world = [p \in Ranks |-> 0]
        /\ slot = [i \in 0 .. Slot(NumProcs - 1) |-> Nobody]
        /\ translate = [p \in Ranks |-> [q \in Ranks |-> -1]]
        /\ received = [p \in Ranks |-> [q \in Ranks |-> Nobody]]
        /\ calls = [p \in Ranks |-> 0]
        /\ arrived = [p \in Ranks |-> 0] /\ passed = [p \in Ranks |-> 0]

Goto(p, place) == pc' = [pc EXCEPT ![p] = place]

\* The increment of a uint32_t.
NextGeneration(g) == (g + 1) % GenMod
-----------------------------------------------------------------------------
(* Joining *)

\* shm_init_node_master, shm_init_node_client: the master creates the segment
\* before the others find it.  The master does not write its own world rank.
Join(p) == /\ pc[p] = "down"
           /\ p = 0 \/ pc[0] # "down"
           /\ world' = IF p = 0 THEN world
                       ELSE [world EXCEPT ![p] = WorldRank[p]]
           /\ Goto(p, "arrive")
           /\ UNCHANGED <<part, local, gen, nwritter, slot, translate, received,
                          calls, history>>

Translate(p) == /\ pc[p] = "copy" /\ part[p] = "join"
                /\ translate' = [translate EXCEPT ![p] = world]
                /\ Goto(p, "app")
                /\ UNCHANGED <<part, local, gen, nwritter, world, slot, received,
                               calls, history>>
-----------------------------------------------------------------------------
(* The barrier *)

\* The end of module_shm_sync_step_2: the barrier after the last copy of a call
\* is not waited for, the next call does.
Arrived(p) ==
    /\ local' = [local EXCEPT ![p] = NextGeneration(@)]
    /\ IF part[p] = "out"
       THEN /\ Goto(p, "app")
            /\ calls' = [calls EXCEPT ![p] = @ + 1]
            /\ UNCHANGED part
       ELSE /\ Goto(p, "wait")
            /\ part' = [part EXCEPT ![p] = IF @ = "in" THEN "out" ELSE @]
            /\ UNCHANGED calls

\* Two faulty versions: an off-by-one on either side.
IsLastButOne == nwritter = NumProcs - 2

IsLastNever == nwritter = NumProcs

IsLast == nwritter = NumProcs - 1

Arrive(p) ==
    /\ pc[p] = "arrive"
    /\ nwritter' = nwritter + 1
    /\ arrived' = [arrived EXCEPT ![p] = @ + 1]
    /\ IF IsLast THEN Goto(p, "reset") /\ UNCHANGED <<part, local, calls>>
       ELSE Arrived(p)
    /\ UNCHANGED <<gen, memory, passed>>

\* A faulty version: the count is left as it is.
ResetForgotten(p) == /\ pc[p] = "reset"
                     /\ Goto(p, "advance")
                     /\ UNCHANGED <<part, local, gen, nwritter, memory, calls,
                                    history>>

Reset(p) == /\ pc[p] = "reset"
            /\ nwritter' = 0
            /\ Goto(p, "advance")
            /\ UNCHANGED <<part, local, gen, memory, calls, history>>

Advance(p) == /\ pc[p] = "advance"
              /\ gen' = NextGeneration(gen)
              /\ Arrived(p)
              /\ UNCHANGED <<nwritter, memory, history>>

\* module_shm_sync_step_1 sees the generation it waits for.
Wait(p) == /\ pc[p] = "wait" /\ local[p] = gen
           /\ passed' = [passed EXCEPT ![p] = arrived[p]]
           /\ Goto(p, "copy")
           /\ UNCHANGED <<part, local, gen, nwritter, memory, calls, arrived>>
-----------------------------------------------------------------------------
(* The allgather *)

\* A faulty version: a call copies in without waiting for the previous one.
AllgatherAtOnce(p) == /\ pc[p] = "app" /\ calls[p] < MaxCalls
                      /\ Goto(p, "copy")
                      /\ part' = [part EXCEPT ![p] = "in"]
                      /\ UNCHANGED <<local, gen, nwritter, memory, calls, history>>

Allgather(p) == /\ pc[p] = "app" /\ calls[p] < MaxCalls
                /\ Goto(p, "wait")
                /\ part' = [part EXCEPT ![p] = "in"]
                /\ UNCHANGED <<local, gen, nwritter, memory, calls, history>>

CopyIn(p) ==
    /\ pc[p] = "copy" /\ part[p] = "in"
    /\ slot' = [slot EXCEPT ![Slot(p)] = <<p, calls[p] + 1>>]
    /\ world' = [q \in Ranks |-> IF OverwritesRank(p, q) THEN Garbage ELSE world[q]]
    /\ Goto(p, "arrive")
    /\ UNCHANGED <<part, local, gen, nwritter, translate, received, calls, history>>

CopyOut(p) ==
    /\ pc[p] = "copy" /\ part[p] = "out"
    /\ received' = [received EXCEPT ![p] = [q \in Ranks |-> slot[q]]]
    /\ Goto(p, "arrive")
    /\ UNCHANGED <<part, local, gen, nwritter, world, slot, translate, calls, history>>

\* What a process does without returning to the application.
Inside(p) == Translate(p) \/ Arrive(p) \/ Reset(p) \/ Advance(p) \/ Wait(p)
             \/ CopyIn(p) \/ CopyOut(p)

\* The application makes no more calls.
Ended == /\ \A p \in Ranks : pc[p] = "app" /\ calls[p] = MaxCalls
         /\ UNCHANGED vars

Next == (\E p \in Ranks : Join(p) \/ Allgather(p) \/ Inside(p)) \/ Ended

\* A process inside the module is scheduled; whether it calls it is its own
\* business.
Spec == Init /\ [][Next]_vars /\ \A p \in Ranks : WF_vars(Inside(p))
-----------------------------------------------------------------------------
(* Properties *)

TypeOK == /\ pc \in [Ranks -> {"down", "arrive", "reset", "advance", "wait",
                               "copy", "app"}]
          /\ part \in [Ranks -> {"join", "in", "out"}]
          /\ local \in [Ranks -> 0 .. GenMod - 1]
          /\ gen \in 0 .. GenMod - 1
          /\ nwritter \in 0 .. NumProcs
          /\ DOMAIN world = Ranks
          /\ calls \in [Ranks -> Nat]
          /\ arrived \in [Ranks -> Nat] /\ passed \in [Ranks -> Nat]

Copies(p, what) == pc[p] = "copy" /\ part[p] = what

\* Nobody writes its contribution while somebody copies the contributions out,
\* of this call or of the previous one, although a call returns without waiting
\* for the others (module_shm.c:364-378).
PhasesApart == \A p, q \in Ranks : ~(Copies(p, "in") /\ Copies(q, "out"))

\* What a call returns is what the processes contributed to this call, neither
\* to the one before nor to the one a faster process is already in: slot q
\* holds the contribution that goes there, or was never written.  It is then
\* the same in every process, which each one relies on to decide for the node
\* (module_shm.c:362-376, sabo.c:326-362).
ResultOfThisCall ==
    \A p, q \in Ranks : (pc[p] = "app" /\ calls[p] > 0) =>
        received[p][q] = IF \E r \in Ranks : Slot(r) = q
                         THEN <<CHOOSE r \in Ranks : Slot(r) = q, calls[p]>>
                         ELSE Nobody

\* module_shm.c:367-371, "Add my contribution", "Wait all contributions": a call
\* returns the contribution of every process to that call.
AllContributions ==
    \A p, q \in Ranks : (pc[p] = "app" /\ calls[p] > 0)
                            => received[p][q] = <<q, calls[p]>>

Meeting == INSTANCE Rendezvous WITH
    Ranks <- Ranks, arrived <- arrived, passed <- passed

\* The barrier is one: a generation that wraps around and a counter that is
\* reset before the generation changes let nobody through early.
MeetingsHold == Meeting!Spec

\* A process that waits for a barrier everybody has come to goes past it
\* (module_shm.c:50-82).
NobodyWaitsForNothing ==
    \A p \in Ranks :
        (pc[p] = "wait" /\ \A q \in Ranks : arrived[q] >= arrived[p])
            ~> (pc[p] # "wait")
=============================================================================
