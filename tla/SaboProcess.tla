----------------------------- MODULE SaboProcess -----------------------------
(***************************************************************************)
(* One process from the inside: the OpenMP callbacks that time its threads *)
(* (src/ompt/sabo_ompt.c), the calls of sabo_omp_balanced that use what    *)
(* they measured (src/core/sabo.c), and the communication layer the calls  *)
(* go through (CommLayer), which comes and goes at its own moments.        *)
(*                                                                         *)
(* The workers of a region run concurrently with each other and with the   *)
(* master.  A time is the region it was measured in and the region whose   *)
(* beginning it is counted from.  The other processes are an answer: the   *)
(* round is cancelled, ends this process, or gives it a number of threads. *)
(* The application follows the documentation: it balances either           *)
(* explicitly or implicitly, and opens no nested region.                   *)
(***************************************************************************)
EXTENDS CommLayer

CONSTANTS Settings,         \* environments the process may be started in
          NumCores,         \* cores of the node
          MaxThreads,       \* bound: threads of a team
          MaxRegions,       \* bound: regions between two calls
          MaxSteps          \* bound: calls

ASSUME SettingsAssumption ==
    /\ NumCores \in Nat \ {0} /\ MaxThreads \in Nat /\ NumCores <= MaxThreads
    /\ MaxRegions \in Nat /\ MaxSteps \in Nat
    /\ \A s \in Settings : /\ {s.implicit, s.periodic} \subseteq BOOLEAN
                           /\ s.window \in Int /\ s.stepbal \in Nat
                           /\ s.threads \in 1 .. MaxThreads

ThreadIds   == 0 .. MaxThreads - 1
Workers     == ThreadIds \ {0}
Rebalancing == 0            \* the region that moves the threads
Unset       == -1

Part == [thread : ThreadIds, region : 0 .. MaxRegions,
         since : Unset .. MaxRegions, edge : {"release", "arrive", "end"}]

VARIABLES
    env,        \* SABO_IMPLICIT_BALANCING, SABO_NUM_STEPS_EXCHANGED, ...
    runtime,    \* the OpenMP runtime, and with it __sabo_core_ctx
    at,         \* where the master is
    reenter,    \* the master's __reenter__
    depth,      \* calls of __sabo_omp_balanced__ under way
    team,       \* threads of the next or of the present region
    place,      \* place[w]: where worker w is
    region,     \* regions of the application since the last call
    start,      \* ompt.start: the region that last set it
    elapsed,    \* ompt.elapsed, entry by entry
    slots,      \* counters.elapsed: the step and the parts of each slot
    step,       \* __sabo_core_ctx->step
    initOnce,   \* __sabo_core_ctx->init_once
    failed      \* how the process has come to an end

worldVars  == <<commVars, env, runtime>>
nestVars   == <<reenter, depth>>
threadVars == <<team, place>>
meterVars  == <<start, elapsed>>
tableVars  == <<slots, step, initOnce>>

ownVars == <<env, runtime, at, nestVars, threadVars, region, meterVars,
             tableVars, failed>>
vars == <<commVars, ownVars>>

\* A fatal error, a failed assertion, a null pointer or a division by zero; and
\* an access past an array, after which nothing is known.
Failures == {"fatal", "out_of_bounds"}

NothingMeasured == [t \in ThreadIds |-> {}]
Measured        == UNION {elapsed[t] : t \in ThreadIds}
NoSlot          == [step |-> Unset, parts |-> {}]

Init == /\ CommInit
        /\ env \in Settings
        /\ runtime = "down" /\ at = "serial" /\ reenter = FALSE /\ depth = 0
        /\ team = env.threads /\ place = [w \in Workers |-> "pool"]
        /\ region = 0 /\ start = Unset /\ elapsed = NothingMeasured
        /\ slots = [i \in 0 .. env.window - 1 |-> NoSlot]
        /\ step = 0 /\ initOnce = FALSE /\ failed = "no"
-----------------------------------------------------------------------------
(* The OpenMP runtime and MPI, which the master starts and stops *)

At(p) == at = p /\ failed = "no"

InRegion == At("region") \/ At("rebalancing")

Serial == At("serial") /\ step < MaxSteps

\* ompt_initialize and sabo_core_init, which has no memory for a window of a
\* negative number of steps; ompt_finalize and sabo_core_fini.
OmptInitialize == /\ Serial /\ runtime = "down"
                  /\ IF env.window < 0
                     THEN failed' = "fatal" /\ runtime' = runtime
                     ELSE runtime' = "up" /\ failed' = failed
                  /\ UNCHANGED <<commVars, env, at, nestVars, threadVars,
                                 region, meterVars, tableVars>>

OmptFinalize == /\ At("serial") /\ runtime = "up" /\ runtime' = "over"
                /\ UNCHANGED <<commVars, env, at, nestVars, threadVars, region,
                               meterVars, tableVars, failed>>

StartMPI  == Serial /\ MPIInitThread /\ UNCHANGED ownVars

StopMPI   == At("serial") /\ MPIFinalize /\ UNCHANGED ownVars

\* By nobody in the library itself, but it is part of the interface.
AskBuffer == Serial /\ CommUp /\ ~sendAsked
             /\ env.window > 0 /\ GetSendBuffer(env.window)
             /\ UNCHANGED ownVars

FailAs(reason) ==
    /\ failed' = reason
    /\ UNCHANGED <<worldVars, at, nestVars, threadVars, region, meterVars,
                   tableVars>>

\* The module refuses MPI_Init.
RefuseMPIInit == Serial /\ mpi = "before" /\ FailAs("fatal")
-----------------------------------------------------------------------------
(* The callbacks *)

InTeam(w) == w < team

Fork(n) == place' = [w \in Workers |-> IF w < n THEN "forked" ELSE "pool"]

\* on_ompt_callback_parallel_begin, by the master.
OnParallelBegin(r) == start' = IF reenter THEN start ELSE r

BeginRegion ==
    /\ Serial /\ runtime = "up" /\ region < MaxRegions
    /\ region' = region + 1
    /\ OnParallelBegin(region + 1) /\ Fork(team)
    /\ at' = "region"
    /\ UNCHANGED <<worldVars, nestVars, team, elapsed, tableVars, failed>>

RegionNow == IF at = "region" THEN region ELSE Rebalancing

PartNow(t, e) ==
    [thread |-> t, region |-> RegionNow, since |-> start, edge |-> e]

\* on_ompt_callback_sync_region, by a worker at either end of the barrier that
\* ends a region: the endpoint is not looked at.  The entry of a thread beyond
\* the cores of the node is past the end of the array.
OnSyncRegion(w, e) ==
    IF w < NumCores
    THEN /\ elapsed' = [elapsed EXCEPT ![w] = @ \cup {PartNow(w, e)}]
         /\ failed' = failed
    ELSE failed' = "out_of_bounds" /\ elapsed' = elapsed

\* A worker leaves the barrier when the next region starts; whether the runtime
\* says so is its own affair.
Release(w) ==
    /\ InRegion /\ place[w] = "forked"
    /\ place' = [place EXCEPT ![w] = "released"]
    /\ OnSyncRegion(w, "release")
    /\ UNCHANGED <<worldVars, at, nestVars, team, region, start, tableVars>>

Arrive(w) ==
    /\ InRegion /\ place[w] \in {"forked", "released"}
    /\ place' = [place EXCEPT ![w] = "arrived"]
    /\ OnSyncRegion(w, "arrive")
    /\ UNCHANGED <<worldVars, at, nestVars, team, region, start, tableVars>>

\* A faulty version: the callback does not look at __reenter__.
OnParallelEndAlways(back) ==
    /\ elapsed' = [elapsed EXCEPT ![0] = {PartNow(0, "end")}]
    /\ reenter' = env.implicit
    /\ depth' = IF env.implicit THEN depth + 1 ELSE depth
    /\ at' = IF env.implicit THEN "called" ELSE back

\* on_ompt_callback_parallel_end, by the master: it replaces what it measured of
\* the region before, and calls the balancing when that is implicit.
OnParallelEnd(back) ==
    IF reenter THEN at' = back /\ UNCHANGED <<elapsed, nestVars>>
    ELSE /\ elapsed' = [elapsed EXCEPT ![0] = {PartNow(0, "end")}]
         /\ reenter' = env.implicit
         /\ depth' = IF env.implicit THEN depth + 1 ELSE depth
         /\ at' = IF env.implicit THEN "called" ELSE back

Joined == \A w \in Workers : InTeam(w) => place[w] = "arrived"

EndRegion ==
    /\ At("region") /\ Joined /\ OnParallelEnd("serial")
    /\ place' = [w \in Workers |-> "pool"]
    /\ UNCHANGED <<worldVars, team, region, start, tableVars, failed>>
-----------------------------------------------------------------------------
(* The call *)

\* Without the runtime there is no context to look at.
ExplicitCall ==
    /\ Serial /\ ~env.implicit
    /\ IF runtime = "up"
       THEN at' = "called" /\ depth' = depth + 1 /\ failed' = failed
       ELSE failed' = "fatal" /\ UNCHANGED <<at, depth>>
    /\ UNCHANGED <<worldVars, reenter, threadVars, region, meterVars,
                   tableVars>>

\* core_gather_ompt_counters: the slot of the step is its remainder by the
\* window, which nothing has looked at before.
DividesByWindow == At("called") /\ env.window = 0 /\ FailAs("fatal")

Gather ==
    /\ At("called") /\ env.window # 0 /\ at' = "gathered"
    /\ slots' = [slots EXCEPT ![step % env.window] =
                                           [step |-> step, parts |-> Measured]]
    /\ UNCHANGED <<worldVars, nestVars, threadVars, region, meterVars, step,
                   initOnce, failed>>

\* core_skip_compute, once SABO_STEP_BALANCING is known not to be zero.
SkipCompute == \/ env.periodic /\ (step + 1) % env.stepbal # 0
               \/ ~env.periodic /\ step # env.stepbal
               \/ env.window > step + 1

DividesByZero == env.periodic /\ env.stepbal = 0

Skip == /\ At("gathered") /\ (~CommUp \/ (~DividesByZero /\ SkipCompute))
        /\ at' = "leave"
        /\ UNCHANGED <<worldVars, nestVars, threadVars, region, meterVars,
                       tableVars, failed>>

\* What ends the process in core_skip_compute, core_init_context and the
\* exchange: the division, the assertions of the communication layer, a window
\* longer than the array of the threads, a receive buffer that is too short.
Failure ==
    IF DividesByZero \/ (~SkipCompute /\ ~CanExchange(env.window))
    THEN {"fatal"}
    ELSE IF SkipCompute THEN {}
    ELSE IF \/ ~initOnce /\ env.window > NumCores
            \/ recvBuffer # NoBuffer /\ ~ExchangeFits(env.window)
         THEN {"out_of_bounds"}
    ELSE {}

Fail == /\ At("gathered") /\ CommUp
        /\ \E reason \in Failure : FailAs(reason)

\* A faulty version: the times measured before the first exchange are lost.
InitContextEmpty ==
    /\ initOnce' = TRUE
    /\ IF initOnce THEN UNCHANGED <<slots, start, elapsed>>
       ELSE /\ slots' = [i \in DOMAIN slots |-> NoSlot]
            /\ start' = Unset /\ elapsed' = NothingMeasured

\* core_init_context: the first exchange moves what was measured into an entry
\* of the new table of processes -- as many threads as the window has steps, and
\* not the time the region under way started.
InitContext ==
    /\ initOnce' = TRUE
    /\ slots' = slots
    /\ IF initOnce THEN UNCHANGED <<start, elapsed>>
       ELSE /\ start' = Unset
            /\ elapsed' = [t \in ThreadIds |->
                             IF t < env.window THEN elapsed[t] ELSE {}]

Exchange ==
    /\ At("gathered") /\ CommUp /\ Failure = {} /\ ~SkipCompute
    /\ at' = "exchanged"
    /\ InitContext /\ GetRecvBuffer(env.window)
    /\ UNCHANGED <<env, runtime, nestVars, threadVars, region, step, failed>>

\* The round is cancelled, or leaves the threads of this process where they are.
Stay == /\ At("exchanged") /\ at' = "leave"
        /\ UNCHANGED <<worldVars, nestVars, threadVars, region, meterVars,
                       tableVars, failed>>

\* The round ends this process: an assertion about its share (sabo.c:486, 540),
\* or no placement for all of them (decision_tree.c:393).
RoundFails == At("exchanged") /\ FailAs("fatal")

\* sabo_intel_omp_rebalance: the next teams have n threads, and a region of
\* SABO's own moves them.
Rebalance(n) ==
    /\ At("exchanged") /\ at' = "rebalancing"
    /\ team' = n /\ Fork(n) /\ OnParallelBegin(Rebalancing)
    /\ UNCHANGED <<worldVars, nestVars, region, elapsed, tableVars, failed>>

EndRebalance ==
    /\ At("rebalancing") /\ Joined /\ OnParallelEnd("leave")
    /\ place' = [w \in Workers |-> "pool"]
    /\ UNCHANGED <<worldVars, team, region, start, tableVars, failed>>

\* A faulty version: the workers' counters are not reset.
LeaveMasterReset ==
    /\ At("leave") /\ at' = "serial"
    /\ step' = step + 1 /\ region' = 0
    /\ elapsed' = [elapsed EXCEPT ![0] = {}]
    /\ depth' = depth - 1 /\ reenter' = FALSE
    /\ UNCHANGED <<worldVars, threadVars, start, slots, initOnce, failed>>

\* LEAVE, and the return to the application.
Leave ==
    /\ At("leave") /\ at' = "serial"
    /\ step' = step + 1 /\ region' = 0
    /\ elapsed' = NothingMeasured
    /\ depth' = depth - 1 /\ reenter' = FALSE
    /\ UNCHANGED <<worldVars, threadVars, start, slots, initOnce, failed>>
-----------------------------------------------------------------------------
\* The application has made its calls, or the process has stopped.
Stop == /\ \/ failed # "no"
           \/ At("serial") /\ (step = MaxSteps \/ runtime = "over")
        /\ UNCHANGED vars

Master == \/ BeginRegion \/ EndRegion \/ ExplicitCall \/ DividesByWindow
          \/ Gather \/ Skip \/ Fail \/ Exchange \/ RoundFails \/ Stay
          \/ EndRebalance \/ Leave
          \/ \E n \in 1 .. NumCores : Rebalance(n)

Environment == \/ OmptInitialize \/ OmptFinalize
               \/ StartMPI \/ StopMPI \/ RefuseMPIInit \/ AskBuffer

Next == \/ Master \/ Environment \/ Stop
        \/ \E w \in Workers : Release(w) \/ Arrive(w)

Spec == Init /\ [][Next]_vars
-----------------------------------------------------------------------------
(* Properties *)

InCall == at \in {"gathered", "exchanged", "rebalancing", "leave"}

TypeOK == /\ CommTypeOK
          /\ env \in Settings /\ runtime \in {"down", "up", "over"}
          /\ at \in {"serial", "region", "called"} \/ InCall
          /\ failed \in {"no"} \cup Failures
          /\ reenter \in BOOLEAN /\ depth \in 0 .. 1
          /\ team \in 1 .. MaxThreads /\ initOnce \in BOOLEAN
          /\ place \in [Workers -> {"pool", "forked", "released", "arrived"}]
          /\ region \in 0 .. MaxRegions /\ step \in 0 .. MaxSteps
          /\ start \in Unset .. MaxRegions
          /\ elapsed \in [ThreadIds -> SUBSET Part]
          /\ slots \in [0 .. env.window - 1 ->
                          [step : Unset .. MaxSteps, parts : SUBSET Part]]

\* The counters keep what StepMeter says, whatever the callbacks of the threads,
\* the calls and the rebalancing regions: the slot of a step holds parts of that
\* step's own regions only, counted from the beginning of their own region, and
\* none of SABO's own region.  Every worker has the part at whose end it arrives,
\* and one more when its release is reported; the master has that of the last
\* region alone, the others being overwritten (sabo_ompt.c:83, 159,
\* sabo.c:755-779, 831-833).
Meter == INSTANCE StepMeter WITH
            window  <- env.window,
            n       <- IF InCall THEN step + 1 ELSE step,
            region  <- IF InCall THEN 0 ELSE region,
            team    <- IF at = "region" THEN 0 .. team - 1 ELSE {},
            current <- IF InCall THEN {} ELSE Measured,
            slots   <- [i \in DOMAIN slots |-> slots[i].parts]

MeasuresForNode == Meter!Spec

\* A call is never made from inside another: the region in which a call moves
\* the threads ends with the callback that makes the implicit calls
\* (sabo_ompt.c:147, 161, sabo_intel_omp.c:34).
CallsNotNested == /\ depth <= 1
                  /\ at \in {"serial", "region"} => depth = 0

\* What is exchanged is the times of the last steps, all of them, whenever the
\* first exchange comes and whatever was measured before the communicator was up
\* (sabo.c:171-176, 319-321, 757-765).
ExchangesLastSteps ==
    at = "exchanged" =>
        {slots[i].step : i \in DOMAIN slots} = (step - env.window + 1) .. step

\* The ways a process ends, and no other, each at its own place: a negative
\* window, MPI_Init, or a call without the runtime; a window of zero, in the
\* first call; a period of zero, in the first call with a communicator; the
\* round itself; and the accesses past an array: more threads than cores in a
\* region, more steps than cores or a send buffer asked for in an exchange.  In
\* particular no call ever uses a communicator or a buffer that MPI_Finalize
\* took away, or that does not fit the node (sabo.c:88-98, 173, 307, 486, 760,
\* decision_tree.c:393, sabo_ompt.c:83, comm.c:117, 133, 150-161).
OnlyKnownFailures ==
    /\ failed = "fatal" =>
          \/ at = "serial" /\ (mpi = "before" \/ runtime # "up")
          \/ at = "called" /\ env.window = 0
          \/ at = "gathered" /\ CommUp /\ env.periodic /\ env.stepbal = 0
          \/ at = "exchanged"
    /\ failed = "out_of_bounds" =>
          \/ at \in {"region", "rebalancing"} /\ env.threads > NumCores
          \/ at = "gathered" /\ CommUp /\ (env.window > NumCores \/ sendAsked)
    /\ at = "exchanged" => nodeComm /\ ExchangeFits(env.window)

\* "Sum all threads time cycle get by OMPT, keep track of current step time"
\* (sabo.c:794-795): what is recorded of a step has a time of every thread of
\* its team for each of the step's regions (sabo_ompt.c:83, 159).
StepSumsAllThreads ==
    at = "gathered" =>
        \A r \in 1 .. region, t \in 0 .. team - 1 :
            \E c \in slots[step % env.window].parts : c.region = r /\ c.thread = t
=============================================================================
