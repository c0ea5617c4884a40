-------------------------- MODULE SaboProcess_proof --------------------------
(***************************************************************************)
(* One process, in any environment: the counters implement StepMeter, the  *)
(* calls do not nest, what is exchanged is the last steps, and only known  *)
(* causes end the process -- for any number of threads, cores, steps and   *)
(* regions.                                                                *)
(***************************************************************************)
EXTENDS SaboProcess, TLAPS

\* The communicator, its size and the buffers go together.
CommFacts ==
    /\ initialized = nodeComm
    /\ nodeComm => nodeSize = NodeSize
    /\ bufferWindow \in {Undefined, env.window}
    /\ sendAsked \/ recvBuffer \in {NoBuffer, NodeSize * env.window}

\* The master: its guard is up exactly inside an implicit call.
Control ==
    /\ at \in {"serial", "region"} => depth = 0 /\ reenter = FALSE
    /\ at \notin {"serial", "region"} => depth = 1 /\ reenter = env.implicit
    /\ at # "serial" => step < MaxSteps
    /\ at = "exchanged" => env.window <= step + 1
    /\ team <= NumCores \/ team = env.threads
    /\ \A w \in Workers : place[w] # "pool" => InTeam(w)

\* Steps measured so far, the one of the call under way included.
Gathered == IF InCall THEN step + 1 ELSE step

\* Slot i holds the last gathered step that is i modulo the window.
Holds(s, w, i, n) ==
    \/ s = Unset /\ n <= i
    \/ s \in Nat /\ s % w = i /\ n - w <= s /\ s < n

SlotsHold == \A i \in 0 .. env.window - 1 :
                Holds(slots[i].step, env.window, i, Gathered)

\* An entry has parts of its own thread, of regions that have begun; a worker's
\* place tells which parts of the region under way it has.
OwnParts(t) == \A c \in elapsed[t] : c.thread = t

PastParts(t) == at \in {"serial", "region", "called"} =>
                    \A c \in elapsed[t] : c.region <= region

PlaceParts(w) ==
    /\ place[w] = "forked" => \A c \in elapsed[w] : c.region # region
    /\ place[w] = "released" =>
          \A c \in elapsed[w] : ~(c.region = region /\ c.edge = "arrive")
    /\ place[w] = "arrived" =>
          [thread |-> w, region |-> region, since |-> region, edge |-> "arrive"]
              \in elapsed[w]

Parts == /\ \A t \in ThreadIds : OwnParts(t) /\ PastParts(t)
         /\ at = "region" /\ failed = "no" =>
                start = region /\ \A w \in Workers : PlaceParts(w)

\* There are regions and calls only in a window that was allocated, and a call
\* goes on only if the window has slots.
WindowControl == /\ runtime # "down" => 0 <= env.window
                 /\ at # "serial" => runtime # "down"
                 /\ InCall => env.window # 0

Inv == /\ TypeOK /\ CommFacts /\ Control /\ WindowControl
       /\ SlotsHold /\ Parts /\ OnlyKnownFailures
-----------------------------------------------------------------------------
(* Remainders *)

\* A number is its quotient and its remainder.
LEMMA ModRange ==
    ASSUME NEW w \in Nat \ {0}, NEW a \in Int
    PROVE  /\ a % w \in 0 .. w - 1
           /\ a \div w \in Int
           /\ a = w * (a \div w) + (a % w)
<1>1. a % w \in 0 .. w - 1
  OBVIOUS
<1>2. a \div w \in Int
  OBVIOUS
<1>3. a = w * (a \div w) + (a % w)
  OBVIOUS
<1> QED
  BY <1>1, <1>2, <1>3

\* Only zero is a multiple of w nearer to zero than w.
LEMMA NearMultiple ==
    ASSUME NEW w \in Nat \ {0}, NEW q \in Int, w * q < w, -w < w * q
    PROVE  q = 0
<1>1. ~(q >= 1)
  OBVIOUS
<1>2. ~(q <= -1)
  OBVIOUS
<1> QED
  BY <1>1, <1>2

\* Two numbers nearer than w with the same remainder are the same.
LEMMA ModNear ==
    ASSUME NEW w \in Nat \ {0}, NEW a \in Int, NEW b \in Int,
           a % w = b % w, a - b < w, b - a < w
    PROVE  a = b
<1> DEFINE q == a \div w - b \div w
<1>1. q \in Int /\ a - b = w * q
  <2>1. a = w * (a \div w) + (a % w) /\ b = w * (b \div w) + (b % w)
    BY ModRange
  <2>2. a \div w \in Int /\ b \div w \in Int
    BY ModRange
  <2> QED
    BY <2>1, <2>2
<1> HIDE DEF q
<1>2. q = 0
  BY <1>1, NearMultiple
<1> QED
  BY <1>1, <1>2

\* A step back by w keeps the remainder.
LEMMA ModBack ==
    ASSUME NEW w \in Nat \ {0}, NEW a \in Int
    PROVE  (a - w) % w = a % w
<1> DEFINE q == a \div w - (a - w) \div w - 1
           r == a % w
           s == (a - w) % w
<1>1. /\ a = w * (a \div w) + r /\ a - w = w * ((a - w) \div w) + s
      /\ r \in 0 .. w - 1 /\ s \in 0 .. w - 1
      /\ a \div w \in Int /\ (a - w) \div w \in Int
  <2>1. a - w \in Int
    OBVIOUS
  <2>2. a = w * (a \div w) + r /\ r \in 0 .. w - 1 /\ a \div w \in Int
    BY ModRange
  <2>3. /\ a - w = w * ((a - w) \div w) + s /\ s \in 0 .. w - 1
        /\ (a - w) \div w \in Int
    BY <2>1, ModRange
  <2> QED
    BY <2>2, <2>3
<1>2. q \in Int /\ s - r = w * q
  BY <1>1
<1> HIDE DEF q, r, s
<1>3. q = 0
  BY <1>1, <1>2, NearMultiple
<1>4. s = r
  BY <1>1, <1>2, <1>3
<1> QED
  BY <1>4 DEF r, s
-----------------------------------------------------------------------------
(* The invariant *)

\* What the assumptions say of the environment.
LEMMA EnvFacts ==
    ASSUME env \in Settings
    PROVE  /\ env.window \in Int /\ env.threads \in 1 .. MaxThreads
           /\ env.stepbal \in Nat
           /\ env.implicit \in BOOLEAN /\ env.periodic \in BOOLEAN
  BY SettingsAssumption

\* In a call the window has slots.
LEMMA CallWindow ==
    ASSUME Inv, InCall \/ (at # "serial" /\ env.window # 0)
    PROVE  env.window \in Nat \ {0}
<1>1. env.window \in Int
  BY EnvFacts DEF Inv, TypeOK
<1>2. 0 <= env.window /\ env.window # 0
  BY DEF Inv, WindowControl, InCall
<1> QED
  BY <1>1, <1>2

\* The initial states satisfy it.
LEMMA InitInv == Init => Inv
<1> SUFFICES ASSUME Init PROVE Inv
  OBVIOUS
<1> USE EnvFacts, SettingsAssumption, NodeSizeAssumption
<1>1. TypeOK
  <2>1. CommTypeOK
    BY DEF Init, CommInit, CommTypeOK, Undefined, NoBuffer
  <2>2. /\ elapsed \in [ThreadIds -> SUBSET Part]
        /\ slots \in [0 .. env.window - 1 ->
                        [step : Unset .. MaxSteps, parts : SUBSET Part]]
    BY DEF Init, NothingMeasured, NoSlot, Unset
  <2>3. place \in [Workers -> {"pool", "forked", "released", "arrived"}]
    BY DEF Init
  <2>4. /\ team \in 1 .. MaxThreads /\ region \in 0 .. MaxRegions
        /\ step \in 0 .. MaxSteps /\ start \in Unset .. MaxRegions
        /\ depth \in 0 .. 1
    BY DEF Init, Unset
  <2>5. /\ env \in Settings /\ runtime \in {"down", "up", "over"}
        /\ at \in {"serial", "region", "called"}
        /\ failed \in {"no"} \cup Failures
        /\ reenter \in BOOLEAN /\ initOnce \in BOOLEAN
    BY DEF Init
  <2> QED
    BY <2>1, <2>2, <2>3, <2>4, <2>5 DEF TypeOK
<1>2. CommFacts
  BY DEF Init, CommInit, CommFacts, Undefined, NoBuffer
<1>3. Control
  BY DEF Init, Control
<1>4. SlotsHold
  BY DEF Init, SlotsHold, Holds, Gathered, InCall, NoSlot, Unset
<1>5. Parts
  BY DEF Init, Parts, OwnParts, PastParts, NothingMeasured
<1>6. OnlyKnownFailures
  BY DEF Init, OnlyKnownFailures
<1>7. WindowControl
  BY DEF Init, WindowControl, InCall
<1> QED
  BY <1>1, <1>2, <1>3, <1>4, <1>5, <1>6, <1>7 DEF Inv
-----------------------------------------------------------------------------
(* Which actions change what *)

\* The environment never changes.
LEMMA EnvFixed == [Next]_vars => env' = env
  BY DEF Next, Master, Environment, vars, ownVars, commVars, worldVars,
         nestVars, threadVars, meterVars, tableVars, Stop,
         OmptInitialize, OmptFinalize, StartMPI, StopMPI, RefuseMPIInit,
         AskBuffer, FailAs, BeginRegion, Release, Arrive, EndRegion,
         ExplicitCall, DividesByWindow, Gather, Skip, Fail, Exchange,
         RoundFails, Stay, Rebalance,
         EndRebalance, Leave

\* The communication layer changes when MPI starts or stops, and when a buffer
\* is asked for.
LEMMA CommFrame ==
    [Next]_vars => \/ UNCHANGED commVars
                   \/ StartMPI \/ StopMPI \/ AskBuffer \/ Exchange
  BY DEF Next, Master, Environment, vars, worldVars, Stop, OmptInitialize,
         OmptFinalize, RefuseMPIInit, FailAs, BeginRegion, Release, Arrive,
         EndRegion, ExplicitCall, DividesByWindow, Gather, Skip, Fail,
         RoundFails, Stay, Rebalance, EndRebalance, Leave

\* The workers move in regions.
LEMMA PlaceFrame ==
    [Next]_vars => \/ UNCHANGED threadVars
                   \/ BeginRegion \/ EndRegion \/ EndRebalance
                   \/ \E n \in 1 .. NumCores : Rebalance(n)
                   \/ \E w \in Workers : Release(w) \/ Arrive(w)
  BY DEF Next, Master, Environment, vars, ownVars, threadVars, Stop,
         OmptInitialize, OmptFinalize, StartMPI, StopMPI, RefuseMPIInit,
         AskBuffer, FailAs, ExplicitCall, DividesByWindow, Gather, Skip, Fail,
         Exchange, RoundFails, Stay, Leave

\* The counters change in regions, at the first exchange and when a call ends.
LEMMA MeterFrame ==
    [Next]_vars => \/ UNCHANGED <<meterVars, region>>
                   \/ BeginRegion \/ EndRegion \/ EndRebalance
                   \/ Exchange \/ Leave
                   \/ \E n \in 1 .. NumCores : Rebalance(n)
                   \/ \E w \in Workers : Release(w) \/ Arrive(w)
  BY DEF Next, Master, Environment, vars, ownVars, meterVars, Stop,
         OmptInitialize, OmptFinalize, StartMPI, StopMPI, RefuseMPIInit,
         AskBuffer, FailAs, ExplicitCall, DividesByWindow, Gather, Skip, Fail,
         RoundFails, Stay

\* The master moves on with every action of its own, and only then; and only
\* while the process has not failed.
LEMMA MasterFrame ==
    [Next]_vars => \/ UNCHANGED <<at, nestVars, step, region>>
                   \/ /\ failed = "no"
                      /\ \/ BeginRegion \/ EndRegion \/ ExplicitCall \/ Gather
                         \/ Skip \/ Exchange \/ Stay \/ EndRebalance \/ Leave
                         \/ \E n \in 1 .. NumCores : Rebalance(n)
  BY DEF Next, Master, Environment, vars, ownVars, nestVars, tableVars, Stop,
         OmptInitialize, OmptFinalize, StartMPI, StopMPI, RefuseMPIInit,
         AskBuffer, FailAs, Fail, DividesByWindow, RoundFails, Release, Arrive,
         BeginRegion, EndRegion, ExplicitCall, Gather, Skip, Exchange, Stay,
         EndRebalance, Leave, Rebalance, At, Serial
-----------------------------------------------------------------------------
(* A step keeps the invariant *)

\* The communication layer stays typed, and its facts stay true.
LEMMA CommStep == Inv /\ [Next]_vars => CommTypeOK' /\ CommFacts'
<1> SUFFICES ASSUME Inv, [Next]_vars
             PROVE  CommTypeOK' /\ CommFacts'
  OBVIOUS
<1>1. CommTypeOK /\ CommFacts /\ env \in Settings /\ env' = env
  BY EnvFixed DEF Inv, TypeOK
<1>2. env.window \in Int /\ NodeSize \in Nat \ {0}
  BY <1>1, EnvFacts, NodeSizeAssumption
<1>3. CASE UNCHANGED commVars
  BY <1>1, <1>3 DEF CommTypeOK, CommFacts, commVars
<1>4. CASE StartMPI
  BY <1>1, <1>2, <1>4
     DEF StartMPI, MPIInitThread, PMPIInitThread, AllocNodeComm,
         CacheNodeSize, CommTypeOK, CommFacts, Undefined
<1>5. CASE StopMPI
  BY <1>1, <1>2, <1>5
     DEF StopMPI, MPIFinalize, PMPIFinalize, FreeNodeComm, FreeBuffers,
         CommTypeOK, CommFacts, Undefined, NoBuffer
<1>6. CASE AskBuffer
  BY <1>1, <1>2, <1>6
     DEF AskBuffer, GetSendBuffer, CommTypeOK, CommFacts, Undefined, NoBuffer
<1>7. CASE Exchange
  <2> DEFINE bytes == NodeSize * env.window
  <2>0. env.window \in Nat \ {0}
    BY <1>7, CallWindow DEF Exchange, At, InCall
  <2>1. bytes \in Nat
    BY <1>2, <2>0
  <2>2. nodeComm /\ nodeSize * env.window = bytes
    BY <1>1, <1>7 DEF Exchange, CommUp, CommFacts
  <2>3. GetRecvBuffer(env.window) /\ (sendAsked \/ recvBuffer \in {NoBuffer, bytes})
    BY <1>1, <1>7 DEF Exchange, CommFacts
  <2> HIDE DEF bytes
  <2>4. CommTypeOK'
    BY <1>1, <2>0, <2>1, <2>2, <2>3 DEF GetRecvBuffer, CommTypeOK, Undefined
  <2>5. (sendAsked \/ recvBuffer \in {NoBuffer, bytes})'
    BY <1>1, <2>2, <2>3 DEF GetRecvBuffer, bytes
  <2>6. /\ initialized' = nodeComm'
        /\ nodeComm' => nodeSize' = NodeSize
        /\ bufferWindow' \in {Undefined, env'.window}
    BY <1>1, <2>3 DEF GetRecvBuffer, CommFacts, Undefined
  <2> QED
    BY <1>1, <2>4, <2>5, <2>6 DEF CommFacts, bytes
<1> QED
  BY <1>3, <1>4, <1>5, <1>6, <1>7, CommFrame

\* The window is tested once, by the memory it needs and by the first call.
LEMMA WindowStep == Inv /\ [Next]_vars => WindowControl'
<1> SUFFICES ASSUME Inv, [Next]_vars
             PROVE  WindowControl'
  OBVIOUS
<1>1. /\ WindowControl /\ env' = env /\ env.window \in Int
      /\ env.implicit \in BOOLEAN
      /\ at \notin {"serial", "region"} => reenter = env.implicit
  BY EnvFixed, EnvFacts DEF Inv, TypeOK, Control
<1> USE DEF WindowControl, InCall, At
<1>2. CASE UNCHANGED <<at, runtime>>
  BY <1>1, <1>2
<1>3. CASE OmptInitialize \/ OmptFinalize
  BY <1>1, <1>3 DEF OmptInitialize, OmptFinalize, Serial
<1>4. CASE BeginRegion \/ EndRegion \/ ExplicitCall
  BY <1>1, <1>4
     DEF BeginRegion, EndRegion, OnParallelEnd, ExplicitCall, Serial, worldVars
<1>5. CASE Gather \/ Skip \/ Exchange \/ Stay \/ EndRebalance \/ Leave
  BY <1>1, <1>5
     DEF Gather, Skip, Exchange, Stay, EndRebalance, OnParallelEnd, Leave,
         worldVars
<1>6. ASSUME NEW n \in 1 .. NumCores, Rebalance(n) PROVE WindowControl'
  BY <1>1, <1>6 DEF Rebalance, worldVars
<1>7. \/ UNCHANGED <<at, runtime>> \/ OmptInitialize \/ OmptFinalize
      \/ BeginRegion \/ EndRegion \/ ExplicitCall
      \/ Gather \/ Skip \/ Exchange \/ Stay \/ EndRebalance \/ Leave
      \/ \E n \in 1 .. NumCores : Rebalance(n)
  BY DEF Next, Master, Environment, vars, ownVars, Stop, StartMPI, StopMPI,
         RefuseMPIInit, AskBuffer, FailAs, DividesByWindow, Fail, RoundFails,
         Release, Arrive, worldVars
<1> QED
  BY <1>2, <1>3, <1>4, <1>5, <1>6, <1>7

\* What the master and the runtime are, as TypeOK says it.
MasterTypeOK ==
    /\ env \in Settings /\ runtime \in {"down", "up", "over"}
    /\ at \in {"serial", "region", "called"} \/ InCall
    /\ failed \in {"no"} \cup Failures
    /\ reenter \in BOOLEAN /\ depth \in 0 .. 1
    /\ initOnce \in BOOLEAN
    /\ region \in 0 .. MaxRegions /\ step \in 0 .. MaxSteps

\* Where the master is, the calls under way and its guard, as Control says it.
MasterControl ==
    /\ at \in {"serial", "region"} => depth = 0 /\ reenter = FALSE
    /\ at \notin {"serial", "region"} => depth = 1 /\ reenter = env.implicit
    /\ at # "serial" => step < MaxSteps
    /\ at = "exchanged" => env.window <= step + 1

\* The guard and the calls under way follow the master.
LEMMA MasterControlStep == Inv /\ [Next]_vars => MasterControl'
<1> SUFFICES ASSUME Inv, [Next]_vars
             PROVE  MasterControl'
  OBVIOUS
<1>1. /\ MasterControl /\ env' = env /\ env.implicit \in BOOLEAN
      /\ env.window \in Int
      /\ step \in 0 .. MaxSteps /\ MaxSteps \in Nat
  BY EnvFixed, EnvFacts, SettingsAssumption
     DEF Inv, TypeOK, Control, MasterControl
<1>2. CASE UNCHANGED <<at, nestVars, step, region>>
  BY <1>1, <1>2 DEF MasterControl, nestVars
<1>3. CASE BeginRegion
  BY <1>1, <1>3 DEF BeginRegion, Serial, At, MasterControl, nestVars, tableVars
<1>4. CASE EndRegion
  BY <1>1, <1>4 DEF EndRegion, OnParallelEnd, At, MasterControl, nestVars, tableVars
<1>5. CASE ExplicitCall
  <2>1. env.implicit = FALSE /\ reenter = FALSE /\ depth = 0 /\ at = "serial"
    BY <1>1, <1>5 DEF ExplicitCall, Serial, At, MasterControl
  <2>2. step < MaxSteps /\ step' = step /\ reenter' = reenter
    BY <1>5 DEF ExplicitCall, Serial, tableVars
  <2>3. \/ at' = "called" /\ depth' = depth + 1
       \/ UNCHANGED <<at, depth>>
    BY <1>5 DEF ExplicitCall
  <2>4. reenter' = env'.implicit /\ reenter' = FALSE
    BY <1>1, <2>1, <2>2, Zenon
  <2> QED
    BY <1>1, <2>1, <2>2, <2>3, <2>4 DEF MasterControl
<1>6. CASE Gather
  BY <1>1, <1>6 DEF Gather, At, MasterControl, nestVars
<1>7. CASE Skip
  BY <1>1, <1>7 DEF Skip, At, MasterControl, nestVars, tableVars
<1>8. CASE Exchange
  BY <1>1, <1>8 DEF Exchange, SkipCompute, At, MasterControl, nestVars
<1>9. CASE Stay
  BY <1>1, <1>9 DEF Stay, At, MasterControl, nestVars, tableVars
<1>10. CASE EndRebalance
  BY <1>1, <1>10
     DEF EndRebalance, OnParallelEnd, At, MasterControl, nestVars, tableVars
<1>11. CASE Leave
  BY <1>1, <1>11 DEF Leave, At, MasterControl
<1>12. ASSUME NEW n \in 1 .. NumCores, Rebalance(n) PROVE MasterControl'
  BY <1>1, <1>12 DEF Rebalance, At, MasterControl, nestVars, tableVars
<1> QED
  BY <1>2, <1>3, <1>4, <1>5, <1>6, <1>7, <1>8, <1>9, <1>10, <1>11, <1>12,
     MasterFrame

\* The master and the runtime keep to their types.
LEMMA MasterTypeStep == Inv /\ [Next]_vars => MasterTypeOK'
<1> SUFFICES ASSUME Inv, [Next]_vars
             PROVE  MasterTypeOK'
  OBVIOUS
<1>1. /\ MasterTypeOK /\ env' = env /\ env.implicit \in BOOLEAN
      /\ MaxSteps \in Nat /\ MaxRegions \in Nat
      /\ at # "serial" => step < MaxSteps
      /\ at \in {"serial", "region"} => depth = 0 /\ reenter = FALSE
      /\ at \notin {"serial", "region"} => depth = 1 /\ reenter = env.implicit
  BY EnvFixed, EnvFacts, SettingsAssumption
     DEF Inv, TypeOK, MasterTypeOK, Control
<1> USE DEF MasterTypeOK, InCall, Failures
<1>2. CASE UNCHANGED vars
  BY <1>1, <1>2 DEF vars, ownVars, nestVars, tableVars
<1>3. CASE OmptInitialize \/ OmptFinalize
  BY <1>1, <1>3 DEF OmptInitialize, OmptFinalize, nestVars, tableVars
<1>4. CASE StartMPI \/ StopMPI \/ AskBuffer
  BY <1>1, <1>4 DEF StartMPI, StopMPI, AskBuffer, ownVars, nestVars, tableVars
<1>5. CASE RefuseMPIInit
  BY <1>1, <1>5 DEF RefuseMPIInit, FailAs, worldVars, nestVars, tableVars
<1>6. CASE BeginRegion
  BY <1>1, <1>6 DEF BeginRegion, worldVars, nestVars, tableVars
<1>7. CASE EndRegion
  BY <1>1, <1>7 DEF EndRegion, OnParallelEnd, At, worldVars, nestVars, tableVars
<1>8. CASE ExplicitCall
  BY <1>1, <1>8 DEF ExplicitCall, Serial, At, worldVars, tableVars
<1>9. CASE Gather
  BY <1>1, <1>9 DEF Gather, worldVars, nestVars
<1>10. CASE Skip \/ Stay
  BY <1>1, <1>10 DEF Skip, Stay, worldVars, nestVars, tableVars
<1>11. CASE Fail \/ DividesByWindow \/ RoundFails
  BY <1>1, <1>11
     DEF Fail, DividesByWindow, RoundFails, Failure, FailAs, worldVars,
         nestVars, tableVars
<1>12. CASE Exchange
  BY <1>1, <1>12 DEF Exchange, InitContext, nestVars
<1>13. CASE EndRebalance
  BY <1>1, <1>13
     DEF EndRebalance, OnParallelEnd, At, worldVars, nestVars, tableVars
<1>14. CASE Leave
  <2>1. depth = 1 /\ step < MaxSteps
    BY <1>1, <1>14 DEF Leave, At
  <2>2. /\ at' = "serial" /\ depth' = depth - 1 /\ reenter' = FALSE
        /\ step' = step + 1 /\ region' = 0
        /\ UNCHANGED <<runtime, initOnce, failed>>
    BY <1>14 DEF Leave, worldVars
  <2>3. depth' \in 0 .. 1 /\ step' \in 0 .. MaxSteps /\ region' \in 0 .. MaxRegions
    BY <1>1, <2>1, <2>2
  <2> QED
    BY <1>1, <2>2, <2>3
<1>15. ASSUME NEW n \in 1 .. NumCores, Rebalance(n) PROVE MasterTypeOK'
  BY <1>1, <1>15 DEF Rebalance, worldVars, nestVars, tableVars
<1>16. ASSUME NEW w \in Workers, Release(w) \/ Arrive(w) PROVE MasterTypeOK'
  BY <1>1, <1>16 DEF Release, Arrive, OnSyncRegion, worldVars, nestVars, tableVars
<1>17. CASE Stop
  BY <1>2, <1>17 DEF Stop
<1> QED
  BY <1>2, <1>3, <1>4, <1>5, <1>6, <1>7, <1>8, <1>9, <1>10, <1>11, <1>12,
     <1>13, <1>14, <1>15, <1>16, <1>17 DEF Next, Master, Environment

\* The workers' places and the team.
ThreadsTypeOK ==
    /\ team \in 1 .. MaxThreads
    /\ place \in [Workers -> {"pool", "forked", "released", "arrived"}]

ThreadsControl ==
    /\ team <= NumCores \/ team = env.threads
    /\ \A w \in Workers : place[w] # "pool" => InTeam(w)

\* Only workers of the team move.
LEMMA ThreadsStep == Inv /\ [Next]_vars => ThreadsTypeOK' /\ ThreadsControl'
<1> SUFFICES ASSUME Inv, [Next]_vars
             PROVE  ThreadsTypeOK' /\ ThreadsControl'
  OBVIOUS
<1>1. /\ ThreadsTypeOK /\ ThreadsControl /\ env' = env
      /\ NumCores \in Nat /\ MaxThreads \in Nat /\ NumCores <= MaxThreads
  BY EnvFixed, SettingsAssumption
     DEF Inv, TypeOK, Control, ThreadsTypeOK, ThreadsControl
<1> USE DEF ThreadsTypeOK, ThreadsControl, InTeam
<1>2. CASE UNCHANGED threadVars
  BY <1>1, <1>2 DEF threadVars
<1>3. CASE BeginRegion
  BY <1>1, <1>3 DEF BeginRegion, Fork
<1>4. CASE EndRegion
  BY <1>1, <1>4 DEF EndRegion
<1>5. CASE EndRebalance
  BY <1>1, <1>5 DEF EndRebalance
<1>6. ASSUME NEW n \in 1 .. NumCores, Rebalance(n)
      PROVE  ThreadsTypeOK' /\ ThreadsControl'
  BY <1>1, <1>6 DEF Rebalance, Fork
<1>7. ASSUME NEW w \in Workers, Release(w) \/ Arrive(w)
      PROVE  ThreadsTypeOK' /\ ThreadsControl'
  BY <1>1, <1>7 DEF Release, Arrive
<1> QED
  BY <1>2, <1>3, <1>4, <1>5, <1>6, <1>7, PlaceFrame

\* The counters: what is measured, and the region it is counted from.
MetersTypeOK == /\ start \in Unset .. MaxRegions
                /\ elapsed \in [ThreadIds -> SUBSET Part]

\* What a thread measures is a part.
LEMMA PartTyped ==
    ASSUME TypeOK, NEW t \in ThreadIds, NEW e \in {"release", "arrive", "end"}
    PROVE  /\ PartNow(t, e) \in Part
           /\ PartNow(t, e).thread = t /\ PartNow(t, e).region = RegionNow
  BY SettingsAssumption
     DEF TypeOK, PartNow, Part, RegionNow, Rebalancing

\* The thread identifiers, the master's included.
LEMMA Threads == Workers \subseteq ThreadIds /\ 0 \in ThreadIds /\ 0 \notin Workers
  BY SettingsAssumption DEF Workers, ThreadIds

\* The counters only hold parts.
LEMMA MetersStep == Inv /\ [Next]_vars => MetersTypeOK'
<1> SUFFICES ASSUME Inv, [Next]_vars
             PROVE  MetersTypeOK'
  OBVIOUS
<1>1. /\ MetersTypeOK /\ TypeOK /\ region \in 0 .. MaxRegions
      /\ MaxRegions \in Nat /\ MaxThreads \in Nat
  BY SettingsAssumption DEF Inv, TypeOK, MetersTypeOK
<1>2. CASE UNCHANGED <<meterVars, region>>
  BY <1>1, <1>2 DEF MetersTypeOK, meterVars
<1>3. CASE BeginRegion
  <2>1. start' \in Unset .. MaxRegions
    BY <1>1, <1>3 DEF BeginRegion, OnParallelBegin, MetersTypeOK, Unset
  <2> QED
    BY <1>1, <1>3, <2>1 DEF BeginRegion, MetersTypeOK
<1>4. ASSUME NEW back, OnParallelEnd(back) PROVE elapsed' \in [ThreadIds -> SUBSET Part]
  BY <1>1, <1>4, PartTyped, Threads DEF OnParallelEnd, MetersTypeOK
<1>5. CASE EndRegion
  BY <1>1, <1>4, <1>5 DEF EndRegion, MetersTypeOK
<1>6. CASE EndRebalance
  BY <1>1, <1>4, <1>6 DEF EndRebalance, MetersTypeOK
<1>7. CASE Exchange
  <2>1. UNCHANGED <<start, elapsed>> \/
        (start' = Unset /\ elapsed' = [t \in ThreadIds |->
                             IF t < env.window THEN elapsed[t] ELSE {}])
    BY <1>7 DEF Exchange, InitContext
  <2> QED
    BY <1>1, <2>1 DEF MetersTypeOK, Unset
<1>8. CASE Leave
  BY <1>1, <1>8 DEF Leave, MetersTypeOK, NothingMeasured
<1>9. ASSUME NEW n \in 1 .. NumCores, Rebalance(n) PROVE MetersTypeOK'
  BY <1>1, <1>9
     DEF Rebalance, OnParallelBegin, Rebalancing, MetersTypeOK, Unset
<1>10. ASSUME NEW w \in Workers, Release(w) \/ Arrive(w) PROVE MetersTypeOK'
  <2>1. PICK e \in {"release", "arrive"} : OnSyncRegion(w, e) /\ start' = start
    BY <1>10 DEF Release, Arrive
  <2>2. w \in ThreadIds /\ PartNow(w, e) \in Part
    BY <1>1, PartTyped, Threads
  <2> QED
    BY <1>1, <2>1, <2>2 DEF OnSyncRegion, MetersTypeOK
<1> QED
  BY <1>2, <1>3, <1>5, <1>6, <1>7, <1>8, <1>9, <1>10, MeterFrame

\* The slots and the step change when a call gathers and when it ends, and a
\* call is under way from the one to the other.
LEMMA CallFrame ==
    Inv /\ [Next]_vars => \/ slots' = slots /\ step' = step /\ (InCall' <=> InCall)
                          \/ Gather \/ Leave
<1> SUFFICES ASSUME Inv, [Next]_vars, ~Gather, ~Leave
             PROVE  slots' = slots /\ step' = step /\ (InCall' <=> InCall)
  OBVIOUS
<1>1. slots' = slots /\ step' = step
  BY DEF Next, Master, Environment, vars, ownVars, tableVars, Stop,
         OmptInitialize, OmptFinalize, StartMPI, StopMPI, RefuseMPIInit,
         AskBuffer, FailAs, BeginRegion, Release, Arrive, EndRegion,
         ExplicitCall, DividesByWindow, Skip, Fail, Exchange, InitContext,
         RoundFails, Stay, Rebalance,
         EndRebalance
<1>2. env.implicit \in BOOLEAN /\ (at = "rebalancing" => reenter = env.implicit)
  BY EnvFacts DEF Inv, TypeOK, Control
<1> SUFFICES InCall' <=> InCall
  BY <1>1
<1> USE DEF InCall, At
<1>3. CASE UNCHANGED <<at, nestVars, step, region>>
  BY <1>3
<1>4. CASE BeginRegion
  BY <1>4 DEF BeginRegion, Serial
<1>5. CASE EndRegion
  BY <1>5 DEF EndRegion, OnParallelEnd
<1>6. CASE ExplicitCall
  BY <1>6 DEF ExplicitCall, Serial
<1>7. CASE Skip \/ Exchange \/ Stay
  BY <1>7 DEF Skip, Exchange, Stay
<1>8. CASE EndRebalance
  BY <1>2, <1>8 DEF EndRebalance, OnParallelEnd
<1>9. ASSUME NEW n \in 1 .. NumCores, Rebalance(n) PROVE InCall' <=> InCall
  BY <1>9 DEF Rebalance
<1> QED
  BY <1>3, <1>4, <1>5, <1>6, <1>7, <1>8, <1>9, MasterFrame

SlotsTypeOK == slots \in [0 .. env.window - 1 ->
                            [step : Unset .. MaxSteps, parts : SUBSET Part]]

\* What is measured is a set of parts.
LEMMA MeasuredTyped == ASSUME TypeOK PROVE Measured \subseteq Part
  BY DEF TypeOK, Measured

\* A call that gathers writes the slot of its step and no other.
LEMMA GatherWrites ==
    ASSUME Inv, Gather
    PROVE  /\ step \in Nat /\ step < MaxSteps /\ Gathered = step
           /\ Gathered' = step + 1 /\ env' = env
           /\ step % env.window \in 0 .. env.window - 1
           /\ DOMAIN slots = 0 .. env.window - 1
           /\ slots' = [slots EXCEPT ![step % env.window] =
                                         [step |-> step, parts |-> Measured]]
<1>1. step \in Nat /\ step < MaxSteps
  BY SettingsAssumption DEF Inv, TypeOK, Control, Gather, At
<1>2. step % env.window \in 0 .. env.window - 1
  <2>1. env.window \in Nat \ {0}
    BY CallWindow DEF Gather, At
  <2> QED
    BY <1>1, <2>1
<1>3. Gathered = step /\ Gathered' = step + 1 /\ env' = env
  BY DEF Gather, At, Gathered, InCall, worldVars
<1>4. DOMAIN slots = 0 .. env.window - 1
  BY DEF Inv, TypeOK
<1> QED
  BY <1>1, <1>2, <1>3, <1>4 DEF Gather

\* The slots keep the last steps, each where its remainder says.
LEMMA SlotsStep == Inv /\ [Next]_vars => SlotsTypeOK' /\ SlotsHold'
<1> SUFFICES ASSUME Inv, [Next]_vars
             PROVE  SlotsTypeOK' /\ SlotsHold'
  OBVIOUS
<1>1. SlotsTypeOK /\ SlotsHold /\ TypeOK /\ env' = env
  BY EnvFixed DEF Inv, TypeOK, SlotsTypeOK
<1>2. CASE slots' = slots /\ Gathered' = Gathered
  BY <1>1, <1>2 DEF SlotsTypeOK, SlotsHold
<1>3. CASE Gather
  <2> DEFINE w == env.window
             here == step % w
             entry == [step |-> step, parts |-> Measured]
  <2>1. /\ step \in Nat /\ step < MaxSteps /\ here \in 0 .. w - 1
        /\ Gathered = step /\ Gathered' = step + 1 /\ w \in Nat \ {0}
        /\ slots' = [slots EXCEPT ![here] = entry]
    BY <1>3, GatherWrites, CallWindow DEF Gather, At
  <2>2. entry \in [step : Unset .. MaxSteps, parts : SUBSET Part]
    BY <1>1, <2>1, MeasuredTyped, SettingsAssumption DEF Unset
  <2>3. SlotsTypeOK'
    BY <1>1, <2>1, <2>2 DEF SlotsTypeOK
  <2>4. ASSUME NEW i \in 0 .. w - 1 PROVE Holds(slots'[i].step, w, i, step + 1)
    <3>1. CASE i = here
      <4>1. slots'[i].step = step
        BY <1>1, <2>1, <3>1 DEF SlotsTypeOK
      <4> QED
        BY <1>1, <2>1, <3>1, <4>1 DEF Holds
    <3>2. CASE i # here
      <4> DEFINE s == slots[i].step
      <4>1. slots'[i].step = s
        BY <1>1, <2>1, <3>2 DEF SlotsTypeOK
      <4>2. Holds(s, w, i, step)
        BY <1>1, <2>1 DEF SlotsHold
      <4>3. step # i
        BY <1>1, <2>1, <3>2
      <4>4. s \in Nat /\ s % w = i => s # step - w
        <5> SUFFICES ASSUME s = step - w, s % w = i PROVE FALSE
          OBVIOUS
        <5>1. (step - w) % w = step % w
          BY <1>1, <2>1, ModBack
        <5> QED
          BY <3>2, <5>1
      <4> QED
        BY <1>1, <2>1, <4>1, <4>2, <4>3, <4>4 DEF Holds
    <3> QED
      BY <3>1, <3>2
  <2> QED
    BY <1>1, <2>1, <2>3, <2>4 DEF SlotsHold
<1>4. CASE Leave
  BY <1>2, <1>4 DEF Leave, At, Gathered, InCall
<1> QED
  BY <1>2, <1>3, <1>4, CallFrame DEF Gathered

\* Entries keep the parts of their own thread, of regions that have begun.
LEMMA PastStep ==
    Inv /\ [Next]_vars => (\A t \in ThreadIds : OwnParts(t) /\ PastParts(t))'
<1> SUFFICES ASSUME Inv, [Next]_vars, NEW t \in ThreadIds
             PROVE  OwnParts(t)' /\ PastParts(t)'
  OBVIOUS
<1>1. /\ TypeOK /\ region \in 0 .. MaxRegions
      /\ at \in {"serial", "region", "called"} \/ InCall
      /\ elapsed \in [ThreadIds -> SUBSET Part]
      /\ \A u \in ThreadIds : OwnParts(u) /\ PastParts(u)
      /\ MaxRegions \in Nat
      /\ \A u \in ThreadIds : \A c \in elapsed[u] : c.region \in 0 .. MaxRegions
  BY SettingsAssumption DEF Inv, TypeOK, Parts, Part
<1>2. (at' \in {"serial", "region", "called"} => ~InCall) \/ Gather \/ Leave
  BY CallFrame DEF InCall
<1> USE DEF OwnParts, PastParts
<1>3. CASE Gather
  BY <1>1, <1>3 DEF Gather, meterVars
<1>4. CASE Leave
  BY <1>4 DEF Leave, NothingMeasured
<1>5. CASE UNCHANGED <<meterVars, region>> /\ ~Gather /\ ~Leave
  BY <1>1, <1>2, <1>5 DEF meterVars
<1>6. CASE BeginRegion
  BY <1>1, <1>6 DEF BeginRegion, Serial, At
<1>7. CASE Exchange
  <2>1. at' = "exchanged" /\ elapsed'[t] \subseteq elapsed[t]
    BY <1>1, <1>7 DEF Exchange, InitContext
  <2> QED
    BY <1>1, <2>1
<1>8. ASSUME NEW n \in 1 .. NumCores, Rebalance(n)
      PROVE  OwnParts(t)' /\ PastParts(t)'
  BY <1>1, <1>8 DEF Rebalance
<1>9. CASE EndRegion
  <2>1. /\ at = "region" /\ region' = region /\ OnParallelEnd("serial")
        /\ RegionNow = region
    BY <1>9 DEF EndRegion, At, RegionNow
  <2>2. PartNow(0, "end").thread = 0 /\ PartNow(0, "end").region = region
    BY <1>1, <2>1, PartTyped, Threads
  <2>3. UNCHANGED elapsed \/ elapsed' = [elapsed EXCEPT ![0] = {PartNow(0, "end")}]
    BY <2>1 DEF OnParallelEnd
  <2> QED
    BY <1>1, <2>1, <2>2, <2>3
<1>10. CASE EndRebalance
  <2>1. PartNow(0, "end").thread = 0
    BY <1>1, PartTyped, Threads
  <2>2. UNCHANGED elapsed \/ elapsed' = [elapsed EXCEPT ![0] = {PartNow(0, "end")}]
    BY <1>10 DEF EndRebalance, OnParallelEnd
  <2>3. at' \notin {"serial", "region", "called"}
    BY <1>2, <1>10 DEF InCall, EndRebalance, Gather, Leave, At
  <2> QED
    BY <1>1, <2>1, <2>2, <2>3
<1>11. ASSUME NEW w \in Workers, NEW e \in {"release", "arrive"},
              InRegion, OnSyncRegion(w, e), UNCHANGED <<at, region>>
       PROVE  OwnParts(t)' /\ PastParts(t)'
  <2>1. /\ PartNow(w, e).thread = w
        /\ at = "region" => PartNow(w, e).region = region
    BY <1>1, PartTyped, Threads DEF RegionNow
  <2>2. at \in {"region", "rebalancing"}
    BY <1>11 DEF InRegion, At
  <2>3. \/ UNCHANGED elapsed
        \/ elapsed' = [elapsed EXCEPT ![w] = @ \cup {PartNow(w, e)}]
    BY <1>11 DEF OnSyncRegion
  <2> QED
    BY <1>1, <1>11, <2>1, <2>2, <2>3
<1>12. ASSUME NEW w \in Workers, Release(w) \/ Arrive(w)
       PROVE  OwnParts(t)' /\ PastParts(t)'
  BY <1>11, <1>12 DEF Release, Arrive
<1> QED
  BY <1>3, <1>4, <1>5, <1>6, <1>7, <1>8, <1>9, <1>10, <1>12, MeterFrame

\* In a region of the application, what a worker has measured of it is told by
\* where the worker is.
RegionParts == at = "region" /\ failed = "no" =>
                   start = region /\ \A w \in Workers : PlaceParts(w)

\* Nobody measures twice, nor leaves a region without measuring.
LEMMA RegionStep == Inv /\ [Next]_vars => RegionParts'
<1> SUFFICES ASSUME Inv, [Next]_vars, at' = "region", failed' = "no"
             PROVE  start' = region' /\ \A w \in Workers : PlaceParts(w)'
  BY DEF RegionParts
<1>1. /\ TypeOK /\ region \in 0 .. MaxRegions /\ MaxRegions \in Nat
      /\ elapsed \in [ThreadIds -> SUBSET Part]
      /\ place \in [Workers -> {"pool", "forked", "released", "arrived"}]
      /\ \A u \in ThreadIds : OwnParts(u) /\ PastParts(u)
      /\ at = "region" /\ failed = "no" =>
            start = region /\ \A w \in Workers : PlaceParts(w)
      /\ at \in {"serial", "region"} => reenter = FALSE
      /\ Workers \subseteq ThreadIds
      /\ \A u \in ThreadIds : \A c \in elapsed[u] : c.region \in 0 .. MaxRegions
  BY SettingsAssumption, Threads DEF Inv, TypeOK, Parts, Control, Part
<1>2. CASE BeginRegion
  <2>1. /\ at = "serial" /\ reenter = FALSE /\ elapsed' = elapsed
        /\ start' = region + 1 /\ region' = region + 1
        /\ place' = [w \in Workers |-> IF w < team THEN "forked" ELSE "pool"]
    BY <1>1, <1>2 DEF BeginRegion, Serial, At, OnParallelBegin, Fork
  <2>2. \A w \in Workers : \A c \in elapsed[w] : c.region # region + 1
    BY <1>1, <2>1 DEF PastParts
  <2> QED
    BY <1>1, <2>1, <2>2 DEF PlaceParts
<1>3. CASE UNCHANGED <<at, failed, start, region, elapsed, place>>
  BY <1>1, <1>3 DEF PlaceParts
<1>4. ASSUME NEW w \in Workers, Release(w) \/ Arrive(w)
      PROVE  start' = region' /\ \A v \in Workers : PlaceParts(v)'
  <2>1. /\ at = "region" /\ failed = "no" /\ start = region
        /\ UNCHANGED <<start, region>>
        /\ \A v \in Workers : PlaceParts(v)
    BY <1>1, <1>4 DEF Release, Arrive, InRegion, At
  <2>2. PICK e \in {"release", "arrive"} :
           /\ place[w] = "forked" \/ (e = "arrive" /\ place[w] = "released")
           /\ place' = [place EXCEPT ![w] =
                           IF e = "release" THEN "released" ELSE "arrived"]
           /\ OnSyncRegion(w, e)
    BY <1>4 DEF Release, Arrive
  <2> DEFINE new == [thread |-> w, region |-> region, since |-> region, edge |-> e]
  <2>3. elapsed' = [elapsed EXCEPT ![w] = @ \cup {new}]
    BY <2>1, <2>2 DEF OnSyncRegion, PartNow, RegionNow
  <2>4. /\ elapsed'[w] = elapsed[w] \cup {new}
        /\ \A v \in Workers \ {w} : elapsed'[v] = elapsed[v] /\ place'[v] = place[v]
        /\ place'[w] = IF e = "release" THEN "released" ELSE "arrived"
    BY <1>1, <2>2, <2>3
  <2>5. PlaceParts(w)'
    BY <2>1, <2>2, <2>4 DEF PlaceParts
  <2>6. ASSUME NEW v \in Workers \ {w} PROVE PlaceParts(v)'
    BY <2>1, <2>4, <2>6 DEF PlaceParts
  <2> QED
    BY <2>1, <2>5, <2>6
<1>5. \/ UNCHANGED <<at, failed, start, region, elapsed, place>>
      \/ BeginRegion
      \/ \E w \in Workers : Release(w) \/ Arrive(w)
  BY DEF Next, Master, Environment, vars, ownVars, threadVars, meterVars, Stop,
         OmptInitialize, OmptFinalize, StartMPI, StopMPI, RefuseMPIInit,
         AskBuffer, FailAs, EndRegion, OnParallelEnd, ExplicitCall,
         DividesByWindow, Gather, Skip, Fail, Exchange, RoundFails, Stay,
         EndRebalance, Rebalance, Leave, Serial, At, Failure
<1> QED
  BY <1>2, <1>3, <1>4, <1>5

\* A process that has failed does nothing more.
LEMMA FailedStops == [Next]_vars => failed = "no" \/ UNCHANGED vars
  BY DEF Next, Master, Environment, Stop, OmptInitialize, OmptFinalize,
         StartMPI, StopMPI, RefuseMPIInit, AskBuffer, BeginRegion, InRegion,
         Release, Arrive, EndRegion, ExplicitCall, DividesByWindow,
         Gather, Skip, Fail, RoundFails,
         Exchange, Stay, Rebalance, EndRebalance, Leave, Serial, At

\* A process fails in one of eight places.
LEMMA FailureFrame ==
    [Next]_vars => \/ failed' = failed
                   \/ RefuseMPIInit \/ OmptInitialize \/ ExplicitCall
                   \/ DividesByWindow \/ Fail \/ RoundFails
                   \/ \E w \in Workers : Release(w) \/ Arrive(w)
  BY DEF Next, Master, Environment, vars, ownVars, Stop, OmptFinalize, StartMPI,
         StopMPI, AskBuffer, BeginRegion, EndRegion, Gather, Skip, Exchange,
         Stay, Rebalance, EndRebalance, Leave

\* An exchange begins with Exchange, and from then on the communicator and the
\* buffer are what they were.
LEMMA ExchangedFrame ==
    [Next]_vars /\ at' = "exchanged" =>
        Exchange \/ (at = "exchanged" /\ UNCHANGED <<commVars, env>>)
  BY DEF Next, Master, Environment, vars, ownVars, worldVars, Stop,
         OmptInitialize, OmptFinalize, StartMPI, StopMPI, RefuseMPIInit,
         AskBuffer, FailAs, BeginRegion, EndRegion, OnParallelEnd, ExplicitCall,
         InRegion, Release, Arrive, DividesByWindow, Gather, Skip, Fail,
         RoundFails, Stay, Rebalance, EndRebalance, Leave, Serial, At

\* The buffer an exchange asks for is long enough.
LEMMA ExchangeSafe ==
    ASSUME Inv, Exchange
    PROVE  nodeComm' /\ ExchangeFits(env.window)'
<1>1. /\ CommFacts /\ CommTypeOK /\ nodeComm /\ nodeComm' = nodeComm
      /\ recvBuffer # NoBuffer => ExchangeFits(env.window)
      /\ GetRecvBuffer(env.window) /\ env' = env
  <2>1. /\ CommFacts /\ CommTypeOK /\ nodeComm /\ env' = env
        /\ GetRecvBuffer(env.window) /\ Failure = {} /\ ~SkipCompute
    BY DEF Inv, TypeOK, CommFacts, Exchange, CommUp
  <2>2. recvBuffer # NoBuffer => ExchangeFits(env.window)
    BY <2>1 DEF Failure
  <2> QED
    BY <2>1, <2>2 DEF GetRecvBuffer
<1> DEFINE length == NodeSize * env.window
<1>2. length \in Nat
  <2>1. env.window \in Nat
    BY CallWindow DEF Exchange, At, InCall
  <2> QED
    BY <2>1, NodeSizeAssumption
<1>3. nodeSize * env.window = length
  BY <1>1 DEF CommFacts
<1>4. ExchangeFits(env.window)' = (length <= recvBuffer')
  BY <1>1 DEF ExchangeFits
<1>5. ExchangeFits(env.window) = (length <= recvBuffer)
  BY DEF ExchangeFits
<1>6. \/ recvBuffer # NoBuffer /\ recvBuffer' = recvBuffer
      \/ recvBuffer' = length
  BY <1>1, <1>3 DEF GetRecvBuffer
<1> HIDE DEF length
<1>7. length <= recvBuffer'
  <2>1. recvBuffer # NoBuffer => length <= recvBuffer
    BY <1>1, <1>5
  <2> QED
    BY <1>2, <1>6, <2>1
<1> QED
  BY <1>1, <1>4, <1>7

\* The test of the exchange fails for the known causes only.
LEMMA FailureReasons ==
    ASSUME Inv, at = "gathered", CommUp, NEW reason \in Failure
    PROVE  \/ reason = "fatal" /\ env.periodic /\ env.stepbal = 0
           \/ reason = "out_of_bounds" /\ (env.window > NumCores \/ sendAsked)
<1>1. /\ CommFacts /\ nodeComm /\ CanExchange(env.window)
      /\ env.window \in Nat \ {0}
  BY CallWindow DEF Inv, InCall, CommFacts, CommUp, CanExchange
<1>2. CASE DividesByZero
  BY <1>2 DEF Failure, DividesByZero
<1>3. CASE ~DividesByZero /\ SkipCompute
  BY <1>1, <1>3 DEF Failure
<1>4. CASE ~DividesByZero /\ ~SkipCompute
  <2>1. /\ reason = "out_of_bounds"
        /\ \/ env.window > NumCores
           \/ recvBuffer # NoBuffer /\ ~ExchangeFits(env.window)
    BY <1>1, <1>4 DEF Failure
  <2>2. recvBuffer = NodeSize * env.window => ExchangeFits(env.window)
    <3>1. NodeSize * env.window \in Nat
      BY <1>1, NodeSizeAssumption
    <3> QED
      BY <3>1 DEF ExchangeFits
  <2> QED
    BY <1>1, <2>1, <2>2 DEF CommFacts
<1> QED
  BY <1>2, <1>3, <1>4

\* Only the known causes end the process.
LEMMA FailuresStep == Inv /\ [Next]_vars => OnlyKnownFailures'
<1> SUFFICES ASSUME Inv, [Next]_vars
             PROVE  OnlyKnownFailures'
  OBVIOUS
<1>1. OnlyKnownFailures /\ env' = env
  BY EnvFixed DEF Inv
<1>2. CASE UNCHANGED vars
  BY <1>1, <1>2 DEF OnlyKnownFailures, vars, ownVars, commVars, CommUp, ExchangeFits
<1>3. CASE failed = "no"
  <2> DEFINE Fatal == \/ at = "serial" /\ (mpi = "before" \/ runtime # "up")
                      \/ at = "called" /\ env.window = 0
                      \/ at = "gathered" /\ CommUp /\ env.periodic /\ env.stepbal = 0
                      \/ at = "exchanged"
             Outside == \/ /\ at \in {"region", "rebalancing"}
                           /\ env.threads > NumCores
                        \/ /\ at = "gathered" /\ CommUp
                           /\ env.window > NumCores \/ sendAsked
  <2>1. (failed' = "fatal" => Fatal') /\ (failed' = "out_of_bounds" => Outside')
    <3>1. CASE RefuseMPIInit
      BY <3>1 DEF RefuseMPIInit, Serial, At, FailAs, worldVars, commVars
    <3>2. CASE ExplicitCall
      BY <1>3, <3>2 DEF ExplicitCall, Serial, At, worldVars, commVars
    <3>3. CASE Fail
      <4>1. PICK reason \in Failure : failed' = reason
        BY <3>3 DEF Fail, FailAs
      <4>2. CommUp /\ at = "gathered" /\ UNCHANGED <<commVars, env, runtime, at>>
        BY <3>3 DEF Fail, At, FailAs, worldVars
      <4> QED
        BY <4>1, <4>2, FailureReasons DEF commVars, CommUp
    <3>4. ASSUME NEW w \in Workers, Release(w) \/ Arrive(w)
          PROVE  failed' # "fatal" /\ (failed' = "out_of_bounds" => Outside')
      <4>1. /\ OnSyncRegion(w, "release") \/ OnSyncRegion(w, "arrive")
            /\ place[w] # "pool" /\ UNCHANGED <<env, sendAsked, at>>
            /\ at \in {"region", "rebalancing"}
        BY <3>4 DEF Release, Arrive, InRegion, At, worldVars, commVars
      <4>2. /\ w < team /\ (team <= NumCores \/ team = env.threads)
            /\ team \in Nat /\ NumCores \in Nat /\ w \in Int
        BY <4>1, SettingsAssumption
           DEF Inv, Control, TypeOK, InTeam, Workers, ThreadIds
      <4> QED
        BY <1>3, <4>1, <4>2 DEF OnSyncRegion
    <3>5. CASE OmptInitialize
      BY <1>3, <3>5 DEF OmptInitialize, Serial, At
    <3>6. CASE DividesByWindow
      BY <3>6 DEF DividesByWindow, At, FailAs, worldVars
    <3>7. CASE RoundFails
      BY <3>7 DEF RoundFails, At, FailAs
    <3> QED
      BY <1>3, <3>1, <3>2, <3>3, <3>4, <3>5, <3>6, <3>7, FailureFrame
  <2>2. at' = "exchanged" => (nodeComm /\ ExchangeFits(env.window))'
    BY <1>1, ExchangedFrame, ExchangeSafe
       DEF OnlyKnownFailures, ExchangeFits, commVars
  <2> QED
    BY <2>1, <2>2 DEF OnlyKnownFailures
<1> QED
  BY <1>2, <1>3, FailedStops

\* A step keeps the whole of it.
LEMMA NextInv == Inv /\ [Next]_vars => Inv'
<1> SUFFICES ASSUME Inv, [Next]_vars
             PROVE  Inv'
  OBVIOUS
<1>1. TypeOK'
  BY CommStep, MasterTypeStep, ThreadsStep, MetersStep, SlotsStep
     DEF TypeOK, MasterTypeOK, ThreadsTypeOK, MetersTypeOK, SlotsTypeOK
<1>2. CommFacts' /\ SlotsHold' /\ OnlyKnownFailures'
  BY CommStep, SlotsStep, FailuresStep
<1>3. Control'
  BY MasterControlStep, ThreadsStep DEF Control, MasterControl, ThreadsControl
<1>4. Parts'
  BY PastStep, RegionStep DEF Parts, RegionParts
<1> QED
  BY <1>1, <1>2, <1>3, <1>4, WindowStep DEF Inv

\* The invariant holds of every state of the process.
LEMMA Invariant == Spec => []Inv
  BY InitInv, NextInv, PTL DEF Spec

\* The state of the process, its counters and its communication layer keep to
\* their types, for any settings: SaboProcess, with the bounds of its counters.
THEOREM ProcessTyped == Spec => []TypeOK
<1>1. Inv => TypeOK
  BY DEF Inv
<1> QED
  BY <1>1, Invariant, PTL

\* No call is made from inside another, however the regions of the threads and
\* the master's guard interleave (sabo_ompt.c:147, 161).
THEOREM NeverNested == Spec => []CallsNotNested
<1>1. Inv => CallsNotNested
  BY DEF Inv, TypeOK, Control, CallsNotNested
<1> QED
  BY <1>1, Invariant, PTL

\* Whenever values are exchanged, the slots hold the last window of steps, each
\* once (sabo.c:171-176, 319-321, 757-765).
THEOREM LastStepsExchanged == Spec => []ExchangesLastSteps
<1>1. ASSUME Inv, at = "exchanged"
      PROVE  {slots[i].step : i \in DOMAIN slots} = (step - env.window + 1) .. step
  <2> DEFINE w == env.window
  <2>1. /\ w \in Nat \ {0} /\ step \in Nat /\ w <= step + 1
        /\ DOMAIN slots = 0 .. w - 1
        /\ \A i \in 0 .. w - 1 : Holds(slots[i].step, w, i, step + 1)
    <3>1. Gathered = step + 1
      BY <1>1 DEF Gathered, InCall
    <3> QED
      BY <1>1, <3>1, CallWindow, SettingsAssumption
         DEF Inv, TypeOK, Control, SlotsHold, InCall
  <2>2. \A i \in 0 .. w - 1 : /\ slots[i].step \in (step - w + 1) .. step
                              /\ slots[i].step % w = i
    BY <2>1 DEF Holds
  <2>3. ASSUME NEW k \in (step - w + 1) .. step
        PROVE  \E i \in 0 .. w - 1 : slots[i].step = k
    <3>1. k % w \in 0 .. w - 1 /\ k \in Int
      BY <2>1
    <3>2. slots[k % w].step = k
      <4>1. /\ slots[k % w].step \in (step - w + 1) .. step
            /\ slots[k % w].step % w = k % w
        BY <2>2, <3>1
      <4> DEFINE s == slots[k % w].step
      <4>2. s \in Int /\ s - k < w /\ k - s < w
        BY <2>1, <4>1, SMTT(20)
      <4> QED
        BY <2>1, <3>1, <4>1, <4>2, ModNear
    <3> QED
      BY <3>1, <3>2
  <2> QED
    BY <2>1, <2>2, <2>3
<1>2. Inv => ExchangesLastSteps
  BY <1>1 DEF ExchangesLastSteps
<1> QED
  BY <1>2, Invariant, PTL

\* A process ends for the known causes only, each at its own place, whatever the
\* settings, a window of no steps or of fewer included: in particular it never
\* uses a communicator or a buffer that is gone or too short (sabo.c:88-98, 173,
\* 307, 486, 760, decision_tree.c:393, sabo_ompt.c:83, comm.c:117, 133, 150-161).
THEOREM KnownFailures == Spec => []OnlyKnownFailures
<1>1. Inv => OnlyKnownFailures
  BY DEF Inv
<1> QED
  BY <1>1, Invariant, PTL
-----------------------------------------------------------------------------
(* The counters implement StepMeter *)

\* Initially nothing is measured.
LEMMA MeterInit == Init => Meter!Init
<1> SUFFICES ASSUME Init PROVE Meter!Init
  OBVIOUS
<1>1. env.window \in Int /\ ~InCall /\ step = 0 /\ region = 0 /\ at = "serial"
  BY EnvFacts DEF Init, InCall
<1>2. Measured = {}
  BY DEF Init, Measured, NothingMeasured
<1>3. [i \in DOMAIN slots |-> slots[i].parts] = [i \in 0 .. env.window - 1 |-> {}]
  BY DEF Init, NoSlot
<1> QED
  BY <1>1, <1>2, <1>3 DEF Meter!Init

\* A step that leaves what is measured, the slots, the step, the regions and
\* the master's side of a call alone is a stutter.
LEMMA MeterStutter ==
    ASSUME /\ env' = env /\ slots' = slots /\ step' = step
           /\ InCall' <=> InCall
           /\ at' = "region" <=> at = "region"
           /\ ~InCall => region' = region /\ Measured' = Measured
           /\ at = "region" => team' = team
    PROVE  UNCHANGED Meter!vars
  BY DEF Meter!vars

\* The parts a worker has measured of the region under way.
LEMMA PartsOf ==
    ASSUME Inv, NEW w \in Workers, NEW e \in {"release", "arrive"},
           at = "region", failed = "no"
    PROVE  /\ PartNow(w, e) = Meter!Part(w, region, e)
           /\ Meter!Part(w, region, e) \in Measured =>
                 Meter!Part(w, region, e) \in elapsed[w]
<1>1. start = region /\ RegionNow = region
  BY DEF Inv, Parts, RegionNow
<1>2. \A t \in ThreadIds : \A c \in elapsed[t] : c.thread = t
  BY DEF Inv, Parts, OwnParts
<1>3. PartNow(w, e) = Meter!Part(w, region, e)
  BY <1>1 DEF PartNow, Meter!Part
<1>4. ASSUME Meter!Part(w, region, e) \in Measured
      PROVE  Meter!Part(w, region, e) \in elapsed[w]
  <2>1. PICK t \in ThreadIds : Meter!Part(w, region, e) \in elapsed[t]
    BY <1>4 DEF Measured
  <2>2. Meter!Part(w, region, e).thread = w
    BY DEF Meter!Part
  <2> QED
    BY <1>2, <2>1, <2>2
<1> QED
  BY <1>3, <1>4

\* A worker that measures in a region of the application measures for StepMeter.
LEMMA MeasureStep ==
    ASSUME Inv, NEW w \in Workers, NEW e \in {"release", "arrive"},
           at = "region", failed = "no", w < team,
           e = "release" => place[w] = "forked",
           e = "arrive" => place[w] \in {"forked", "released"},
           elapsed' = [elapsed EXCEPT ![w] = @ \cup {PartNow(w, e)}],
           UNCHANGED <<env, at, team, region, slots, step>>
    PROVE  Meter!Measure(w, e)
<1> DEFINE new == Meter!Part(w, region, e)
<1>1. /\ elapsed \in [ThreadIds -> SUBSET Part] /\ w \in ThreadIds /\ w # 0
      /\ team \in Nat /\ w \in Nat
  BY Threads, SettingsAssumption DEF Inv, TypeOK, Workers, ThreadIds
<1>2. new \notin elapsed[w]
  <2>1. PlaceParts(w)
    BY DEF Inv, Parts
  <2>2. new.region = region /\ new.edge = e
    BY DEF Meter!Part
  <2> HIDE DEF new
  <2> QED
    BY <2>1, <2>2 DEF PlaceParts
<1>3. PartNow(w, e) = new /\ new \notin Measured
  BY <1>2, PartsOf
<1> HIDE DEF new
<1>4. Measured' = Measured \cup {new}
  <2>1. /\ elapsed'[w] = elapsed[w] \cup {new}
        /\ \A t \in ThreadIds : t # w => elapsed'[t] = elapsed[t]
    BY <1>1, <1>3
  <2> QED
    BY <1>1, <2>1 DEF Measured
<1>5. ~InCall /\ ~InCall' /\ at' = "region"
  BY DEF InCall
<1>6. w \in 0 .. team - 1
  BY <1>1
<1> QED
  BY <1>1, <1>3, <1>4, <1>5, <1>6 DEF Meter!Measure, new

\* The end of a region of the application is an End.
LEMMA EndStepMaps ==
    ASSUME Inv, EndRegion
    PROVE  Meter!End
<1>1. /\ at = "region" /\ failed = "no" /\ Joined
      /\ at' \in {"serial", "called"} /\ UNCHANGED <<env, team, region, slots, step>>
      /\ elapsed' = [elapsed EXCEPT ![0] = {PartNow(0, "end")}]
      /\ team \in Nat \ {0} /\ team <= MaxThreads /\ MaxThreads \in Nat
      /\ elapsed \in [ThreadIds -> SUBSET Part]
  <2>1. at = "region" /\ reenter = FALSE /\ OnParallelEnd("serial")
    BY DEF Inv, Control, EndRegion, At
  <2> QED
    BY <2>1, SettingsAssumption
       DEF EndRegion, OnParallelEnd, At, Inv, TypeOK, worldVars, tableVars
<1>2. /\ \A c \in UNION {elapsed[t] : t \in ThreadIds} : c.thread \in ThreadIds
      /\ \A t \in ThreadIds : \A c \in elapsed[t] : c.thread = t
  BY DEF Inv, Parts, OwnParts
<1>3. \A t \in (0 .. team - 1) \ {0} : Meter!Part(t, region, "arrive") \in Measured
  <2> SUFFICES ASSUME NEW t \in (0 .. team - 1) \ {0}
               PROVE  Meter!Part(t, region, "arrive") \in Measured
    OBVIOUS
  <2>1. t \in Workers /\ t \in ThreadIds /\ InTeam(t)
    BY <1>1 DEF Workers, ThreadIds, InTeam
  <2>2. PlaceParts(t) /\ place[t] = "arrived"
    BY <1>1, <2>1 DEF Joined, Inv, Parts
  <2> QED
    BY <2>1, <2>2 DEF PlaceParts, Measured, Meter!Part
<1>4. Measured' = {c \in Measured : c.thread # 0} \cup {Meter!Part(0, region, "end")}
  <2> DEFINE last == Meter!Part(0, region, "end")
  <2>1. PartNow(0, "end") = last
    <3>1. start = region
      BY <1>1 DEF Inv, Parts
    <3> QED
      BY <1>1, <3>1 DEF PartNow, RegionNow, Meter!Part
  <2>2. last.thread = 0
    BY DEF Meter!Part
  <2> HIDE DEF last
  <2>3. /\ elapsed'[0] = {last}
        /\ \A t \in ThreadIds : t # 0 => elapsed'[t] = elapsed[t]
    BY <1>1, <2>1, Threads
  <2>4. \A c : c \in Measured' <=> \E t \in ThreadIds : c \in elapsed'[t]
    BY DEF Measured
  <2>5. \A c : c \in Measured <=> \E t \in ThreadIds : c \in elapsed[t]
    BY DEF Measured
  <2>6. ASSUME NEW c
        PROVE  c \in Measured' <=> (c \in Measured /\ c.thread # 0) \/ c = last
    BY <1>2, <2>2, <2>3, <2>4, <2>5, Threads
  <2>7. Measured' = {c \in Measured : c.thread # 0} \cup {last}
    BY <2>6
  <2> QED
    BY <2>7 DEF last
<1>5. ~InCall /\ ~InCall' /\ at' # "region"
  BY <1>1 DEF InCall
<1>6. 0 .. team - 1 # {}
  BY <1>1
<1> QED
  BY <1>1, <1>3, <1>4, <1>5, <1>6 DEF Meter!End

\* Gathering is the end of the step.
LEMMA GatherMaps ==
    ASSUME Inv, Gather
    PROVE  Meter!EndStep
<1>1. /\ ~InCall /\ InCall' /\ at # "region" /\ at' # "region"
      /\ step \in Nat /\ step' = step /\ env' = env /\ env.window > 0
  BY GatherWrites, CallWindow DEF Gather, At, InCall
<1>2. [i \in DOMAIN slots |-> slots[i].parts]' =
          [[i \in DOMAIN slots |-> slots[i].parts]
              EXCEPT ![step % env.window] = Measured]
  <2> DEFINE here == step % env.window
             entry == [step |-> step, parts |-> Measured]
  <2>1. here \in DOMAIN slots /\ slots' = [slots EXCEPT ![here] = entry]
    BY GatherWrites
  <2>2. entry.parts = Measured
    OBVIOUS
  <2> HIDE DEF here, entry
  <2>3. [i \in DOMAIN slots' |-> slots'[i].parts] =
            [[i \in DOMAIN slots |-> slots[i].parts] EXCEPT ![here] = Measured]
    BY <2>1, <2>2
  <2> QED
    BY <2>3 DEF here
<1> QED
  BY <1>1, <1>2 DEF Meter!EndStep

\* Every step of the process is a step of StepMeter, or none.
LEMMA MeterNext == Inv /\ Inv' /\ [Next]_vars => [Meter!Next]_(Meter!vars)
<1> SUFFICES ASSUME Inv, Inv', [Next]_vars
             PROVE  Meter!Next \/ UNCHANGED Meter!vars
  OBVIOUS
<1>1. env' = env
  BY EnvFixed
<1>2. CASE BeginRegion
  <2>1. /\ at = "serial" /\ at' = "region" /\ region' = region + 1
        /\ UNCHANGED <<team, elapsed, slots, step>>
        /\ team \in Nat \ {0}
    BY <1>2, SettingsAssumption
       DEF BeginRegion, Serial, At, tableVars, Inv, TypeOK
  <2>2. ~InCall /\ ~InCall' /\ Measured' = Measured
    BY <2>1 DEF InCall, Measured
  <2>3. 0 .. team - 1 # {} /\ 0 .. team - 1 \subseteq Nat
    <3>1. 0 \in 0 .. team - 1
      BY <2>1
    <3>2. 0 .. team - 1 \subseteq Nat
      BY <2>1
    <3> QED
      BY <3>1, <3>2, Zenon
  <2>4. Meter!Begin
    BY <1>1, <2>1, <2>2, <2>3 DEF Meter!Begin
  <2> QED
    BY <2>4 DEF Meter!Next
<1>3. CASE EndRegion
  BY <1>3, EndStepMaps DEF Meter!Next
<1>4. CASE Gather
  BY <1>4, GatherMaps DEF Meter!Next
<1>5. ASSUME NEW w \in Workers, Release(w) \/ Arrive(w)
      PROVE  Meter!Next \/ UNCHANGED Meter!vars
  <2>1. PICK e \in {"release", "arrive"} :
           /\ e = "release" => place[w] = "forked"
           /\ e = "arrive" => place[w] \in {"forked", "released"}
           /\ OnSyncRegion(w, e)
    BY <1>5 DEF Release, Arrive
  <2>2. /\ failed = "no" /\ at \in {"region", "rebalancing"} /\ w < team
        /\ UNCHANGED <<env, at, team, region, slots, step>>
    BY <1>5 DEF Release, Arrive, InRegion, At, worldVars, tableVars, Inv,
                Control, InTeam
  <2>3. CASE at = "region" /\ UNCHANGED elapsed
    BY <2>2, <2>3, MeterStutter DEF InCall, Measured
  <2>4. CASE at = "region" /\ ~UNCHANGED elapsed
    <3>1. Meter!Measure(w, e)
      BY <2>1, <2>2, <2>4, MeasureStep DEF OnSyncRegion
    <3>2. team \in Nat /\ w \in 0 .. team - 1
      BY <2>2, SettingsAssumption DEF Inv, TypeOK, Workers, ThreadIds
    <3> QED
      BY <2>4, <3>1, <3>2 DEF Meter!Next
  <2>5. CASE at = "rebalancing"
    BY <2>2, <2>5, MeterStutter DEF InCall
  <2> QED
    BY <2>2, <2>3, <2>4, <2>5
<1>6. CASE Leave
  <2>1. /\ at = "leave" /\ at' = "serial" /\ step' = step + 1 /\ region' = 0
        /\ elapsed' = NothingMeasured /\ slots' = slots
    BY <1>6 DEF Leave, At
  <2>2. Measured' = {} /\ InCall /\ ~InCall'
    BY <2>1 DEF Measured, NothingMeasured, InCall
  <2> QED
    BY <1>1, <2>1, <2>2 DEF Meter!vars
<1>7. CASE UNCHANGED <<meterVars, region, threadVars>> /\ ~Gather /\ ~Leave
           /\ (at' = "region" <=> at = "region")
  BY <1>1, <1>7, CallFrame, MeterStutter DEF meterVars, threadVars, Measured
<1>8. CASE Exchange \/ EndRebalance \/ \E n \in 1 .. NumCores : Rebalance(n)
  <2>1. at \in {"gathered", "exchanged", "rebalancing"} /\ at' # "region"
    BY <1>8 DEF Exchange, EndRebalance, OnParallelEnd, Rebalance, At
  <2>2. ~Gather /\ ~Leave
    BY <2>1, <1>8 DEF Gather, Leave, At
  <2> QED
    BY <1>1, <2>1, <2>2, CallFrame, MeterStutter DEF InCall
<1>9. (at' = "region" <=> at = "region") \/ BeginRegion \/ EndRegion
  BY MasterFrame
     DEF At, Serial, ExplicitCall, Gather, Skip, Exchange, Stay, EndRebalance,
         OnParallelEnd, Leave, Rebalance
<1> QED
  BY <1>2, <1>3, <1>4, <1>5, <1>6, <1>7, <1>8, <1>9, MeterFrame, PlaceFrame

\* For any number of threads, cores, regions and steps, and in any environment,
\* the callbacks, the calls and SABO's own regions together measure what
\* StepMeter says, and no more (sabo_ompt.c:83, 159, sabo.c:755-779, 831-833).
THEOREM MeterImplemented == Spec => MeasuresForNode
<1>1. Init => Meter!Init
  BY MeterInit
<1>2. Inv /\ Inv' /\ [Next]_vars => [Meter!Next]_(Meter!vars)
  BY MeterNext
<1> QED
  BY <1>1, <1>2, Invariant, PTL DEF Spec, MeasuresForNode, Meter!Spec
=============================================================================
