---------------------------- MODULE ShmJoin_proof ----------------------------
(***************************************************************************)
(* How a process learns how many processes its node has, and how these     *)
(* meet, for any number of processes, of runs and of tasks.                *)
(*                                                                         *)
(* The segment: the master creates it when there is none, and then nobody  *)
(* can be past the opening of a segment; from there on the segment counts  *)
(* those who came in this run, until all have.                             *)
(*                                                                         *)
(* The list of tasks (from "Recursion" on): the reader of the list and its *)
(* two writers exist as functions, since each step leaves less of the list *)
(* or of the tasks; every way to write some tasks is read as them, and     *)
(* whatever is taken for a list is a way to write what was read.           *)
(***************************************************************************)
EXTENDS ShmJoin, MCSlurmTasks, FiniteSetTheorems, SequenceTheorems, TLAPS

Library == INSTANCE Placement_proof
               WITH NumProcs <- NumProcs, NumSockets <- 1, CoresPerSocket <- 1

MasterPlaces == {"create", "size", "clear", "open", "truncate", "write"}
ClientPlaces == {"read", "map", "enter"}
InSegment    == {"enter", "arrive", "reset", "advance", "wait", "joined"}

\* A process is where its role lets it be; before it comes to the barrier its
\* generation is still 0, while it waits there it is 1.
Shape == \A p \in Ranks :
    /\ pc[p] \in MasterPlaces => p = Master
    /\ pc[p] \in ClientPlaces => p \in Clients
    /\ pc[p] \in MasterPlaces \cup ClientPlaces \cup {"arrive"} =>
           p \notin came /\ local[p] = 0
    /\ pc[p] \in {"reset", "advance"} => local[p] = 0
    /\ pc[p] = "wait" => local[p] = 1

\* Without a segment nobody is in one, and nobody has come; the master is only
\* ever in the segment of its own run.
Presence ==
    /\ Between \/ run # 0
    /\ segment.maker \in 0 .. run
    /\ segment = NoSegment =>
          /\ \A p \in Ranks : pc[p] \notin InSegment
          /\ Between \/ came = {}
    /\ pc[Master] \in (MasterPlaces \ {"create"}) \cup InSegment =>
          segment # NoSegment /\ segment.maker = run

\* In the segment of this run: it counts no more than have come, until all have (the
\* clearing may make it forget some); the last to come, and whoever has joined, know
\* that all have.
Count ==
    /\ \/ segment.gen = 0 /\ segment.nwritter <= Cardinality(came)
       \/ came = Ranks /\ segment.nwritter = 0
    /\ \A p \in Ranks : /\ pc[p] \in {"reset", "advance", "joined"} => came = Ranks
                        /\ pc[p] = "advance" => segment.nwritter = 0

\* A client has written its world rank before it comes; the clearing, which no
\* client is before in a clean run, may have taken it.
World == \A q \in Clients : q \in came \/ pc[q] = "arrive" =>
    \/ segment.world[q] = WorldRank[q]
    \/ /\ ~clean /\ pc[Master] \notin {"create", "size", "clear"}
       /\ segment.world[q] = Cleared(RankOffset(q), WorldRank[q])

Known == \A p \in Ranks : Joined(p) => \A q \in Clients :
    \/ translate[p][q] = WorldRank[q]
    \/ ~clean /\ translate[p][q] = Cleared(RankOffset(q), WorldRank[q])

OwnSegment == segment.maker = run /\ run # 0 => Count /\ World /\ Known

\* A run that found nothing: there is a segment once the master has created it,
\* and it has its size before there is a file.
CleanRun == clean /\ ~Between =>
    /\ \A p \in Ranks : pc[p] # "failed"
    /\ pc[Master] = "create" => segment = NoSegment
    /\ pc[Master] \in {"clear", "open", "truncate", "write"} => segment.sized
    /\ file # "absent" => segment # NoSegment /\ segment.sized
    /\ \A p \in Clients : pc[p] \in {"map"} \cup InSegment =>
                              segment # NoSegment /\ segment.sized

\* In such a run nobody follows the file before the master has written it.
CleanOrder == clean /\ pc[Master] \in MasterPlaces =>
    /\ file # "full" /\ came = {}
    /\ \A p \in Clients : pc[p] \notin {"map"} \cup InSegment

Inv == TypeOK /\ Shape /\ Presence /\ OwnSegment /\ CleanRun /\ CleanOrder
-----------------------------------------------------------------------------
\* There is no segment, or one that some run has created.
LEMMA SegmentFacts ==
    ASSUME segment \in Segment \cup {NoSegment}
    PROVE  \/ segment = NoSegment /\ segment.maker = 0
           \/ segment # NoSegment /\ segment \in Segment /\ segment.maker \in 1 .. MaxRuns
<1>1. CASE segment = NoSegment
  BY <1>1 DEF NoSegment
<1>2. CASE segment \in Segment
  <2>1. segment.maker \in 1 .. MaxRuns
    BY <1>2 DEF Segment
  <2>2. NoSegment.maker = 0 /\ 0 \notin 1 .. MaxRuns
    BY JoinAssumption DEF NoSegment
  <2> QED
    BY <1>2, <2>1, <2>2
<1> QED
  BY <1>1, <1>2

\* The ranks, and who they are.
LEMMA RankFacts == /\ Master \in Ranks /\ Ranks = Clients \cup {Master}
                   /\ Master \notin Clients
                   /\ NumProcs \in Nat \ {0} /\ MaxRuns \in Nat
                   /\ WorldRank \in [Ranks -> Nat]
  BY JoinAssumption DEF Ranks, Clients, Master, MaxProcs

\* There are as many ranks as processes.
LEMMA RanksCounted == IsFiniteSet(Ranks) /\ Cardinality(Ranks) = NumProcs
<1>1. NumProcs \in Nat /\ Ranks = 0 .. NumProcs - 1
  BY RankFacts DEF Ranks
<1>2. IsFiniteSet(0 .. NumProcs - 1) /\ Cardinality(0 .. NumProcs - 1) = NumProcs
  BY <1>1, FS_Interval
<1> QED
  BY <1>1, <1>2

\* A segment has pages, and what is left of a natural is one.
LEMMA ClearedTyped ==
    /\ \A q \in Ranks : \A v \in Nat : Cleared(RankOffset(q), v) \in Nat
    /\ \A v \in Nat : Cleared(GenOffset, v) \in Nat /\ Cleared(NwritterOffset, v) \in Nat
    /\ Cleared(GenOffset, 0) = 0
    /\ \A v \in Nat : Cleared(NwritterOffset, v) <= v
<1>1. Pages \in Int
  <2> DEFINE bytes == NwritterOffset + 4 + 8 * Window * NumProcs
  <2>1. bytes \in Nat
    <3>1. 8 * Window * NumProcs \in Nat
      BY JoinAssumption, RankFacts
    <3> QED
      BY <3>1 DEF NwritterOffset, GenOffset, MaxProcs
  <2> HIDE DEF bytes
  <2>2. bytes \div 4096 \in Int
    BY <2>1
  <2> QED
    BY <2>2 DEF Pages, PageSize, bytes
<1>2. ASSUME NEW o \in Int, NEW v \in Nat
      PROVE  Cleared(o, v) \in Nat /\ Cleared(o, v) <= v
  <2> DEFINE reached == Pages - o
  <2>1. reached \in Int
    BY <1>1
  <2> HIDE DEF reached
  <2>2. /\ v - (v % 256) \in 0 .. v /\ v - (v % 65536) \in 0 .. v
        /\ v - (v % 16777216) \in 0 .. v
    OBVIOUS
  <2>3. \/ reached <= 0 /\ Cleared(o, v) = v
        \/ reached = 1 /\ Cleared(o, v) = v - (v % 256)
        \/ reached = 2 /\ Cleared(o, v) = v - (v % 65536)
        \/ reached = 3 /\ Cleared(o, v) = v - (v % 16777216)
        \/ reached >= 4 /\ Cleared(o, v) = 0
    BY <2>1 DEF Cleared, reached
  <2> QED
    BY <2>2, <2>3
<1>3. GenOffset \in Int /\ NwritterOffset \in Int /\ \A q \in Ranks : RankOffset(q) \in Int
  BY RankFacts DEF GenOffset, NwritterOffset, MaxProcs, RankOffset, Ranks
<1>4. Cleared(GenOffset, 0) \in Nat /\ Cleared(GenOffset, 0) <= 0
  BY <1>2, <1>3
<1> QED
  BY <1>2, <1>3, <1>4

\* What the clearing leaves of a segment.
LEMMA ClearFacts ==
    ASSUME segment \in Segment, Clear
    PROVE  /\ segment' \in Segment
           /\ segment'.maker = segment.maker /\ segment'.sized = segment.sized
           /\ segment'.gen = Cleared(GenOffset, segment.gen)
           /\ segment'.nwritter = Cleared(NwritterOffset, segment.nwritter)
           /\ \A q \in Ranks : segment'.world[q] =
                                  Cleared(RankOffset(q), segment.world[q])
<1> DEFINE world == [q \in Ranks |-> Cleared(RankOffset(q), segment.world[q])]
           gen == Cleared(GenOffset, segment.gen)
           nwritter == Cleared(NwritterOffset, segment.nwritter)
<1>1. segment' = [segment EXCEPT !.world = world, !.gen = gen, !.nwritter = nwritter]
  BY Zenon DEF Clear
<1>2. world \in [Ranks -> Nat]
  <2>1. \A q \in Ranks : Cleared(RankOffset(q), segment.world[q]) \in Nat
    BY ClearedTyped DEF Segment
  <2> QED
    BY <2>1
<1>3. gen \in Nat /\ nwritter \in Nat
  BY ClearedTyped DEF Segment
<1>4. \A q \in Ranks : world[q] = Cleared(RankOffset(q), segment.world[q])
  OBVIOUS
<1> HIDE DEF world, gen, nwritter
<1>5. /\ segment' \in Segment
      /\ segment'.maker = segment.maker /\ segment'.sized = segment.sized
      /\ segment'.gen = gen /\ segment'.nwritter = nwritter /\ segment'.world = world
  BY <1>1, <1>2, <1>3 DEF Segment
<1> QED
  BY <1>4, <1>5 DEF gen, nwritter

\* A fresh segment is a segment.
LEMMA FreshSegment ==
    ASSUME run \in 1 .. MaxRuns
    PROVE  [maker |-> run, sized |-> FALSE, gen |-> 0,
            world |-> [q \in Ranks |-> 0], nwritter |-> 0] \in Segment
  BY DEF Segment

\* The initial state satisfies the invariant.
LEMMA InitInv == Init => Inv
<1> SUFFICES ASSUME Init PROVE Inv
  OBVIOUS
<1>1. /\ pc = [p \in Ranks |-> "gone"] /\ file = "absent" /\ run = 0
      /\ clean = FALSE /\ came = {} /\ segment = NoSegment
      /\ local = [p \in Ranks |-> 0] /\ translate = [p \in Ranks |-> NoTranslation]
  BY DEF Init
<1>2. segment.maker = 0
  BY <1>1 DEF NoSegment
<1>3. TypeOK
  <2>1. translate \in [Ranks -> [Ranks -> Nat \cup {-1}]]
    BY <1>1 DEF NoTranslation
  <2>2. pc \in [Ranks -> Places] /\ local \in [Ranks -> 0 .. 1]
    BY <1>1 DEF Places
  <2>3. run \in 0 .. MaxRuns /\ clean \in BOOLEAN /\ came \subseteq Ranks
    <3>1. run \in 0 .. MaxRuns
      BY <1>1, RankFacts
    <3>2. clean \in BOOLEAN /\ came \subseteq Ranks
      BY <1>1
    <3> QED
      BY <3>1, <3>2
  <2> QED
    BY <1>1, <2>1, <2>2, <2>3 DEF TypeOK
<1>4. Shape
  BY <1>1 DEF Shape, MasterPlaces, ClientPlaces
<1>5. Presence
  BY <1>1, <1>2, RankFacts DEF Presence, Between, InSegment, MasterPlaces
<1>6. OwnSegment /\ CleanRun /\ CleanOrder
  BY <1>1 DEF OwnSegment, CleanRun, CleanOrder
<1> QED
  BY <1>3, <1>4, <1>5, <1>6 DEF Inv
-----------------------------------------------------------------------------
(* A step keeps the invariant *)

\* What a run and its processes are.
ProcessesTypeOK ==
    /\ pc \in [Ranks -> Places] /\ file \in {"absent", "short", "full"}
    /\ local \in [Ranks -> 0 .. 1]
    /\ run \in 0 .. MaxRuns /\ clean \in BOOLEAN /\ came \subseteq Ranks

\* Only a start, a barrier and a crash change more than where one process is.
LEMMA ProcessesStep == Inv /\ [Next]_vars => ProcessesTypeOK'
<1> SUFFICES ASSUME Inv, [Next]_vars
             PROVE  ProcessesTypeOK'
  OBVIOUS
<1>1. /\ ProcessesTypeOK /\ Shape
      /\ MaxRuns \in Nat /\ Master \in Ranks
  BY RankFacts DEF Inv, TypeOK, ProcessesTypeOK
<1> USE DEF ProcessesTypeOK, node
<1>2. CASE UNCHANGED vars
  BY <1>1, <1>2 DEF vars
<1>3. CASE StartRun
  BY <1>1, <1>3 DEF StartRun, Places
<1>4. CASE EndRun
  BY <1>1, <1>4 DEF EndRun, Places
<1>5. CASE Clean
  BY <1>1, <1>5 DEF Clean
<1>6. ASSUME NEW p \in Ranks, Crash(p) PROVE ProcessesTypeOK'
  BY <1>1, <1>6 DEF Crash, Goto, Places
<1>7. CASE Create \/ Size \/ Clear
  BY <1>1, <1>7 DEF Create, Size, Clear, Goto, Places
<1>8. CASE Publish
  BY <1>1, <1>8 DEF Publish, OpenFile, Truncate, Write, Goto, Places
<1>9. ASSUME NEW p \in Ranks, ClientStep(p) PROVE ProcessesTypeOK'
  BY <1>1, <1>9 DEF ClientStep, Read, Map, Enter, Goto, Places
<1>10. ASSUME NEW p \in Ranks, Arrive(p) PROVE ProcessesTypeOK'
  <2>1. local[p] = 0
    BY <1>1, <1>10 DEF Arrive, Shape
  <2> QED
    BY <1>1, <1>10, <2>1 DEF Arrive, Goto, NextGeneration, Places
<1>11. ASSUME NEW p \in Ranks, Advance(p) PROVE ProcessesTypeOK'
  <2>1. local[p] = 0
    BY <1>1, <1>11 DEF Advance, Shape
  <2> QED
    BY <1>1, <1>11, <2>1 DEF Advance, Goto, NextGeneration, Places
<1>12. ASSUME NEW p \in Ranks, Reset(p) \/ Translate(p) PROVE ProcessesTypeOK'
  BY <1>1, <1>12 DEF Reset, Translate, Goto, Places
<1> QED
  BY <1>2, <1>3, <1>4, <1>5, <1>6, <1>7, <1>8, <1>9, <1>10, <1>11, <1>12
     DEF Next, Inside, MasterStep, Barrier, Ended, Clients

\* Who touches the segment.
LEMMA SegmentFrame ==
    [Next]_vars => \/ segment' = segment
                   \/ Clean \/ Create \/ Size \/ Clear
                   \/ \E p \in Clients : Enter(p)
                   \/ \E p \in Ranks : Arrive(p) \/ Reset(p) \/ Advance(p)
  BY DEF Next, Inside, MasterStep, ClientStep, Barrier, Ended, vars, StartRun,
         EndRun, Crash, Publish, OpenFile, Truncate, Write, Read, Map, Translate

\* A master or a process in a segment has one.
LEMMA InsideHasSegment ==
    ASSUME Inv
    PROVE  /\ \A p \in Ranks : pc[p] \in InSegment => segment # NoSegment
           /\ pc[Master] \in MasterPlaces \ {"create"} => segment # NoSegment
  BY DEF Inv, Presence

\* The segment keeps its type.
LEMMA SegmentStep ==
    Inv /\ [Next]_vars => segment' \in Segment \cup {NoSegment}
<1> SUFFICES ASSUME Inv, [Next]_vars
             PROVE  segment' \in Segment \cup {NoSegment}
  OBVIOUS
<1>1. /\ segment \in Segment \cup {NoSegment} /\ run \in 0 .. MaxRuns
      /\ segment # NoSegment => segment \in Segment
      /\ Master \in Ranks /\ WorldRank \in [Ranks -> Nat] /\ Clients \subseteq Ranks
  BY RankFacts DEF Inv, TypeOK
<1>2. CASE Clean
  BY <1>1, <1>2 DEF Clean
<1>3. CASE Create
  <2>1. run # 0
    BY <1>1, <1>3 DEF Inv, Presence, Between, Create
  <2>2. run \in 1 .. MaxRuns
    BY <1>1, <2>1
  <2> QED
    BY <1>1, <1>3, <2>2, FreshSegment DEF Create
<1>4. CASE Size \/ Clear
  <2>1. segment \in Segment
    BY <1>1, <1>4, InsideHasSegment DEF Size, Clear, MasterPlaces
  <2>2. CASE Size
    BY <2>1, <2>2 DEF Size, Segment
  <2>3. CASE Clear
    BY <2>1, <2>3, ClearFacts
  <2> QED
    BY <1>4, <2>2, <2>3
<1>5. ASSUME NEW p \in Clients, Enter(p)
      PROVE  segment' \in Segment \cup {NoSegment}
  <2>1. segment \in Segment
    BY <1>1, <1>5, InsideHasSegment DEF Enter, InSegment
  <2> QED
    BY <1>1, <1>5, <2>1 DEF Enter, Segment
<1>6. ASSUME NEW p \in Ranks, Arrive(p) \/ Reset(p) \/ Advance(p)
      PROVE  segment' \in Segment \cup {NoSegment}
  <2>1. segment \in Segment
    BY <1>1, <1>6, InsideHasSegment DEF Arrive, Reset, Advance, InSegment
  <2> QED
    BY <1>1, <1>6, <2>1 DEF Arrive, Reset, Advance, Segment
<1> QED
  BY <1>1, <1>2, <1>3, <1>4, <1>5, <1>6, SegmentFrame

\* So does the table of world ranks of a process.
LEMMA TranslateStep ==
    Inv /\ [Next]_vars => translate' \in [Ranks -> [Ranks -> Nat \cup {-1}]]
<1> SUFFICES ASSUME Inv, [Next]_vars
             PROVE  translate' \in [Ranks -> [Ranks -> Nat \cup {-1}]]
  OBVIOUS
<1>1. /\ translate \in [Ranks -> [Ranks -> Nat \cup {-1}]]
      /\ segment \in Segment \cup {NoSegment}
  BY DEF Inv, TypeOK
<1>2. CASE translate' = translate
  BY <1>1, <1>2
<1>3. CASE StartRun
  BY <1>3 DEF StartRun, NoTranslation
<1>4. ASSUME NEW p \in Ranks, Translate(p)
      PROVE  translate' \in [Ranks -> [Ranks -> Nat \cup {-1}]]
  <2>1. segment \in Segment
    BY <1>1, <1>4, InsideHasSegment DEF Translate, InSegment
  <2>2. segment.world \in [Ranks -> Nat]
    BY <2>1 DEF Segment
  <2> QED
    BY <1>1, <1>4, <2>2 DEF Translate
<1> QED
  BY <1>2, <1>3, <1>4
     DEF Next, Inside, MasterStep, ClientStep, Barrier, Ended, vars, EndRun,
         Clean, Crash, Create, Size, Clear, Publish, OpenFile, Truncate, Write,
         Read, Map, Enter, Arrive, Reset, Advance

\* The types, the presence of a segment inside it included.
LEMMA TypeStep == Inv /\ [Next]_vars /\ Presence' => TypeOK'
<1> SUFFICES ASSUME Inv, [Next]_vars, Presence'
             PROVE  TypeOK'
  OBVIOUS
<1>1. \A p \in Ranks : pc'[p] \in InSegment => segment' # NoSegment
  BY DEF Presence
<1> QED
  BY <1>1, ProcessesStep, SegmentStep, TranslateStep
     DEF TypeOK, ProcessesTypeOK, InSegment

\* Every process stays where its role lets it be.
LEMMA ShapeStep == Inv /\ [Next]_vars => Shape'
<1> SUFFICES ASSUME Inv, [Next]_vars
             PROVE  Shape'
  OBVIOUS
<1>1. /\ Shape /\ pc \in [Ranks -> Places] /\ local \in [Ranks -> 0 .. 1]
      /\ Master \in Ranks /\ Ranks = Clients \cup {Master} /\ Master \notin Clients
  BY RankFacts DEF Inv, TypeOK
<1> USE DEF Shape, MasterPlaces, ClientPlaces
<1>2. CASE UNCHANGED vars
  BY <1>1, <1>2 DEF vars
<1>3. CASE StartRun
  BY <1>1, <1>3 DEF StartRun
<1>4. CASE EndRun
  BY <1>4 DEF EndRun
<1>5. CASE Clean
  BY <1>1, <1>5 DEF Clean
<1>6. ASSUME NEW p \in Ranks, NEW place, Goto(p, place),
             UNCHANGED <<local, came>>,
             place \in MasterPlaces => p = Master,
             place \in ClientPlaces => p \in Clients,
             place \in MasterPlaces \cup ClientPlaces \cup {"arrive"} =>
                 p \notin came /\ local[p] = 0,
             place \in {"reset", "advance"} => local[p] = 0,
             place # "wait"
       PROVE Shape'
  BY <1>1, <1>6 DEF Goto
<1>7. ASSUME NEW p \in Ranks, Crash(p) PROVE Shape'
  BY <1>6, <1>7 DEF Crash
<1>8. CASE Create
  BY <1>1, <1>6, <1>8 DEF Create
<1>9. CASE Size \/ Clear
  BY <1>1, <1>6, <1>9 DEF Size, Clear
<1>10. CASE Publish
  BY <1>1, <1>6, <1>10 DEF Publish, OpenFile, Truncate, Write
<1>11. ASSUME NEW p \in Clients, ClientStep(p) PROVE Shape'
  <2>1. CASE Read(p)
    BY <1>1, <1>6, <2>1 DEF Read
  <2>2. CASE Map(p)
    BY <1>1, <1>6, <2>2 DEF Map
  <2>3. CASE Enter(p)
    BY <1>1, <1>6, <2>3 DEF Enter
  <2> QED
    BY <1>11, <2>1, <2>2, <2>3 DEF ClientStep
<1>12. ASSUME NEW p \in Ranks, Arrive(p) PROVE Shape'
  <2>1. local[p] = 0 /\ came' = came \cup {p}
    BY <1>1, <1>12 DEF Arrive
  <2>2. \/ local' = local /\ pc' = [pc EXCEPT ![p] = "reset"]
        \/ local' = [local EXCEPT ![p] = 1] /\ pc' = [pc EXCEPT ![p] = "wait"]
    BY <1>1, <1>12, <2>1 DEF Arrive, Goto, NextGeneration
  <2> QED
    BY <1>1, <2>1, <2>2
<1>13. ASSUME NEW p \in Ranks, Reset(p) \/ Translate(p) PROVE Shape'
  BY <1>1, <1>6, <1>13 DEF Reset, Translate
<1>14. ASSUME NEW p \in Ranks, Advance(p) PROVE Shape'
  <2>1. local[p] = 0 /\ came' = came
    BY <1>1, <1>14 DEF Advance
  <2>2. local' = [local EXCEPT ![p] = 1] /\ pc' = [pc EXCEPT ![p] = "wait"]
    BY <1>1, <1>14, <2>1 DEF Advance, Goto, NextGeneration
  <2> QED
    BY <1>1, <2>1, <2>2
<1> QED
  BY <1>2, <1>3, <1>4, <1>5, <1>7, <1>8, <1>9, <1>10, <1>11, <1>12, <1>13, <1>14
     DEF Next, Inside, MasterStep, Barrier, Ended

\* The master only ever is in a segment it created, nobody in one that is gone.
LEMMA PresenceStep == Inv /\ [Next]_vars => Presence'
<1> SUFFICES ASSUME Inv, [Next]_vars
             PROVE  Presence'
  OBVIOUS
<1>1. /\ Presence /\ Shape /\ pc \in [Ranks -> Places] /\ run \in 0 .. MaxRuns
      /\ segment \in Segment \cup {NoSegment} /\ MaxRuns \in Nat
      /\ Master \in Ranks /\ Ranks = Clients \cup {Master} /\ Master \notin Clients
      /\ NoSegment.maker = 0
      /\ \A s \in Segment : s # NoSegment
  <2>1. \A s \in Segment : s.maker # 0
    BY RankFacts DEF Segment
  <2>2. NoSegment.maker = 0
    BY DEF NoSegment
  <2> QED
    BY <2>1, <2>2, RankFacts DEF Inv, TypeOK
<1> USE DEF Presence, MasterPlaces, InSegment
<1>2. CASE UNCHANGED vars
  BY <1>1, <1>2 DEF vars, node, Between
<1>3. CASE StartRun
  <2>1. /\ run' = run + 1 /\ segment' = segment /\ came' = {}
        /\ pc' = [p \in Ranks |-> IF p = Master THEN "create" ELSE "read"]
    BY <1>3 DEF StartRun
  <2> QED
    BY <1>1, <2>1
<1>4. CASE EndRun
  BY <1>1, <1>4 DEF EndRun, node, Between
<1>5. CASE Clean
  BY <1>1, <1>5 DEF Clean, node, Between
<1>6. CASE Create
  <2>1. ~Between
    BY <1>1, <1>6 DEF Create, Between
  <2>2. run # 0 /\ run' = run /\ came' = came
    BY <1>1, <1>6, <2>1 DEF Create, node
  <2>3. CASE segment = NoSegment
    <3>1. segment'.maker = run
      BY <1>6, <2>3 DEF Create
    <3> QED
      BY <1>1, <2>2, <3>1
  <2>4. CASE segment # NoSegment
    <3>1. segment' = segment /\ pc' = [pc EXCEPT ![Master] = "failed"]
      BY <1>6, <2>4 DEF Create, Goto
    <3> QED
      BY <1>1, <2>2, <2>4, <3>1
  <2> QED
    BY <2>3, <2>4
\* Every other step is one of a process that is there, and keeps the maker.
<1>7. ASSUME NEW p \in Ranks, NEW place, Goto(p, place), pc[p] # "gone",
             UNCHANGED <<node>>, segment'.maker = segment.maker,
             segment = NoSegment => segment' = segment /\ came' = came
                                    /\ place \notin InSegment,
             segment # NoSegment => segment' # NoSegment,
             p = Master /\ place \in (MasterPlaces \ {"create"}) \cup InSegment =>
                 segment # NoSegment /\ segment.maker = run
      PROVE  Presence'
  <2>1. ~Between /\ run # 0
    BY <1>1, <1>7 DEF Between
  <2>2. run' = run /\ pc' = [pc EXCEPT ![p] = place]
    BY <1>7 DEF node, Goto
  <2> QED
    BY <1>1, <1>7, <2>1, <2>2
<1>8. ASSUME NEW p \in Ranks, Crash(p) PROVE Presence'
  BY <1>1, <1>7, <1>8 DEF Crash
<1>9. CASE Size \/ Clear
  <2>1. segment \in Segment /\ segment.maker = run
    BY <1>1, <1>9 DEF Size, Clear
  <2>2. segment' \in Segment /\ segment'.maker = segment.maker
    <3>1. CASE Size
      BY <2>1, <3>1 DEF Size, Segment
    <3>2. CASE Clear
      BY <2>1, <3>2, ClearFacts
    <3> QED
      BY <1>9, <3>1, <3>2
  <2> QED
    BY <1>1, <1>7, <1>9, <2>1, <2>2 DEF Size, Clear
<1>10. CASE Publish
  BY <1>1, <1>7, <1>10 DEF Publish, OpenFile, Truncate, Write
<1>11. ASSUME NEW p \in Clients, Read(p) \/ Map(p) PROVE Presence'
  BY <1>1, <1>7, <1>11 DEF Read, Map
<1>12. ASSUME NEW p \in Ranks, segment # NoSegment,
              Enter(p) \/ Arrive(p) \/ Reset(p) \/ Advance(p)
       PROVE  segment' \in Segment /\ segment'.maker = segment.maker
  BY <1>1, <1>12, RankFacts DEF Enter, Arrive, Reset, Advance, Segment
<1>13. ASSUME NEW p \in Clients, Enter(p) PROVE Presence'
  BY <1>1, <1>7, <1>12, <1>13 DEF Enter
<1>14. ASSUME NEW p \in Ranks, Arrive(p) PROVE Presence'
  BY <1>1, <1>7, <1>12, <1>14 DEF Arrive
<1>15. ASSUME NEW p \in Ranks, Reset(p) \/ Advance(p) PROVE Presence'
  BY <1>1, <1>7, <1>12, <1>15 DEF Reset, Advance
<1>16. ASSUME NEW p \in Ranks, Translate(p) PROVE Presence'
  BY <1>1, <1>7, <1>16 DEF Translate
<1> QED
  BY <1>2, <1>3, <1>4, <1>5, <1>6, <1>8, <1>9, <1>10, <1>11, <1>13, <1>14,
     <1>15, <1>16
     DEF Next, Inside, MasterStep, ClientStep, Barrier, Ended

\* The segment of this run counts those who come, until all have.
LEMMA OwnSegmentStep == Inv /\ [Next]_vars => OwnSegment'
<1> SUFFICES ASSUME Inv, [Next]_vars, segment'.maker = run', run' # 0
             PROVE  Count' /\ World' /\ Known'
  BY DEF OwnSegment
<1>1. /\ Presence /\ Shape /\ OwnSegment /\ TypeOK
      /\ pc \in [Ranks -> Places] /\ run \in 0 .. MaxRuns /\ MaxRuns \in Nat
      /\ segment \in Segment \cup {NoSegment} /\ came \subseteq Ranks
      /\ local \in [Ranks -> 0 .. 1]
      /\ translate \in [Ranks -> [Ranks -> Nat \cup {-1}]]
      /\ Master \in Ranks /\ Ranks = Clients \cup {Master} /\ Master \notin Clients
      /\ WorldRank \in [Ranks -> Nat]
      /\ \A s \in Segment : s.maker # 0
      /\ NoSegment.maker = 0
  <2>1. \A s \in Segment : s.maker # 0
    BY RankFacts DEF Segment
  <2>2. NoSegment.maker = 0
    BY DEF NoSegment
  <2> QED
    BY <2>1, <2>2, RankFacts DEF Inv, TypeOK
<1>2. CASE UNCHANGED vars
  BY <1>1, <1>2 DEF vars, node, OwnSegment, Count, World, Known, Joined
<1>3. CASE StartRun
  <2>1. run' = run + 1 /\ segment' = segment
    BY <1>3 DEF StartRun
  <2> QED
    BY <1>1, <2>1 DEF Presence
<1>4. CASE EndRun
  BY <1>1, <1>4 DEF EndRun, node, OwnSegment, Count, World, Known, Joined
<1>5. CASE Clean
  BY <1>1, <1>5 DEF Clean, node, OwnSegment, Count, World, Known, Joined
\* A process goes on outside the barrier, and the counts stay.
<1>6. ASSUME NEW p \in Ranks, NEW place, Goto(p, place),
             UNCHANGED <<segment, came, translate, node>>,
             place \notin {"reset", "advance", "joined", "create", "size", "clear"},
             place = "arrive" => p = Master
      PROVE  Count' /\ World' /\ Known'
  <2>1. /\ UNCHANGED <<segment, came, translate, run, clean>>
        /\ pc' = [pc EXCEPT ![p] = place]
        /\ Count /\ World /\ Known
    BY <1>6 DEF Goto, node, OwnSegment, Inv
  <2>2. Count'
    BY <1>1, <1>6, <2>1 DEF Count
  <2>3. World'
    BY <1>1, <1>6, <2>1 DEF World
  <2>4. Known'
    BY <1>1, <1>6, <2>1 DEF Known, Joined
  <2> QED
    BY <2>2, <2>3, <2>4
\* In the barrier what is in the segment of the world ranks stays, and what a
\* process knows until it joins.
<1>17. ASSUME NEW p \in Ranks, NEW place, pc' = [pc EXCEPT ![p] = place],
              World, Known, UNCHANGED <<translate, clean>>,
              segment'.world = segment.world,
              place \notin {"joined", "create", "size", "clear", "arrive"},
              \A q \in Clients \ {p} : q \in came' => q \in came,
              p \in came \/ pc[p] = "arrive"
       PROVE  World' /\ Known'
  <2>1. World'
    BY <1>1, <1>17 DEF World
  <2>2. Known'
    BY <1>1, <1>17 DEF Known, Joined
  <2> QED
    BY <2>1, <2>2
<1>7. ASSUME NEW p \in Ranks, Crash(p) PROVE Count' /\ World' /\ Known'
  BY <1>6, <1>7 DEF Crash
<1>8. CASE Create
  <2>1. UNCHANGED <<translate, node, came, local>>
    BY <1>8 DEF Create
  <2>2. CASE segment = NoSegment
    <3>1. /\ segment'.gen = 0 /\ segment'.nwritter = 0
          /\ segment'.world = [q \in Ranks |-> 0]
          /\ pc' = [pc EXCEPT ![Master] = "size"]
      BY <1>8, <2>2 DEF Create, Goto
    <3>2. came = {} /\ \A p \in Ranks : pc[p] \notin InSegment
      BY <1>1, <1>8, <2>2 DEF Presence, Between, Create
    <3>3. Cardinality(came) = 0
      BY <3>2, FS_EmptySet
    <3>4. Count'
      BY <1>1, <2>1, <3>1, <3>2, <3>3 DEF Count, InSegment
    <3>5. World' /\ Known'
      BY <1>1, <2>1, <3>1, <3>2 DEF World, Known, Joined, InSegment
    <3> QED
      BY <3>4, <3>5
  <2>3. CASE segment # NoSegment
    BY <1>1, <1>6, <1>8, <2>3 DEF Create
  <2> QED
    BY <2>2, <2>3
<1>9. CASE Size
  <2>1. segment \in Segment /\ segment.maker = run /\ run # 0
    BY <1>1, <1>9 DEF Presence, MasterPlaces, Size
  <2>2. /\ UNCHANGED <<translate, node, came>> /\ pc[Master] = "size"
        /\ segment'.gen = segment.gen /\ segment'.nwritter = segment.nwritter
        /\ segment'.world = segment.world /\ pc' = [pc EXCEPT ![Master] = "clear"]
    BY <1>9, <2>1 DEF Size, Segment, Goto
  <2>3. Count'
    BY <1>1, <2>1, <2>2 DEF OwnSegment, Count
  <2>4. World' /\ Known'
    BY <1>1, <2>1, <2>2 DEF OwnSegment, World, Known, Joined, node
  <2> QED
    BY <2>3, <2>4
<1>16. CASE Clear
  <2>1. segment \in Segment /\ segment.maker = run /\ run # 0
    BY <1>1, <1>16 DEF Presence, MasterPlaces, Clear
  <2>2. /\ UNCHANGED <<translate, node, came>> /\ pc[Master] = "clear"
        /\ segment'.gen = Cleared(GenOffset, segment.gen)
        /\ segment'.nwritter = Cleared(NwritterOffset, segment.nwritter)
        /\ \A q \in Clients : segment'.world[q] =
                                   Cleared(RankOffset(q), segment.world[q])
        /\ pc' = [pc EXCEPT ![Master] = "open"]
    <3>1. /\ UNCHANGED <<translate, node, came>> /\ pc[Master] = "clear"
          /\ pc' = [pc EXCEPT ![Master] = "open"]
      BY <1>16 DEF Clear, Goto
    <3> QED
      BY <1>1, <1>16, <2>1, <3>1, ClearFacts
  <2>3. Master \notin came /\ Count /\ World /\ Known
    BY <1>1, <2>1, <2>2 DEF OwnSegment, Shape, MasterPlaces
  <2>4. segment.gen = 0 /\ segment.nwritter <= Cardinality(came)
    BY <1>1, <2>3 DEF Count
  <2>5. segment'.gen = 0 /\ segment'.nwritter <= Cardinality(came)
    <3>1. segment.nwritter \in Nat
      BY <2>1 DEF Segment
    <3>2. segment'.nwritter \in Nat /\ segment'.nwritter <= segment.nwritter
      BY <2>2, <3>1, ClearedTyped
    <3>3. Cardinality(came) \in Nat
      BY <1>1, RanksCounted, FS_Subset, FS_CardinalityType
    <3> QED
      BY <2>2, <2>4, <3>1, <3>2, <3>3, ClearedTyped
  <2>6. Count'
    BY <1>1, <2>2, <2>3, <2>5 DEF Count
  <2>7. Known'
    BY <1>1, <2>2, <2>3 DEF Known, Joined, node
  <2>8. World'
    <3> SUFFICES ASSUME NEW q \in Clients, q \in came \/ pc[q] = "arrive"
                 PROVE  /\ ~clean
                        /\ segment'.world[q] = Cleared(RankOffset(q), WorldRank[q])
      BY <1>1, <2>2 DEF World, node
    <3>1. ~clean
      BY <1>1, <2>2 DEF Inv, CleanOrder, MasterPlaces, InSegment
    <3>2. segment.world[q] = WorldRank[q]
      BY <2>2, <2>3 DEF World
    <3> QED
      BY <2>2, <3>1, <3>2
  <2> QED
    BY <2>6, <2>7, <2>8
<1>10. CASE Publish
  BY <1>1, <1>6, <1>10 DEF Publish, OpenFile, Truncate, Write
<1>11. ASSUME NEW p \in Clients, Read(p) \/ Map(p)
       PROVE  Count' /\ World' /\ Known'
  BY <1>1, <1>6, <1>11 DEF Read, Map
<1>12. ASSUME NEW p \in Clients, Enter(p) PROVE Count' /\ World' /\ Known'
  <2>1. segment \in Segment /\ UNCHANGED <<translate, node, came>>
    BY <1>1, <1>12 DEF Presence, InSegment, Enter
  <2>2. CASE segment.sized
    <3>1. /\ segment'.maker = segment.maker /\ segment'.gen = segment.gen
          /\ segment'.nwritter = segment.nwritter
          /\ segment'.world = [segment.world EXCEPT ![p] = WorldRank[p]]
          /\ segment.world \in [Ranks -> Nat]
          /\ pc' = [pc EXCEPT ![p] = "arrive"]
      BY <1>1, <1>12, <2>1, <2>2 DEF Enter, Segment, Goto
    <3>2. segment.maker = run /\ run # 0
      BY <2>1, <3>1 DEF node
    <3>3. Count'
      BY <1>1, <2>1, <3>1, <3>2 DEF OwnSegment, Count
    <3>4. World /\ Known /\ clean' = clean
      BY <1>1, <2>1, <3>2 DEF OwnSegment, node
    <3>5. World'
      BY <1>1, <2>1, <3>1, <3>4 DEF World
    <3>6. Known'
      BY <1>1, <2>1, <3>1, <3>4 DEF Known, Joined
    <3> QED
      BY <3>3, <3>5, <3>6
  <2>3. CASE ~segment.sized
    BY <1>1, <1>6, <1>12, <2>3 DEF Enter
  <2> QED
    BY <2>2, <2>3
<1>13. ASSUME NEW p \in Ranks, Arrive(p) PROVE Count' /\ World' /\ Known'
  <2>1. segment \in Segment /\ UNCHANGED <<translate, node>>
    BY <1>1, <1>13 DEF Presence, InSegment, Arrive
  <2>2. /\ segment'.maker = segment.maker /\ segment'.gen = segment.gen
        /\ segment'.nwritter = segment.nwritter + 1
        /\ segment'.world = segment.world /\ came' = came \cup {p}
        /\ segment.nwritter \in Nat
    BY <2>1, <1>13 DEF Arrive, Segment
  <2>3. segment.maker = run /\ run # 0 /\ p \notin came /\ pc[p] = "arrive"
    BY <1>1, <1>13, <2>1, <2>2 DEF node, Shape, Arrive
  <2>4. segment.gen = 0 /\ segment.nwritter <= Cardinality(came)
    BY <1>1, <2>3 DEF OwnSegment, Count
  <2>5. /\ Cardinality(came') = Cardinality(came) + 1 /\ Cardinality(came) \in Nat
        /\ segment'.nwritter <= Cardinality(came')
    <3>1. IsFiniteSet(came) /\ Cardinality(came) \in Nat
      BY <1>1, RanksCounted, FS_Subset, FS_CardinalityType
    <3>2. Cardinality(came \cup {p}) = Cardinality(came) + 1
      BY <2>3, <3>1, FS_AddElement
    <3> QED
      BY <2>2, <2>4, <3>1, <3>2
  <2>6. segment.nwritter = NumProcs - 1 => came' = Ranks
    <3> SUFFICES ASSUME segment.nwritter = NumProcs - 1 PROVE came' = Ranks
      OBVIOUS
    <3>1. came' \subseteq Ranks
      BY <1>1, <2>2
    <3>2. Cardinality(came') <= Cardinality(Ranks)
      BY <3>1, RanksCounted, FS_Subset
    <3>3. Cardinality(came') = Cardinality(Ranks)
      BY <2>4, <2>5, <3>2, RanksCounted, RankFacts
    <3> QED
      BY <3>1, <3>3, RanksCounted, FS_Subset
  <2>7. \A q \in Ranks : pc[q] \notin {"reset", "advance", "joined"}
    BY <1>1, <2>3 DEF OwnSegment, Count
  <2>8. /\ pc' = [pc EXCEPT ![p] = "reset"] \/ pc' = [pc EXCEPT ![p] = "wait"]
        /\ segment.nwritter # NumProcs - 1 => pc' = [pc EXCEPT ![p] = "wait"]
    BY <1>13 DEF Arrive, Goto
  <2>9. Count'
    BY <1>1, <2>2, <2>4, <2>5, <2>6, <2>7, <2>8 DEF Count
  <2>10. World' /\ Known'
    BY <1>1, <1>17, <2>1, <2>2, <2>3, <2>8 DEF OwnSegment, node
  <2> QED
    BY <2>9, <2>10
<1>14. ASSUME NEW p \in Ranks, Reset(p) \/ Advance(p)
       PROVE  Count' /\ World' /\ Known'
  <2>1. segment \in Segment /\ UNCHANGED <<translate, node, came>>
    BY <1>1, <1>14 DEF Presence, InSegment, Reset, Advance
  <2>2. segment'.maker = segment.maker /\ segment'.world = segment.world
    BY <1>14, <2>1 DEF Reset, Advance, Segment
  <2>3. segment.maker = run /\ run # 0
    BY <2>1, <2>2 DEF node
  <2>4. /\ came = Ranks
        /\ pc[p] = "advance" => segment.nwritter = 0
    BY <1>1, <1>14, <2>3 DEF OwnSegment, Count, Reset, Advance
  <2>5. /\ segment'.nwritter = 0
        /\ pc' = [pc EXCEPT ![p] = "advance"] \/ pc' = [pc EXCEPT ![p] = "wait"]
    BY <1>14, <2>1, <2>4 DEF Reset, Advance, Segment, Goto
  <2>6. Count'
    BY <1>1, <2>1, <2>4, <2>5 DEF Count
  <2>7. World' /\ Known'
    BY <1>1, <1>17, <2>1, <2>2, <2>3, <2>4, <2>5 DEF OwnSegment, node
  <2> QED
    BY <2>6, <2>7
<1>15. ASSUME NEW p \in Ranks, Translate(p) PROVE Count' /\ World' /\ Known'
  <2>1. /\ UNCHANGED <<segment, node, came>> /\ segment.gen = local[p]
        /\ pc[p] = "wait" /\ pc' = [pc EXCEPT ![p] = "joined"]
        /\ translate' = [translate EXCEPT ![p] = segment.world]
    BY <1>15 DEF Translate, Goto
  <2>2. segment.maker = run /\ run # 0 /\ local[p] = 1
    BY <1>1, <2>1 DEF node, Shape
  <2>3. came = Ranks /\ Count /\ World /\ Known
    BY <1>1, <2>1, <2>2 DEF OwnSegment, Count
  <2>4. Count'
    BY <1>1, <2>1, <2>3 DEF Count
  <2>5. World' /\ clean' = clean
    BY <1>1, <2>1, <2>3 DEF World, node
  <2>6. \A q \in Clients : \/ segment.world[q] = WorldRank[q]
                            \/ /\ ~clean
                               /\ segment.world[q] = Cleared(RankOffset(q), WorldRank[q])
    BY <1>1, <2>3 DEF World
  <2>7. Known'
    BY <1>1, <2>1, <2>3, <2>5, <2>6 DEF Known, Joined
  <2> QED
    BY <2>4, <2>5, <2>7
<1> QED
  BY <1>2, <1>3, <1>4, <1>5, <1>7, <1>8, <1>9, <1>10, <1>11, <1>12, <1>13,
     <1>14, <1>15, <1>16
     DEF Next, Inside, MasterStep, ClientStep, Barrier, Ended

\* A run that found nothing keeps the order in which the master creates, sizes
\* and publishes.
LEMMA CleanRunStep == Inv /\ [Next]_vars => CleanRun'
<1> SUFFICES ASSUME Inv, [Next]_vars
             PROVE  CleanRun'
  OBVIOUS
<1>1. /\ Presence /\ Shape /\ CleanRun
      /\ pc \in [Ranks -> Places] /\ file \in {"absent", "short", "full"}
      /\ segment \in Segment \cup {NoSegment}
      /\ Master \in Ranks /\ Ranks = Clients \cup {Master} /\ Master \notin Clients
      /\ \A s \in Segment : s # NoSegment
  <2>1. \A s \in Segment : s.maker # 0
    BY RankFacts DEF Segment
  <2>2. NoSegment.maker = 0
    BY DEF NoSegment
  <2> QED
    BY <2>1, <2>2, RankFacts DEF Inv, TypeOK
<1> USE DEF CleanRun, InSegment
<1>2. CASE UNCHANGED vars
  BY <1>1, <1>2 DEF vars, node, Between
<1>3. CASE StartRun
  BY <1>1, <1>3 DEF StartRun
<1>4. CASE EndRun \/ Clean
  BY <1>4 DEF EndRun, Clean, Between, node
\* Inside the run, a process that moves was there before.
<1>5. ASSUME NEW p \in Ranks, NEW place, Goto(p, place), pc[p] # "gone",
             UNCHANGED node
      PROVE  /\ clean' = clean /\ ~Between
             /\ pc' = [pc EXCEPT ![p] = place]
  BY <1>5 DEF Goto, node, Between
<1>6. ASSUME NEW p \in Ranks, NEW place, Goto(p, place), pc[p] # "gone",
             UNCHANGED <<segment, file, node>>,
             clean => place # "failed", place # "create",
             clean /\ ~Between /\ p = Master
                   /\ place \in {"clear", "open", "truncate", "write"} =>
                 segment.sized,
             clean /\ ~Between /\ p \in Clients /\ place \in {"map"} \cup InSegment =>
                 segment # NoSegment /\ segment.sized
      PROVE  CleanRun'
  <2>1. /\ clean' = clean /\ ~Between /\ pc' = [pc EXCEPT ![p] = place]
        /\ segment' = segment /\ file' = file
    BY <1>5, <1>6
  <2>2. CASE ~clean
    BY <2>1, <2>2
  <2>3. CASE clean
    <3>1. /\ pc'[p] = place /\ \A q \in Ranks \ {p} : pc'[q] = pc[q]
          /\ place # "failed" /\ place # "create"
      BY <1>1, <1>6, <2>1, <2>3
    <3>2. \A q \in Ranks : pc'[q] # "failed"
      BY <1>1, <2>1, <2>3, <3>1
    <3>3. /\ pc'[Master] = "create" => segment = NoSegment
          /\ pc'[Master] \in {"clear", "open", "truncate", "write"} => segment.sized
      BY <1>1, <1>6, <2>1, <2>3, <3>1
    <3>4. \A q \in Clients : pc'[q] \in {"map"} \cup InSegment =>
                                 segment # NoSegment /\ segment.sized
      BY <1>1, <1>6, <2>1, <2>3, <3>1
    <3> QED
      BY <1>1, <2>1, <2>3, <3>2, <3>3, <3>4
  <2> QED
    BY <2>2, <2>3
<1>7. ASSUME NEW p \in Ranks, Crash(p) PROVE CleanRun'
  BY <1>6, <1>7 DEF Crash
<1>8. CASE Create
  <2>1. CASE segment = NoSegment
    <3>1. /\ segment' # NoSegment /\ pc' = [pc EXCEPT ![Master] = "size"]
          /\ UNCHANGED <<file, clean>> /\ ~Between
      <4>1. run \in 1 .. MaxRuns
        BY <1>1, <1>8, RankFacts DEF Inv, TypeOK, Presence, Between, Create
      <4> QED
        BY <1>1, <1>8, <2>1, <4>1, FreshSegment DEF Create, Goto, node, Between
    <3> QED
      BY <1>1, <2>1, <3>1
  <2>2. CASE segment # NoSegment
    <3>1. ~clean
      BY <1>1, <1>8, <2>2 DEF Create, Between
    <3> QED
      BY <1>8, <3>1 DEF Create, node
  <2> QED
    BY <2>1, <2>2
<1>9. ASSUME segment \in Segment, segment' \in Segment, UNCHANGED <<file, node>>,
             segment.sized => segment'.sized, ~Between,
             NEW p \in Ranks, NEW place, Goto(p, place),
             place \in {"clear", "open", "arrive", "reset", "advance", "wait"},
             clean => segment'.sized
      PROVE  CleanRun'
  BY <1>1, <1>9 DEF Goto, node
<1>10. CASE Size \/ Clear
  <2>1. segment \in Segment /\ ~Between
    BY <1>1, <1>10, InsideHasSegment DEF Size, Clear, MasterPlaces, Between
  <2>2. /\ segment'.sized \/ segment'.sized = segment.sized
        /\ pc[Master] = "size" => segment'.sized
        /\ segment' \in Segment /\ UNCHANGED <<file, node>>
        /\ Goto(Master, "clear") \/ Goto(Master, "open")
    <3>1. CASE Size
      BY <2>1, <3>1 DEF Size, Segment
    <3>2. CASE Clear
      <4>1. /\ UNCHANGED <<file, node>> /\ pc[Master] = "clear"
            /\ Goto(Master, "open")
        BY <3>2 DEF Clear
      <4> QED
        BY <2>1, <3>2, <4>1, ClearFacts
    <3> QED
      BY <1>10, <3>1, <3>2
  <2>3. clean => segment'.sized
    BY <1>1, <1>10, <2>1, <2>2 DEF Size, Clear
  <2> QED
    BY <1>1, <1>9, <2>1, <2>2, <2>3
<1>11. CASE Publish
  <2>1. /\ UNCHANGED <<segment, node>> /\ pc[Master] \in {"open", "truncate", "write"}
        /\ \E place \in {"truncate", "write", "arrive"} : Goto(Master, place)
    BY <1>11 DEF Publish, OpenFile, Truncate, Write
  <2>2. ~Between /\ segment # NoSegment
    BY <1>1, <2>1, InsideHasSegment DEF Between, MasterPlaces
  <2> QED
    BY <1>1, <2>1, <2>2 DEF Goto, node
<1>12. ASSUME NEW p \in Clients, ClientStep(p) PROVE CleanRun'
  <2>1. ~Between
    BY <1>1, <1>12 DEF ClientStep, Read, Map, Enter, Between
  <2>2. CASE Read(p)
    <3>1. clean => segment # NoSegment /\ segment.sized
      BY <1>1, <2>1, <2>2 DEF Read
    <3> QED
      BY <1>1, <1>6, <2>2, <3>1 DEF Read
  <2>3. CASE Map(p)
    <3>1. clean => segment # NoSegment /\ segment.sized
      BY <1>1, <2>1, <2>3 DEF Map
    <3> QED
      BY <1>1, <1>6, <2>3, <3>1 DEF Map
  <2>4. CASE Enter(p)
    <3>1. (clean => segment.sized) /\ segment \in Segment
      BY <1>1, <2>1, <2>4, InsideHasSegment DEF Enter
    <3>2. CASE segment.sized
      <4>1. /\ segment'.sized /\ segment' \in Segment
            /\ UNCHANGED <<file, node>> /\ Goto(p, "arrive")
        BY <1>1, <2>4, <3>1, <3>2, RankFacts DEF Enter, Segment
      <4> QED
        BY <1>1, <1>9, <2>1, <3>1, <4>1
    <3>3. CASE ~segment.sized
      BY <1>1, <1>6, <2>4, <3>1, <3>3 DEF Enter
    <3> QED
      BY <3>2, <3>3
  <2> QED
    BY <1>12, <2>2, <2>3, <2>4 DEF ClientStep
<1>13. ASSUME NEW p \in Ranks, Arrive(p) \/ Reset(p) \/ Advance(p) \/ Translate(p)
       PROVE  CleanRun'
  <2>1. segment \in Segment /\ ~Between /\ UNCHANGED <<file, node>>
    BY <1>1, <1>13, InsideHasSegment
       DEF Arrive, Reset, Advance, Translate, Between
  <2>2. /\ segment'.sized = segment.sized /\ segment' # NoSegment
        /\ \E place \in {"reset", "advance", "wait", "joined"} : Goto(p, place)
    <3>1. CASE Translate(p)
      BY <1>1, <2>1, <3>1 DEF Translate
    <3>2. CASE Arrive(p) \/ Reset(p) \/ Advance(p)
      <4>1. segment' \in Segment /\ segment'.sized = segment.sized
        BY <2>1, <3>2 DEF Arrive, Reset, Advance, Segment
      <4> QED
        BY <1>1, <3>2, <4>1 DEF Arrive, Reset, Advance
    <3> QED
      BY <1>13, <3>1, <3>2
  <2>3. pc[p] \in {"arrive", "reset", "advance", "wait"}
    BY <1>13 DEF Arrive, Reset, Advance, Translate
  <2> QED
    BY <1>1, <2>1, <2>2, <2>3 DEF Goto, node
<1> QED
  BY <1>2, <1>3, <1>4, <1>7, <1>8, <1>10, <1>11, <1>12, <1>13
     DEF Next, Inside, MasterStep, Barrier, Ended

\* While the master prepares the segment of such a run, the clients wait.
LEMMA CleanOrderStep == Inv /\ [Next]_vars => CleanOrder'
<1> SUFFICES ASSUME Inv, [Next]_vars, clean', pc'[Master] \in MasterPlaces
             PROVE  CleanOrder'
  BY DEF CleanOrder
<1>1. /\ CleanOrder /\ Shape /\ pc \in [Ranks -> Places]
      /\ Master \in Ranks /\ Ranks = Clients \cup {Master} /\ Master \notin Clients
  BY RankFacts DEF Inv, TypeOK
<1> USE DEF CleanOrder, MasterPlaces, InSegment
<1>2. CASE UNCHANGED vars
  BY <1>1, <1>2 DEF vars, node
<1>3. CASE StartRun
  BY <1>1, <1>3 DEF StartRun
<1>4. CASE EndRun \/ Clean
  BY <1>1, <1>4 DEF EndRun, Clean, Between, node
<1>5. ASSUME NEW p \in Ranks, NEW place, Goto(p, place), UNCHANGED <<node, came>>,
             pc[Master] \in MasterPlaces, place \notin {"map"} \cup InSegment,
             file' # "full" \/ file' = file
      PROVE  CleanOrder'
  BY <1>1, <1>5 DEF Goto, node
<1>6. ASSUME NEW p \in Ranks, Crash(p) PROVE CleanOrder'
  <2>1. pc[Master] \in MasterPlaces
    BY <1>1, <1>6 DEF Crash, Goto
  <2> QED
    BY <1>5, <1>6, <2>1 DEF Crash
<1>7. CASE Create \/ Size \/ Clear
  BY <1>1, <1>5, <1>7 DEF Create, Size, Clear
<1>8. CASE OpenFile \/ Truncate
  BY <1>1, <1>5, <1>8 DEF OpenFile, Truncate
<1>9. CASE Write
  BY <1>1, <1>9 DEF Write, Goto
<1>10. ASSUME NEW p \in Clients, ClientStep(p) PROVE CleanOrder'
  <2>1. pc[Master] \in MasterPlaces /\ clean
    BY <1>1, <1>10 DEF ClientStep, Read, Map, Enter, Goto, node
  <2>2. file # "full" /\ pc[p] \notin {"map", "enter"}
    BY <1>1, <1>10, <2>1
  <2> QED
    BY <1>10, <2>2 DEF ClientStep, Read, Map, Enter
<1>11. ASSUME NEW p \in Ranks, Barrier(p) PROVE CleanOrder'
  <2>1. /\ pc[p] \in {"arrive", "reset", "advance", "wait"} /\ clean
        /\ \E place \in {"reset", "advance", "wait", "joined"} : Goto(p, place)
    BY <1>11 DEF Barrier, Arrive, Reset, Advance, Translate, node
  <2>2. p # Master /\ pc[Master] \in MasterPlaces
    BY <1>1, <2>1 DEF Goto
  <2> QED
    BY <1>1, <2>1, <2>2
<1> QED
  BY <1>2, <1>3, <1>4, <1>6, <1>7, <1>8, <1>9, <1>10, <1>11
     DEF Next, Inside, MasterStep, Publish, Ended

\* A step keeps the whole of it.
LEMMA NextInv == Inv /\ [Next]_vars => Inv'
  BY TypeStep, ShapeStep, PresenceStep, OwnSegmentStep, CleanRunStep,
     CleanOrderStep DEF Inv

\* The invariant holds of every state of every run.
LEMMA Invariant == Spec => []Inv
  BY InitInv, NextInv, PTL DEF Spec

\* The state of the segment, the file and the processes keeps to its types; a
\* process inside the barrier has a segment (module_shm.c:74-131, 284-341).
THEOREM JoinTyped == Spec => []TypeOK
<1>1. Inv => TypeOK
  BY DEF Inv
<1> QED
  BY <1>1, Invariant, PTL

\* Processes meet the processes of their own run, or the master has failed
\* (module_shm.c:257, 294-301, 326-331).
THEOREM OwnRunMet == Spec => []MeetsOwnRun
<1>1. ASSUME Inv PROVE MeetsOwnRun
  <2>1. \A p \in Ranks : Joined(p) => run # 0
    BY <1>1 DEF Inv, Presence, Between, Joined
  <2>2. Joined(Master) => segment.maker = run
    BY <1>1 DEF Inv, Presence, Joined, InSegment
  <2>3. segment.maker = run => \A p \in Ranks : Joined(p) => came = Ranks
    BY <1>1, <2>1 DEF Inv, OwnSegment, Count, Joined
  <2> QED
    BY <2>2, <2>3, RankFacts DEF MeetsOwnRun
<1> QED
  BY <1>1, Invariant, PTL

\* Who joins the segment of its own run knows every client's world rank, or what
\* the clearing left of it, which in a clean run is all (module_shm.c:94, 268, 308,
\* 338-341).
THEOREM RanksKnown == Spec => []RanksTranslated
<1>1. ASSUME Inv PROVE RanksTranslated
  <2>1. \A p \in Ranks : Joined(p) => run # 0
    BY <1>1 DEF Inv, Presence, Between, Joined
  <2> QED
    BY <1>1, <2>1 DEF Inv, OwnSegment, Known, RanksTranslated
<1> QED
  BY <1>1, Invariant, PTL

\* Nobody fails where nothing is left of another run (module_shm.c:133-159,
\* 186-193, 297-302).
THEOREM CleanRunsSucceed == Spec => []CleanRunNeverFails
<1>1. ASSUME Inv PROVE CleanRunNeverFails
  BY <1>1 DEF Inv, CleanRun, CleanRunNeverFails, Between
<1> QED
  BY <1>1, Invariant, PTL
-----------------------------------------------------------------------------
(* Recursion *)

\* What the library assumes of a node.
LEMMA NodeFacts == NumProcs \in Nat \ {0} /\ 1 \in Nat \ {0}
  BY JoinAssumption

\* Induction on a measure.
LEMMA MeasureInduction ==
    ASSUME NEW D, NEW mu, \A x \in D : mu[x] \in Nat,
           NEW P, \A x \in D : (\A y \in D : mu[y] < mu[x] => y \in P) => x \in P
    PROVE  \A x \in D : x \in P
BY Library!MeasureInduction, NodeFacts, Zenon

\* A set of naturals has a smallest.
LEMMA LeastNatural ==
    ASSUME NEW T \in SUBSET Nat, T # {}
    PROVE  \E n \in T : \A m \in T : n <= m
BY Library!LeastNatural, JoinAssumption

-----------------------------------------------------------------------------
(* The list of tasks: its tokens *)

\* What is left of a list from a place on.
Rest(t, i) == SubSeq(t, i, Len(t))

\* The ways to write a run of k nodes with c tasks.
Items(c, k) == {Item(c, k)} \cup
    (IF k = 1 THEN {Item(c, k) \o <<OpenParen, TimesSign, 1, CloseParen>>} ELSE {})

\* The lists that say tasks, the empty one of no tasks.
Texts(tasks) == IF tasks = <<>> THEN {<<>>}
                ELSE Writings[tasks] \cup {t \o <<Comma>> : t \in Writings[tasks]}

Same(c, k) == [i \in 1 .. k |-> c]

\* Numbers are naturals, the other tokens are negative, the end is no token.
LEMMA TokenFacts ==
    /\ Numbers \subseteq Nat /\ 1 \in Numbers
    /\ OpenParen \in Int /\ TimesSign \in Int /\ CloseParen \in Int /\ Comma \in Int
    /\ OpenParen < 0 /\ TimesSign < 0 /\ CloseParen < 0 /\ Comma < 0
    /\ OpenParen # Comma
    /\ OpenParen # EndOfText /\ TimesSign # EndOfText
    /\ CloseParen # EndOfText /\ Comma # EndOfText
    /\ EndOfText \in Int /\ EndOfText < 0 /\ EndOfText \notin Tokens
    /\ Tokens \subseteq Int
    /\ {OpenParen, TimesSign, CloseParen, Comma} \subseteq Tokens
    /\ \A c \in Tokens : c > 0 => c \in Numbers \ {0}
    /\ Numbers \subseteq Tokens
<1>1. Numbers \subseteq Nat /\ 1 \in Numbers
  BY TasksAssumption DEF Numbers
<1> QED
  BY <1>1 DEF Tokens, OpenParen, TimesSign, CloseParen, Comma, Stray, EndOfText

\* What is left of a list, and its tokens.
LEMMA RestFacts ==
    ASSUME NEW t \in Seq(Int), NEW i \in 1 .. Len(t) + 1
    PROVE  /\ Rest(t, i) \in Seq(Int)
           /\ Len(Rest(t, i)) = Len(t) + 1 - i
           /\ \A j \in 1 .. Len(t) + 1 - i : Rest(t, i)[j] = t[i + j - 1]
<1>1. Len(t) \in Nat
  BY LenProperties
<1>2. i \in Int /\ \A j \in i .. Len(t) : t[j] \in Int
  BY <1>1, ElementOfSeq
<1> QED
  BY <1>1, <1>2, SubSeqProperties DEF Rest

\* A list that goes on with a goes on after it.
GoesOn(t, i, a, b) == Rest(t, i) = a \o b

\* Its first part is at its place, and the second part is what is left after it.
LEMMA RestSplit ==
    ASSUME NEW t \in Seq(Int), NEW i \in 1 .. Len(t) + 1,
           NEW a \in Seq(Int), NEW b \in Seq(Int), GoesOn(t, i, a, b)
    PROVE  /\ i + Len(a) \in 1 .. Len(t) + 1
           /\ \A j \in 1 .. Len(a) : t[i + j - 1] = a[j]
           /\ Rest(t, i + Len(a)) = b
<1>1. Len(t) \in Nat /\ Len(a) \in Nat /\ Len(b) \in Nat
  BY LenProperties
<1> DEFINE ab == a \o b
<1>a. /\ Len(ab) = Len(a) + Len(b)
      /\ \A j \in 1 .. Len(a) + Len(b) :
             ab[j] = IF j <= Len(a) THEN a[j] ELSE b[j - Len(a)]
  BY ConcatProperties
<1>b. Rest(t, i) = ab
  BY DEF GoesOn
<1> HIDE DEF ab
<1>2. /\ Len(a) + Len(b) = Len(t) + 1 - i
      /\ \A j \in 1 .. Len(t) + 1 - i : ab[j] = t[i + j - 1]
  BY <1>a, <1>b, RestFacts
<1>3. \A j \in 1 .. Len(a) + Len(b) :
         ab[j] = IF j <= Len(a) THEN a[j] ELSE b[j - Len(a)]
  BY <1>a
<1>4. i + Len(a) \in 1 .. Len(t) + 1
  BY <1>1, <1>2
<1>5. ASSUME NEW j \in 1 .. Len(a) PROVE t[i + j - 1] = a[j]
  <2>1. j \in 1 .. Len(t) + 1 - i /\ j \in 1 .. Len(a) + Len(b) /\ j <= Len(a)
    BY <1>1, <1>2
  <2>2. ab[j] = t[i + j - 1]
    BY <1>2, <2>1
  <2>3. ab[j] = a[j]
    BY <1>3, <2>1
  <2> QED
    BY <2>2, <2>3
<1>6. Rest(t, i + Len(a)) = b
  <2> DEFINE k == i + Len(a)
             r == Rest(t, k)
  <2>1. /\ r \in Seq(Int) /\ Len(r) = Len(t) + 1 - k
        /\ \A j \in 1 .. Len(t) + 1 - k : r[j] = t[k + j - 1]
    BY <1>4, RestFacts
  <2>2. Len(r) = Len(b)
    BY <1>1, <1>2, <2>1
  <2>3. ASSUME NEW j \in 1 .. Len(r) PROVE r[j] = b[j]
    <3>1. r[j] = t[i + (Len(a) + j) - 1]
      <4>1. k + j - 1 = i + (Len(a) + j) - 1 /\ j \in 1 .. Len(t) + 1 - k
        BY <1>1, <2>1
      <4> HIDE DEF k
      <4>2. r[j] = t[k + j - 1]
        BY <2>1, <4>1
      <4> QED
        BY <4>1, <4>2
    <3>2. ab[Len(a) + j] = t[i + (Len(a) + j) - 1]
      BY <1>1, <1>2, <2>2
    <3>3. /\ Len(a) + j \in 1 .. Len(a) + Len(b) /\ ~(Len(a) + j <= Len(a))
          /\ (Len(a) + j) - Len(a) = j
      BY <1>1, <2>2
    <3>4. ab[Len(a) + j] = b[j]
      BY <1>3, <3>3
    <3> QED
      BY <3>1, <3>2, <3>4
  <2> HIDE DEF r
  <2> QED
    BY <2>1, <2>2, <2>3, SeqEqual DEF r
<1> QED
  BY <1>4, <1>5, <1>6

\* And the other way round.
LEMMA RestJoin ==
    ASSUME NEW t \in Seq(Int), NEW i \in 1 .. Len(t) + 1,
           NEW a \in Seq(Int), i + Len(a) <= Len(t) + 1,
           \A j \in 1 .. Len(a) : t[i + j - 1] = a[j]
    PROVE  Rest(t, i) = a \o Rest(t, i + Len(a))
<1> DEFINE b == Rest(t, i + Len(a))
           r == Rest(t, i)
<1>1. Len(t) \in Nat /\ Len(a) \in Nat
  BY LenProperties
<1>2. /\ b \in Seq(Int) /\ Len(b) = Len(t) + 1 - (i + Len(a))
      /\ \A j \in 1 .. Len(t) + 1 - (i + Len(a)) : b[j] = t[i + Len(a) + j - 1]
  BY <1>1, RestFacts
<1>3. /\ r \in Seq(Int) /\ Len(r) = Len(t) + 1 - i
      /\ \A j \in 1 .. Len(t) + 1 - i : r[j] = t[i + j - 1]
  BY RestFacts
<1> HIDE DEF b, r
<1> DEFINE ab == a \o b
<1>4. /\ ab \in Seq(Int) /\ Len(ab) = Len(a) + Len(b)
      /\ \A j \in 1 .. Len(a) + Len(b) :
            ab[j] = IF j <= Len(a) THEN a[j] ELSE b[j - Len(a)]
  BY <1>2, ConcatProperties
<1> HIDE DEF ab
<1>5. ASSUME NEW j \in 1 .. Len(r) PROVE r[j] = ab[j]
  <2>1. CASE j <= Len(a)
    BY <1>1, <1>2, <1>3, <1>4, <2>1
  <2>2. CASE j > Len(a)
    <3> DEFINE m == j - Len(a)
    <3>1. /\ m \in 1 .. Len(t) + 1 - (i + Len(a))
          /\ i + Len(a) + m - 1 = i + j - 1
      BY <1>1, <1>3, <2>2
    <3>2. j \in 1 .. Len(t) + 1 - i /\ j \in 1 .. Len(a) + Len(b) /\ ~(j <= Len(a))
      BY <1>1, <1>2, <1>3, <2>2
    <3>3. ab[j] = b[m]
      BY <1>4, <3>2
    <3> HIDE DEF m
    <3>4. b[m] = t[i + Len(a) + m - 1]
      BY <1>2, <3>1
    <3>5. r[j] = t[i + j - 1]
      BY <1>3, <3>2
    <3> QED
      BY <3>1, <3>3, <3>4, <3>5
  <2> QED
    BY <1>1, <2>1, <2>2
<1>6. Len(r) = Len(ab)
  BY <1>1, <1>2, <1>3, <1>4
<1>7. r = ab
  BY <1>3, <1>4, <1>5, <1>6, SeqEqual
<1> QED
  BY <1>7 DEF ab, b, r

\* A run is a number with its count, or alone when the count is one.
LEMMA ItemsAre ==
    ASSUME NEW c \in Int, NEW k \in Int
    PROVE  Items(c, k) = {<<c, OpenParen, TimesSign, k, CloseParen>>} \cup
                         (IF k = 1 THEN {<<c>>} ELSE {})
<1>1. <<c>> \o <<OpenParen, TimesSign, 1, CloseParen>> =
      <<c, OpenParen, TimesSign, 1, CloseParen>>
  <2> DEFINE a == <<c>>
             b == <<OpenParen, TimesSign, 1, CloseParen>>
             d == <<c, OpenParen, TimesSign, 1, CloseParen>>
             ab == a \o b
  <2>1. a \in Seq(Int) /\ Len(a) = 1 /\ a[1] = c
    OBVIOUS
  <2>2. b \in Seq(Int) /\ Len(b) = 4
    BY TokenFacts
  <2>3. b[1] = OpenParen /\ b[2] = TimesSign /\ b[3] = 1 /\ b[4] = CloseParen
    OBVIOUS
  <2>4. d \in Seq(Int) /\ Len(d) = 5
    BY TokenFacts
  <2>5. d[1] = c /\ d[2] = OpenParen /\ d[3] = TimesSign /\ d[4] = 1 /\ d[5] = CloseParen
    OBVIOUS
  <2> HIDE DEF a, b, d
  <2>6. /\ ab \in Seq(Int) /\ Len(ab) = Len(a) + Len(b)
        /\ \A j \in 1 .. Len(a) + Len(b) :
               ab[j] = IF j <= Len(a) THEN a[j] ELSE b[j - Len(a)]
    BY <2>1, <2>2, ConcatProperties
  <2> HIDE DEF ab
  <2>7. ASSUME NEW j \in 1 .. Len(ab) PROVE ab[j] = d[j]
    <3>1. j \in {1, 2, 3, 4, 5}
      BY <2>1, <2>2, <2>6
    <3>2. ab[j] = IF j <= 1 THEN a[j] ELSE b[j - 1]
      BY <2>1, <2>2, <2>6, <3>1
    <3> QED
      BY <2>1, <2>3, <2>5, <3>1, <3>2
  <2>8. Len(ab) = Len(d)
    BY <2>1, <2>2, <2>4, <2>6
  <2>9. ab = d
    BY <2>4, <2>6, <2>7, <2>8, SeqEqual
  <2> QED
    BY <2>9 DEF a, b, d, ab
<1> QED
  BY <1>1 DEF Items, Item

\* The token at a place, and past the end.
LEMMA TokenAt ==
    ASSUME NEW t \in Seq(Int), NEW i \in Int
    PROVE  /\ i \in 1 .. Len(t) => Token(t, i) = t[i]
           /\ i \notin 1 .. Len(t) => Token(t, i) = EndOfText
           /\ Token(t, i) \in Int
BY LenProperties, ElementOfSeq, TokenFacts DEF Token

\* What follows a place in the list is its token.
LEMMA TokenOfRest ==
    ASSUME NEW t \in Seq(Int), NEW i \in 1 .. Len(t) + 1
    PROVE  Token(t, i) = IF Rest(t, i) = <<>> THEN EndOfText ELSE Rest(t, i)[1]
<1> DEFINE r == Rest(t, i)
<1>1. /\ r \in Seq(Int) /\ Len(r) = Len(t) + 1 - i
      /\ \A j \in 1 .. Len(t) + 1 - i : r[j] = t[i + j - 1]
  BY RestFacts
<1>2. Len(t) \in Nat /\ i \in Int
  BY LenProperties
<1> HIDE DEF r
<1>3. CASE i = Len(t) + 1
  <2>1. Len(r) = 0
    BY <1>1, <1>2, <1>3
  <2>2. r = <<>>
    BY <1>1, <2>1
  <2>3. Token(t, i) = EndOfText
    BY <1>2, <1>3, TokenAt
  <2> QED
    BY <2>2, <2>3 DEF r
<1>4. CASE i <= Len(t)
  <2>1. Len(r) # 0 /\ 1 \in 1 .. Len(t) + 1 - i /\ i + 1 - 1 = i
    BY <1>1, <1>2, <1>4
  <2>2. r # <<>> /\ r[1] = t[i]
    BY <1>1, <2>1
  <2>3. Token(t, i) = t[i]
    BY <1>2, <1>4, TokenAt
  <2> QED
    BY <2>2, <2>3 DEF r
<1> QED
  BY <1>2, <1>3, <1>4

\* The tool reads a run as it is written, when nothing or a comma follows.
LEMMA RunIsRead ==
    ASSUME NEW t \in Seq(Int), NEW i \in 1 .. Len(t) + 1,
           NEW c \in Nat \ {0}, NEW k \in Nat \ {0}, NEW it \in Items(c, k),
           NEW rest \in Seq(Int), rest = <<>> \/ rest[1] = Comma,
           GoesOn(t, i, it, rest)
    PROVE  /\ Token(t, i) = c
           /\ it \in Seq(Int) /\ Len(it) \in Nat \ {0}
           /\ RepeatCount(t, i + 1) = [times |-> k, next |-> i + Len(it)]
           /\ i + Len(it) \in 1 .. Len(t) + 1
           /\ Rest(t, i + Len(it)) = rest
           /\ Token(t, i + Len(it)) = IF rest = <<>> THEN EndOfText ELSE Comma
<1>1. \/ it = <<c, OpenParen, TimesSign, k, CloseParen>>
      \/ it = <<c>> /\ k = 1
  BY ItemsAre
<1>2. it \in Seq(Int) /\ Len(it) \in Nat \ {0} /\ it[1] = c
  <2>1. CASE it = <<c, OpenParen, TimesSign, k, CloseParen>>
    <3>1. it \in Seq(Int)
      BY <2>1, TokenFacts
    <3> QED
      BY <2>1, <3>1
  <2>2. CASE it = <<c>>
    BY <2>2
  <2> QED
    BY <1>1, <2>1, <2>2
<1>3. Len(t) \in Nat /\ i \in Nat
  BY LenProperties
<1>4. /\ i + Len(it) \in 1 .. Len(t) + 1
      /\ \A j \in 1 .. Len(it) : t[i + j - 1] = it[j]
      /\ Rest(t, i + Len(it)) = rest
  BY <1>2, RestSplit
<1>5. Token(t, i + Len(it)) = IF rest = <<>> THEN EndOfText ELSE Comma
  BY <1>4, TokenOfRest
<1>6. ASSUME NEW j \in 1 .. Len(it) PROVE Token(t, i + j - 1) = it[j]
  <2>1. i + j - 1 \in 1 .. Len(t)
    BY <1>2, <1>3, <1>4
  <2> DEFINE n == i + j - 1
  <2>2. n \in 1 .. Len(t) /\ n \in Int
    BY <1>3, <2>1
  <2> HIDE DEF n
  <2>3. Token(t, n) = t[n]
    BY <2>2, TokenAt
  <2> QED
    BY <1>4, <2>3 DEF n
<1>7. Token(t, i) = c
  <2>1. 1 \in 1 .. Len(it) /\ i + 1 - 1 = i
    BY <1>2, <1>3
  <2> QED
    BY <1>2, <1>6, <2>1
<1>8. RepeatCount(t, i + 1) = [times |-> k, next |-> i + Len(it)]
  <2>1. CASE it = <<c, OpenParen, TimesSign, k, CloseParen>>
    <3>1. /\ Len(it) = 5
          /\ it[2] = OpenParen /\ it[3] = TimesSign /\ it[4] = k /\ it[5] = CloseParen
      BY <2>1
    <3>2. /\ {2, 3, 4, 5} \subseteq 1 .. Len(it)
          /\ i + 2 - 1 = i + 1 /\ i + 3 - 1 = (i + 1) + 1
          /\ i + 4 - 1 = (i + 1) + 2 /\ i + 5 - 1 = (i + 1) + 3
          /\ (i + 1) + 4 = i + 5
      BY <1>3, <3>1
    <3>3. Token(t, i + 1) = OpenParen /\ Token(t, (i + 1) + 1) = TimesSign
      BY <1>6, <3>1, <3>2
    <3>4. Token(t, (i + 1) + 2) = k /\ Token(t, (i + 1) + 3) = CloseParen
      BY <1>6, <3>1, <3>2
    <3>5. k > 0
      OBVIOUS
    <3> QED
      BY <3>1, <3>2, <3>3, <3>4, <3>5 DEF RepeatCount
  <2>2. CASE it = <<c>> /\ k = 1
    <3>1. Len(it) = 1
      BY <2>2
    <3>2. Token(t, i + 1) # OpenParen
      BY <1>5, <3>1, TokenFacts
    <3> QED
      BY <2>2, <3>1, <3>2 DEF RepeatCount
  <2> QED
    BY <1>1, <2>1, <2>2
<1> QED
  BY <1>2, <1>4, <1>5, <1>7, <1>8

\* What the tool takes for a run is one.
LEMMA RunWasWritten ==
    ASSUME NEW t \in Seq(Tokens), NEW i \in Nat \ {0}, NEW c, NEW k, NEW j,
           Token(t, i) = c, c > 0, RepeatCount(t, i + 1) = [times |-> k, next |-> j],
           k # 0
    PROVE  /\ i \in 1 .. Len(t) /\ c \in Numbers \ {0} /\ k \in Numbers \ {0}
           /\ j \in i + 1 .. Len(t) + 1
           /\ \E it \in Items(c, k) : GoesOn(t, i, it, Rest(t, j))
<1>1. t \in Seq(Int) /\ Len(t) \in Nat
  BY TokenFacts, SeqMonotonic, LenProperties
<1>2. \A n \in Int : /\ n \in 1 .. Len(t) => Token(t, n) = t[n] /\ t[n] \in Tokens
                     /\ n \notin 1 .. Len(t) => Token(t, n) = EndOfText
  BY <1>1, TokenAt, ElementOfSeq
<1>3. i \in 1 .. Len(t) /\ c \in Numbers \ {0} /\ t[i] = c
  <2>1. i \in 1 .. Len(t)
    <3>1. c # EndOfText
      BY TokenFacts
    <3> QED
      BY <1>2, <3>1
  <2>2. t[i] = c /\ c \in Tokens
    BY <1>2, <2>1
  <2> QED
    BY <2>1, <2>2, TokenFacts
<1>4. CASE Token(t, i + 1) # OpenParen
  <2>1. k = 1 /\ j = i + 1
    BY <1>4 DEF RepeatCount
  <2>2. <<c>> \in Items(c, 1)
    BY <1>3, TokenFacts, ItemsAre
  <2>3. Rest(t, i) = <<c>> \o Rest(t, i + 1)
    <3> DEFINE a == <<c>>
    <3>1. a \in Seq(Int) /\ Len(a) = 1 /\ a[1] = c
      BY <1>3, TokenFacts
    <3> HIDE DEF a
    <3>2. \A n \in 1 .. Len(a) : t[i + n - 1] = a[n]
      BY <1>3, <3>1
    <3>3. i \in 1 .. Len(t) + 1 /\ i + Len(a) <= Len(t) + 1
      BY <1>1, <1>3, <3>1
    <3>4. Rest(t, i) = a \o Rest(t, i + Len(a))
      BY <1>1, <3>1, <3>2, <3>3, RestJoin
    <3> QED
      BY <3>1, <3>4 DEF a
  <2>4. k \in Numbers \ {0} /\ j \in i + 1 .. Len(t) + 1
    BY <1>1, <1>3, <2>1, TokenFacts
  <2> QED
    BY <1>3, <2>1, <2>2, <2>3, <2>4 DEF GoesOn
<1>5. CASE Token(t, i + 1) = OpenParen
  <2>1. /\ Token(t, (i + 1) + 1) = TimesSign /\ Token(t, (i + 1) + 2) > 0
        /\ Token(t, (i + 1) + 3) = CloseParen
        /\ k = Token(t, (i + 1) + 2) /\ j = (i + 1) + 4
    BY <1>5 DEF RepeatCount
  <2>2. (i + 1) + 1 = i + 2 /\ (i + 1) + 2 = i + 3 /\ (i + 1) + 3 = i + 4
        /\ (i + 1) + 4 = i + 5
    OBVIOUS
  <2>3. /\ t[i + 1] = OpenParen /\ t[i + 2] = TimesSign
        /\ t[i + 3] = k /\ t[i + 4] = CloseParen
        /\ i + 3 \in 1 .. Len(t) /\ i + 4 \in 1 .. Len(t) /\ k > 0 /\ k \in Tokens
    BY <1>2, <1>5, <2>1, <2>2, TokenFacts
  <2>4. k \in Numbers \ {0}
    BY <2>3, TokenFacts
  <2> DEFINE a == <<c, OpenParen, TimesSign, k, CloseParen>>
  <2>5. a \in Items(c, k)
    BY <1>3, <2>4, TokenFacts, ItemsAre
  <2>6. /\ a \in Seq(Int) /\ Len(a) = 5 /\ a[1] = c /\ a[2] = OpenParen
        /\ a[3] = TimesSign /\ a[4] = k /\ a[5] = CloseParen
    BY <1>3, <2>4, TokenFacts
  <2> HIDE DEF a
  <2>7. ASSUME NEW n \in 1 .. Len(a) PROVE t[i + n - 1] = a[n]
    <3>1. n \in {1, 2, 3, 4, 5}
      BY <2>6
    <3>2. /\ i + 1 - 1 = i /\ i + 2 - 1 = i + 1 /\ i + 3 - 1 = i + 2
          /\ i + 4 - 1 = i + 3 /\ i + 5 - 1 = i + 4
      OBVIOUS
    <3> QED
      BY <1>3, <2>3, <2>6, <3>1, <3>2
  <2>8. i \in 1 .. Len(t) + 1 /\ i + Len(a) <= Len(t) + 1 /\ i + Len(a) = j
    <3>1. i + 5 <= Len(t) + 1
      BY <1>1, <2>3
    <3> QED
      BY <1>1, <1>3, <2>1, <2>2, <2>6, <3>1
  <2>9. Rest(t, i) = a \o Rest(t, i + Len(a))
    BY <1>1, <2>6, <2>7, <2>8, RestJoin
  <2>10. j \in i + 1 .. Len(t) + 1
    BY <1>1, <2>1, <2>2, <2>6, <2>8
  <2> QED
    BY <1>3, <2>4, <2>5, <2>8, <2>9, <2>10 DEF GoesOn
<1> QED
  BY <1>4, <1>5

-----------------------------------------------------------------------------
(* The list of tasks: what it says *)

\* k times the same.
LEMMA SameFacts ==
    ASSUME NEW S, NEW c \in S, NEW k \in Nat
    PROVE  /\ Same(c, k) \in Seq(S) /\ Len(Same(c, k)) = k
           /\ \A i \in 1 .. k : Same(c, k)[i] = c
<1>1. Same(c, k) \in [1 .. k -> S]
  BY DEF Same
<1>2. Same(c, k) \in Seq(S)
  BY <1>1, SeqDef
<1>3. Len(Same(c, k)) = k
  <2>1. DOMAIN Same(c, k) = 1 .. k
    BY DEF Same
  <2>2. DOMAIN Same(c, k) = 1 .. Len(Same(c, k)) /\ Len(Same(c, k)) \in Nat
    BY <1>2, LenProperties
  <2> QED
    BY <2>1, <2>2
<1> QED
  BY <1>2, <1>3 DEF Same

\* What follows a place of a sequence is a sequence of the same kind.
LEMMA RestOfKind ==
    ASSUME NEW S, NEW t \in Seq(S), NEW k \in 0 .. Len(t)
    PROVE  /\ Rest(t, k + 1) \in Seq(S) /\ Len(Rest(t, k + 1)) = Len(t) - k
           /\ \A j \in 1 .. Len(t) - k : Rest(t, k + 1)[j] = t[k + j]
<1>1. Len(t) \in Nat
  BY LenProperties
<1> DEFINE m == k + 1
           n == Len(t)
<1>2. m <= n + 1 /\ n - m + 1 = n - k /\ \A j \in Int : m + j - 1 = k + j
  BY <1>1
<1>7. m \in Int /\ n \in Int
  BY <1>1
<1>3. \A j \in m .. n : t[j] \in S
  BY <1>1, ElementOfSeq
<1> HIDE DEF m, n
<1>4. /\ SubSeq(t, m, n) \in Seq(S)
      /\ Len(SubSeq(t, m, n)) = IF m <= n THEN n - m + 1 ELSE 0
      /\ \A j \in 1 .. n - m + 1 : SubSeq(t, m, n)[j] = t[m + j - 1]
  BY <1>3, <1>7, SubSeqProperties
<1>5. Len(SubSeq(t, m, n)) = n - k
  BY <1>2, <1>4, <1>7
<1>6. \A j \in 1 .. n - k : SubSeq(t, m, n)[j] = t[k + j]
  BY <1>2, <1>4, <1>7
<1> QED
  BY <1>4, <1>5, <1>6 DEF m, n, Rest

\* A sequence of which nothing is left out.
LEMMA RestOfAll == ASSUME NEW S, NEW t \in Seq(S) PROVE Rest(t, 1) = t
BY SubSeqFull DEF Rest

\* Tasks that begin with a run.
BeginsWith(tasks, c, k, v) ==
    /\ tasks # <<>> /\ Len(tasks) = k + Len(v)
    /\ k \in 1 .. Len(tasks) /\ tasks[1] = c /\ IsRun(tasks, k)
    /\ Rest(tasks, k + 1) = v

\* A run and more tasks begin with the run.
LEMMA RunThenRest ==
    ASSUME NEW S, NEW c \in S, NEW k \in Nat \ {0}, NEW v \in Seq(S)
    PROVE  /\ Same(c, k) \o v \in Seq(S)
           /\ BeginsWith(Same(c, k) \o v, c, k, v)
<1> DEFINE a == Same(c, k)
           tasks == a \o v
<1>1. a \in Seq(S) /\ Len(a) = k /\ \A i \in 1 .. k : a[i] = c
  BY SameFacts
<1>2. Len(v) \in Nat
  BY LenProperties
<1> HIDE DEF a
<1>4. /\ tasks \in Seq(S) /\ Len(tasks) = Len(a) + Len(v)
      /\ \A i \in 1 .. Len(a) + Len(v) :
            tasks[i] = IF i <= Len(a) THEN a[i] ELSE v[i - Len(a)]
  BY <1>1, ConcatProperties
<1> HIDE DEF tasks
<1>5. Len(tasks) = k + Len(v) /\ k \in 1 .. Len(tasks)
  BY <1>1, <1>2, <1>4
<1>6. tasks # <<>>
  <2>1. Len(tasks) # 0
    BY <1>2, <1>5
  <2> QED
    BY <2>1
<1>7. \A i \in 1 .. k : tasks[i] = c
  BY <1>1, <1>2, <1>4
<1>8. tasks[1] = c /\ IsRun(tasks, k)
  <2>1. 1 \in 1 .. k
    OBVIOUS
  <2> QED
    BY <1>7, <2>1 DEF IsRun
<1>9. Rest(tasks, k + 1) = v
  <2> DEFINE r == Rest(tasks, k + 1)
  <2>1. k \in 0 .. Len(tasks)
    BY <1>5
  <2>2. /\ r \in Seq(S) /\ Len(r) = Len(tasks) - k
        /\ \A j \in 1 .. Len(tasks) - k : r[j] = tasks[k + j]
    BY <1>4, <2>1, RestOfKind
  <2> HIDE DEF r
  <2>3. Len(r) = Len(v)
    BY <1>2, <1>5, <2>2
  <2>4. ASSUME NEW j \in 1 .. Len(r) PROVE r[j] = v[j]
    <3>1. /\ j \in 1 .. Len(tasks) - k
          /\ k + j \in 1 .. Len(a) + Len(v) /\ ~(k + j <= Len(a))
          /\ (k + j) - Len(a) = j
      BY <1>1, <1>2, <1>5, <2>3
    <3>2. r[j] = tasks[k + j]
      BY <2>2, <3>1
    <3>3. tasks[k + j] = v[j]
      BY <1>4, <3>1
    <3> QED
      BY <3>2, <3>3
  <2>5. r = v
    BY <2>2, <2>3, <2>4, SeqEqual
  <2> QED
    BY <2>5 DEF r
<1> QED
  BY <1>4, <1>5, <1>6, <1>8, <1>9 DEF BeginsWith, tasks, a

\* And the other way round.
LEMMA RunAndRest ==
    ASSUME NEW S, S \subseteq Int, NEW tasks \in Seq(S),
           NEW k \in 1 .. Len(tasks), IsRun(tasks, k)
    PROVE  /\ tasks = Same(tasks[1], k) \o Rest(tasks, k + 1)
           /\ Rest(tasks, k + 1) \in Seq(S)
           /\ Len(Rest(tasks, k + 1)) = Len(tasks) - k
<1> DEFINE a == Same(tasks[1], k)
<1>1. Len(tasks) \in Nat /\ k \in Nat \ {0} /\ k \in 0 .. Len(tasks)
  BY LenProperties
<1>2. tasks[1] \in Int
  <2>1. 1 \in 1 .. Len(tasks)
    BY <1>1
  <2>2. tasks[1] \in S
    BY <2>1, ElementOfSeq
  <2> QED
    BY <2>2
<1>3. a \in Seq(Int) /\ Len(a) = k /\ \A i \in 1 .. k : a[i] = tasks[1]
  BY <1>1, <1>2, SameFacts
<1> HIDE DEF a
<1>4. tasks \in Seq(Int) /\ 1 \in 1 .. Len(tasks) + 1 /\ 1 + Len(a) <= Len(tasks) + 1
  <2>1. tasks \in Seq(Int)
    BY SeqMonotonic
  <2> QED
    BY <1>1, <1>3, <2>1
<1>5. ASSUME NEW j \in 1 .. Len(a) PROVE tasks[1 + j - 1] = a[j]
  <2>1. 1 + j - 1 = j /\ j \in 1 .. k
    BY <1>3
  <2> QED
    BY <1>3, <2>1 DEF IsRun
<1>6. Rest(tasks, 1) = a \o Rest(tasks, 1 + Len(a))
  BY <1>3, <1>4, <1>5, RestJoin
<1>7. 1 + Len(a) = k + 1
  BY <1>1, <1>3
<1>8. tasks = a \o Rest(tasks, k + 1)
  BY <1>6, <1>7, RestOfAll
<1>9. Rest(tasks, k + 1) \in Seq(S) /\ Len(Rest(tasks, k + 1)) = Len(tasks) - k
  BY <1>1, RestOfKind
<1> QED
  BY <1>8, <1>9 DEF a

\* What is written for tasks, given what is written for shorter ones.
WritesRun(writings, tasks, k) ==
    LET rest == Rest(tasks, k + 1)
    IN  IF rest = <<>> THEN Items(tasks[1], k)
        ELSE UNION {{r \o <<Comma>> \o w : w \in writings[rest]} : r \in Items(tasks[1], k)}

Writes(writings, tasks) ==
    UNION {WritesRun(writings, tasks, k) : k \in {k \in 1 .. Len(tasks) : IsRun(tasks, k)}}

\* The runs it may begin with, and what is left.
LEMMA RunsOf ==
    ASSUME NEW tasks \in Seq(Nat), NEW k \in 1 .. Len(tasks)
    PROVE  /\ tasks[1] \in Nat /\ k \in Nat \ {0}
           /\ Rest(tasks, k + 1) \in Seq(Nat)
           /\ Len(Rest(tasks, k + 1)) < Len(tasks)
           /\ \A it \in Items(tasks[1], k) : it \in Seq(Int)
<1>1. Len(tasks) \in Nat /\ k \in Nat \ {0} /\ k \in 0 .. Len(tasks) /\ 1 \in 1 .. Len(tasks)
  BY LenProperties
<1>2. tasks[1] \in Nat
  BY <1>1, ElementOfSeq
<1>3. Rest(tasks, k + 1) \in Seq(Nat) /\ Len(Rest(tasks, k + 1)) = Len(tasks) - k
  BY <1>1, RestOfKind
<1>4. ASSUME NEW it \in Items(tasks[1], k) PROVE it \in Seq(Int)
  <2>1. \/ it = <<tasks[1], OpenParen, TimesSign, k, CloseParen>>
        \/ it = <<tasks[1]>>
    BY <1>1, <1>2, ItemsAre
  <2>2. CASE it = <<tasks[1], OpenParen, TimesSign, k, CloseParen>>
    BY <1>1, <1>2, <2>2, TokenFacts
  <2>3. CASE it = <<tasks[1]>>
    BY <1>2, <2>3
  <2> QED
    BY <2>1, <2>2, <2>3
<1> QED
  BY <1>1, <1>2, <1>3, <1>4

\* A comma between two lists.
LEMMA CommaBetween ==
    ASSUME NEW r \in Seq(Int), NEW w \in Seq(Int)
    PROVE  /\ <<Comma>> \o w \in Seq(Int)
           /\ r \o <<Comma>> \in Seq(Int)
           /\ (r \o <<Comma>>) \o w \in Seq(Int)
           /\ (r \o <<Comma>>) \o w = r \o (<<Comma>> \o w)
           /\ (<<Comma>> \o w)[1] = Comma
           /\ <<Comma>> \o w # <<>>
           /\ Len(<<Comma>> \o w) = Len(w) + 1
<1> DEFINE a == <<Comma>>
<1>1. a \in Seq(Int) /\ Len(a) = 1 /\ a[1] = Comma
  BY TokenFacts
<1> HIDE DEF a
<1>2. Len(w) \in Nat
  BY LenProperties
<1>3. /\ a \o w \in Seq(Int) /\ Len(a \o w) = Len(a) + Len(w)
      /\ \A j \in 1 .. Len(a) + Len(w) : (a \o w)[j] = IF j <= Len(a) THEN a[j] ELSE w[j - Len(a)]
  BY <1>1, ConcatProperties
<1>4. r \o a \in Seq(Int)
  BY <1>1, ConcatProperties
<1>5. (r \o a) \o w \in Seq(Int)
  BY <1>4, ConcatProperties
<1>6. (r \o a) \o w = r \o (a \o w)
  <2>1. a \in Seq(Int)
    BY <1>1
  <2> QED
    BY <2>1, ConcatAssociative
<1> DEFINE aw == a \o w
<1>7. aw \in Seq(Int) /\ Len(aw) = Len(w) + 1 /\ aw[1] = Comma
  <2>1. 1 \in 1 .. Len(a) + Len(w) /\ 1 <= Len(a)
    BY <1>1, <1>2
  <2> HIDE DEF aw
  <2>2. aw \in Seq(Int) /\ Len(aw) = Len(a) + Len(w) /\ aw[1] = a[1]
    BY <1>3, <2>1 DEF aw
  <2> QED
    BY <1>1, <1>2, <2>2
<1>8. aw # <<>>
  <2> HIDE DEF aw
  <2>1. Len(aw) # 0
    BY <1>2, <1>7
  <2> QED
    BY <2>1
<1> QED
  BY <1>4, <1>5, <1>6, <1>7, <1>8 DEF a

\* It is sequences when what is written for shorter ones is.
LEMMA WritesTyped ==
    ASSUME NEW x \in Seq(Nat), NEW g,
           \A y \in Seq(Nat) : Len(y) < Len(x) => g[y] \in SUBSET Seq(Int)
    PROVE  Writes(g, x) \in SUBSET Seq(Int)
<1>1. ASSUME NEW k \in 1 .. Len(x) PROVE WritesRun(g, x, k) \in SUBSET Seq(Int)
  <2> DEFINE rest == Rest(x, k + 1)
             runs == Items(x[1], k)
  <2>1. /\ rest \in Seq(Nat) /\ Len(rest) < Len(x)
        /\ \A it \in runs : it \in Seq(Int)
    BY RunsOf
  <2> HIDE DEF rest, runs
  <2>2. g[rest] \in SUBSET Seq(Int)
    BY <2>1
  <2>3. ASSUME NEW r \in runs, NEW w \in g[rest]
        PROVE  (r \o <<Comma>>) \o w \in Seq(Int)
    <3>1. r \in Seq(Int) /\ w \in Seq(Int)
      BY <2>1, <2>2
    <3> QED
      BY <3>1, CommaBetween
  <2> DEFINE more == UNION {{r \o <<Comma>> \o w : w \in g[rest]} : r \in runs}
  <2>4. ASSUME NEW z \in more PROVE z \in Seq(Int)
    <3>1. PICK r \in runs : z \in {r \o <<Comma>> \o w : w \in g[rest]}
      OBVIOUS
    <3>2. PICK w \in g[rest] : z = r \o <<Comma>> \o w
      BY <3>1
    <3> QED
      BY <2>3, <3>2
  <2>5. WritesRun(g, x, k) = IF rest = <<>> THEN runs ELSE more
    BY Zenon DEF WritesRun, rest, runs
  <2> HIDE DEF more
  <2> QED
    BY <2>1, <2>4, <2>5
<1> QED
  BY <1>1 DEF Writes

\* The recursion of Writings defines a function.
LEMMA WritingsDefined ==
    ASSUME NEW tasks \in Seq(Nat)
    PROVE  /\ Writings[tasks] = Writes(Writings, tasks)
           /\ Writings[tasks] \in SUBSET Seq(Int)
<1> DEFINE D == Seq(Nat)
           R == SUBSET Seq(Int)
           mu == [x \in D |-> Len(x)]
           body == [x \in D \X [D -> R] |-> Writes(x[2], x[1])]
<1>1. \A x \in D : \A g \in [D -> R] : body[<<x, g>>] = Writes(g, x)
  OBVIOUS
<1>2. \A x \in D : mu[x] \in Nat /\ mu[x] = Len(x)
  BY LenProperties
<1> HIDE DEF body, mu
<1>3. ASSUME NEW x \in D, NEW g \in [D -> R] PROVE Writes(g, x) \in R
  <2>1. \A y \in D : g[y] \in R
    OBVIOUS
  <2> QED
    BY <2>1, WritesTyped
<1>4. ASSUME NEW x \in D, NEW g \in [D -> R], NEW h \in [D -> R],
             \A y \in D : mu[y] < mu[x] => g[y] = h[y]
      PROVE  Writes(g, x) = Writes(h, x)
  <2>1. ASSUME NEW k \in 1 .. Len(x) PROVE WritesRun(g, x, k) = WritesRun(h, x, k)
    <3> DEFINE rest == Rest(x, k + 1)
               runs == Items(x[1], k)
               more(ws) == UNION {{r \o <<Comma>> \o w : w \in ws} : r \in runs}
    <3>1. g[rest] = h[rest]
      BY <1>2, <1>4, RunsOf
    <3>2. /\ WritesRun(g, x, k) = IF rest = <<>> THEN runs ELSE more(g[rest])
          /\ WritesRun(h, x, k) = IF rest = <<>> THEN runs ELSE more(h[rest])
      BY Zenon DEF WritesRun
    <3> HIDE DEF rest, runs, more
    <3> QED
      BY <3>1, <3>2
  <2> QED
    BY <2>1, Zenon DEF Writes
<1>5. R # {} /\ \A x \in D : mu[x] \in Nat
  BY <1>2
<1>6. \A x \in D : \A g \in [D -> R] : body[<<x, g>>] \in R
  BY <1>1, <1>3
<1>7. \A x \in D : \A g, h \in [D -> R] :
         (\A y \in D : mu[y] < mu[x] => g[y] = h[y]) => body[<<x, g>>] = body[<<x, h>>]
  <2> SUFFICES ASSUME NEW x \in D, NEW g \in [D -> R], NEW h \in [D -> R],
                      \A y \in D : mu[y] < mu[x] => g[y] = h[y]
               PROVE  body[<<x, g>>] = body[<<x, h>>]
    OBVIOUS
  <2>1. Writes(g, x) = Writes(h, x)
    BY <1>4
  <2>2. body[<<x, g>>] = Writes(g, x) /\ body[<<x, h>>] = Writes(h, x)
    <3> HIDE DEF D, R
    <3> QED
      BY <1>1
  <2> QED
    BY <2>1, <2>2
<1>8. Library!IsRecursion(D, R, mu, body)
  <2> HIDE DEF D, R
  <2> QED
    BY <1>5, <1>6, <1>7 DEF Library!IsRecursion
<1>9. PICK g \in [D -> R] : \A x \in D : g[x] = body[<<x, g>>]
  <2> HIDE DEF D, R
  <2> QED
    BY <1>8, JoinAssumption, Library!RecursionExists
<1>10. g = [x \in D |-> Writes(g, x)]
  BY <1>1, <1>9
<1>11. Writings = CHOOSE f : f = [x \in D |-> Writes(f, x)]
  BY Zenon DEF Writings, Writes, WritesRun, Rest, Items
<1>12. Writings = [x \in D |-> Writes(Writings, x)]
  <2> HIDE DEF D
  <2> QED
    BY <1>10, <1>11, Zenon
<1>13. \A x \in D : Writings[x] = Writes(Writings, x)
  BY <1>12
<1> DEFINE P == {x \in D : Writings[x] \in R}
<1>14. ASSUME NEW x \in D, \A y \in D : mu[y] < mu[x] => y \in P
       PROVE  x \in P
  <2>1. \A y \in D : Len(y) < Len(x) => Writings[y] \in R
    BY <1>2, <1>14
  <2>2. Writes(Writings, x) \in R
    BY <2>1, WritesTyped
  <2> QED
    BY <1>13, <2>2
<1> HIDE DEF P
<1>15. \A x \in D : x \in P
  <2> HIDE DEF D
  <2>1. \A x \in D : (\A y \in D : mu[y] < mu[x] => y \in P) => x \in P
    BY <1>14
  <2>2. \A x \in D : mu[x] \in Nat
    BY <1>2
  <2> QED
    BY <2>1, <2>2, MeasureInduction
<1> QED
  BY <1>13, <1>15 DEF P

\* What is written for tasks: a run and nothing more, or a run, a comma and
\* what is written for the rest.
LEMMA WritingsMembers ==
    ASSUME NEW tasks \in Seq(Nat), NEW x
    PROVE  x \in Writings[tasks] <=>
               \E k \in 1 .. Len(tasks) : /\ IsRun(tasks, k)
                                          /\ x \in WritesRun(Writings, tasks, k)
<1>1. Writings[tasks] = Writes(Writings, tasks)
  BY WritingsDefined
<1> QED
  BY <1>1 DEF Writes

\* The run, and a list that says the rest when there is one.
IsWriting(x, tasks, k, it) ==
    \/ Rest(tasks, k + 1) = <<>> /\ x = it
    \/ /\ Rest(tasks, k + 1) # <<>>
       /\ \E w \in Writings[Rest(tasks, k + 1)] : x = (it \o <<Comma>>) \o w

\* The ways to write tasks that begin with a run of k.
LEMMA WritesRunMembers ==
    ASSUME NEW tasks, NEW k, NEW x
    PROVE  x \in WritesRun(Writings, tasks, k) <=>
               \E it \in Items(tasks[1], k) : IsWriting(x, tasks, k, it)
<1> DEFINE rest == Rest(tasks, k + 1)
           runs == Items(tasks[1], k)
           more == UNION {{r \o <<Comma>> \o w : w \in Writings[rest]} : r \in runs}
<1>1. WritesRun(Writings, tasks, k) = IF rest = <<>> THEN runs ELSE more
  BY Zenon DEF WritesRun
<1>2. ASSUME x \in more
      PROVE  \E it \in runs : \E w \in Writings[rest] : x = (it \o <<Comma>>) \o w
  <2>1. PICK it \in runs : x \in {it \o <<Comma>> \o w : w \in Writings[rest]}
    BY <1>2
  <2> QED
    BY <2>1
<1>3. ASSUME NEW it \in runs, NEW w \in Writings[rest], x = (it \o <<Comma>>) \o w
      PROVE  x \in more
  <2>1. x \in {it \o <<Comma>> \o u : u \in Writings[rest]}
    BY <1>3
  <2> QED
    BY <2>1
<1> HIDE DEF rest, runs, more
<1> QED
  BY <1>1, <1>2, <1>3 DEF rest, runs, IsWriting

\* A list that begins with a run and goes on with one that says the rest.
IsText(x, tasks, k, it) ==
    \/ Rest(tasks, k + 1) = <<>> /\ x = it
    \/ \E v \in Texts(Rest(tasks, k + 1)) : x = it \o (<<Comma>> \o v)

\* The lists that say tasks are sequences.
LEMMA TextsTyped ==
    ASSUME NEW tasks \in Seq(Nat), NEW x \in Texts(tasks)
    PROVE  x \in Seq(Int)
<1>1. Writings[tasks] \in SUBSET Seq(Int)
  BY WritingsDefined
<1>2. CASE tasks = <<>>
  BY <1>2 DEF Texts
<1>3. CASE x \in Writings[tasks]
  BY <1>1, <1>3
<1>4. ASSUME NEW w \in Writings[tasks], x = w \o <<Comma>> PROVE x \in Seq(Int)
  <2>1. w \in Seq(Int)
    BY <1>1
  <2>2. <<>> \in Seq(Int)
    OBVIOUS
  <2> QED
    BY <1>4, <2>1, <2>2, CommaBetween
<1> QED
  BY <1>2, <1>3, <1>4 DEF Texts

\* Concatenation is associative, for tokens.
LEMMA IntsAssociate == \A x, y, z \in Seq(Int) : (x \o y) \o z = x \o (y \o z)
BY ConcatAssociative

\* And for tasks.
LEMMA NatsAssociate == \A x, y, z \in Seq(Nat) : (x \o y) \o z = x \o (y \o z)
<1>1. \A x \in Seq(Nat) : x \in Seq(Int)
  BY SeqMonotonic
<1> QED
  BY <1>1, IntsAssociate, Zenon

\* Concatenation of four parts.
LEMMA FourParts ==
    ASSUME NEW a \in Seq(Int), NEW b \in Seq(Int), NEW c \in Seq(Int), NEW d \in Seq(Int)
    PROVE  ((a \o b) \o c) \o d = a \o (b \o (c \o d))
<1> DEFINE ab == a \o b
           cd == c \o d
<1>1. ab \in Seq(Int)
  BY ConcatProperties
<1>2. cd \in Seq(Int)
  BY ConcatProperties
<1>0. \A x, y, z \in Seq(Int) : (x \o y) \o z = x \o (y \o z)
  BY IntsAssociate, Zenon
<1> HIDE DEF ab, cd
<1>3. (a \o b) \o cd = a \o (b \o cd)
  BY <1>0, <1>2, Zenon
<1>4. (ab \o c) \o d = ab \o (c \o d)
  BY <1>0, <1>1, Zenon
<1> QED
  BY <1>3, <1>4, Zenon DEF ab, cd

\* The lists that say some tasks, one run at a time.
LEMMA TextsMembers ==
    ASSUME NEW tasks \in Seq(Nat), tasks # <<>>, NEW x
    PROVE  x \in Texts(tasks) <=>
               \E k \in 1 .. Len(tasks) :
                  IsRun(tasks, k) /\ \E it \in Items(tasks[1], k) : IsText(x, tasks, k, it)
<1> DEFINE C == <<Comma>>
<1>e. /\ <<>> \in Seq(Int)
      /\ \A s \in Seq(Int) : s \o <<>> = s /\ <<>> \o s = s
  BY ConcatEmptySeq, EmptySeq
<1>c. C \in Seq(Int)
  BY TokenFacts
<1>1. \A y \in Writings[tasks] : y \in Seq(Int)
  BY WritingsDefined
<1>2. ASSUME NEW k \in 1 .. Len(tasks), IsRun(tasks, k),
             NEW it \in Items(tasks[1], k), NEW w \in Writings[Rest(tasks, k + 1)],
             Rest(tasks, k + 1) # <<>>
      PROVE  /\ w \in Seq(Int) /\ it \in Seq(Int)
             /\ w \in Texts(Rest(tasks, k + 1)) /\ w \o C \in Texts(Rest(tasks, k + 1))
             /\ (it \o C) \o w \in Writings[tasks]
             /\ (it \o C) \o w = it \o (C \o w)
             /\ ((it \o C) \o w) \o C = it \o (C \o (w \o C))
  <2>1. Rest(tasks, k + 1) \in Seq(Nat) /\ it \in Seq(Int)
    BY RunsOf
  <2>2. w \in Seq(Int)
    BY <2>1, WritingsDefined
  <2>3. w \in Texts(Rest(tasks, k + 1)) /\ w \o C \in Texts(Rest(tasks, k + 1))
    BY <1>2, Zenon DEF Texts
  <2>4. (it \o C) \o w \in Writings[tasks]
    <3>1. (it \o C) \o w \in WritesRun(Writings, tasks, k)
      BY <1>2, WritesRunMembers, Zenon DEF IsWriting
    <3> QED
      BY <1>2, <3>1, WritingsMembers, Zenon
  <2>5. (it \o C) \o w = it \o (C \o w) /\ C \o w \in Seq(Int)
    BY <2>1, <2>2, CommaBetween
  <2>6. ((it \o C) \o w) \o C = it \o (C \o (w \o C))
    <3> HIDE DEF C
    <3>1. it \in Seq(Int)
      BY <2>1
    <3>2. w \in Seq(Int)
      BY <2>2
    <3> QED
      BY <1>c, <3>1, <3>2, FourParts
  <2> QED
    BY <2>1, <2>2, <2>3, <2>4, <2>5, <2>6, Zenon
<1>3. ASSUME NEW k \in 1 .. Len(tasks), IsRun(tasks, k),
             NEW it \in Items(tasks[1], k), Rest(tasks, k + 1) = <<>>
      PROVE  /\ it \in Writings[tasks] /\ it \in Seq(Int)
             /\ Texts(Rest(tasks, k + 1)) = {<<>>}
             /\ it \o (C \o <<>>) = it \o C
  <2>1. it \in WritesRun(Writings, tasks, k)
    BY <1>3, WritesRunMembers, Zenon DEF IsWriting
  <2>2. it \in Writings[tasks]
    BY <1>3, <2>1, WritingsMembers, Zenon
  <2>3. Texts(Rest(tasks, k + 1)) = {<<>>}
    BY <1>3, Zenon DEF Texts
  <2>4. C \o <<>> = C
    BY <1>c, <1>e, Zenon
  <2> QED
    BY <1>1, <2>2, <2>3, <2>4, Zenon
<1>4. ASSUME NEW y \in Writings[tasks]
      PROVE  \E k \in 1 .. Len(tasks) : IsRun(tasks, k) /\
                \E it \in Items(tasks[1], k) : IsText(y, tasks, k, it) /\ IsText(y \o C, tasks, k, it)
  <2>1. PICK k \in 1 .. Len(tasks) : IsRun(tasks, k) /\ y \in WritesRun(Writings, tasks, k)
    BY WritingsMembers, Zenon
  <2>2. PICK it \in Items(tasks[1], k) : IsWriting(y, tasks, k, it)
    BY <2>1, WritesRunMembers, Zenon
  <2>3. CASE Rest(tasks, k + 1) = <<>>
    <3>1. y = it /\ Texts(Rest(tasks, k + 1)) = {<<>>} /\ it \o (C \o <<>>) = it \o C
      BY <1>3, <2>1, <2>2, <2>3, Zenon DEF IsWriting
    <3>2. IsText(y, tasks, k, it) /\ IsText(y \o C, tasks, k, it)
      BY <2>3, <3>1, Zenon DEF IsText
    <3> QED
      BY <2>1, <3>2, Zenon
  <2>4. CASE Rest(tasks, k + 1) # <<>>
    <3>1. PICK w \in Writings[Rest(tasks, k + 1)] : y = (it \o C) \o w
      BY <2>2, <2>4, Zenon DEF IsWriting
    <3>2. /\ w \in Texts(Rest(tasks, k + 1)) /\ w \o C \in Texts(Rest(tasks, k + 1))
          /\ y = it \o (C \o w) /\ y \o C = it \o (C \o (w \o C))
      BY <1>2, <2>1, <2>4, <3>1, Zenon
    <3>3. IsText(y, tasks, k, it) /\ IsText(y \o C, tasks, k, it)
      BY <3>2, Zenon DEF IsText
    <3> QED
      BY <2>1, <3>3, Zenon
  <2> QED
    BY <2>3, <2>4, Zenon
<1>5. ASSUME x \in Texts(tasks)
      PROVE  \E k \in 1 .. Len(tasks) :
                 IsRun(tasks, k) /\ \E it \in Items(tasks[1], k) : IsText(x, tasks, k, it)
  <2>1. x \in Writings[tasks] \/ \E y \in Writings[tasks] : x = y \o C
    BY <1>5, Zenon DEF Texts
  <2> QED
    BY <1>4, <2>1, Zenon
<1>6. ASSUME NEW k \in 1 .. Len(tasks), IsRun(tasks, k),
             NEW it \in Items(tasks[1], k), IsText(x, tasks, k, it)
      PROVE  x \in Texts(tasks)
  <2>1. ASSUME x \in Writings[tasks] \/ \E y \in Writings[tasks] : x = y \o C
        PROVE  x \in Texts(tasks)
    BY <2>1, Zenon DEF Texts
  <2>2. CASE Rest(tasks, k + 1) = <<>>
    <3>1. /\ it \in Writings[tasks] /\ Texts(Rest(tasks, k + 1)) = {<<>>}
          /\ it \o (C \o <<>>) = it \o C
      BY <1>3, <1>6, <2>2, Zenon
    <3> QED
      BY <1>6, <2>1, <3>1, Zenon DEF IsText
  <2>3. CASE Rest(tasks, k + 1) # <<>>
    <3>1. PICK v \in Texts(Rest(tasks, k + 1)) : x = it \o (C \o v)
      BY <1>6, <2>3, Zenon DEF IsText
    <3>2. \/ v \in Writings[Rest(tasks, k + 1)]
          \/ \E w \in Writings[Rest(tasks, k + 1)] : v = w \o C
      BY <2>3, Zenon DEF Texts
    <3>3. CASE v \in Writings[Rest(tasks, k + 1)]
      <4>1. (it \o C) \o v \in Writings[tasks] /\ (it \o C) \o v = it \o (C \o v)
        BY <1>2, <1>6, <2>3, <3>3, Zenon
      <4> QED
        BY <2>1, <3>1, <4>1, Zenon
    <3>4. ASSUME NEW w \in Writings[Rest(tasks, k + 1)], v = w \o C
          PROVE  x \in Texts(tasks)
      <4>1. /\ (it \o C) \o w \in Writings[tasks]
            /\ ((it \o C) \o w) \o C = it \o (C \o (w \o C))
        BY <1>2, <1>6, <2>3, <3>4, Zenon
      <4> QED
        BY <2>1, <3>1, <3>4, <4>1, Zenon
    <3> QED
      BY <3>2, <3>3, <3>4, Zenon
  <2> QED
    BY <2>2, <2>3, Zenon
<1> QED
  BY <1>5, <1>6, Zenon

-----------------------------------------------------------------------------
(* The reader *)

\* Where the reader is and what it has read, and how it may end.
Readings == [at : Nat, entries : Seq(Nat)]
Outcomes == {List(entries) : entries \in Seq(Nat)} \cup {Error, Abort}

\* What the reader makes of the list from a place on, given what it makes of it
\* further on.
Reads(read, t, size, r) ==
    LET tasks   == Token(t, r.at)
        repeat  == RepeatCount(t, r.at + 1)
        longer  == r.entries \o Same(tasks, repeat.times)
        follows == Token(t, repeat.next)
    IN  IF tasks = EndOfText THEN Finish(r.entries, size)
        ELSE IF tasks <= 0 \/ repeat.times = 0 THEN Error
        ELSE IF Len(longer) > size THEN Abort
        ELSE IF follows = EndOfText THEN Finish(longer, size)
        ELSE IF follows # Comma THEN Error
        ELSE read[[at |-> repeat.next + 1, entries |-> longer]]

\* What the recursion of the reader asks of it.
IsReader(read, t, size) == read = [r \in Readings |-> Reads(read, t, size, r)]

\* The reader starts with the first token.
LEMMA ReaderUnfolded ==
    ASSUME NEW t, NEW size
    PROVE  ReadTasks(t, size) =
               (CHOOSE read : IsReader(read, t, size))[[at |-> 1, entries |-> <<>>]]
BY Zenon DEF ReadTasks, IsReader, Reads, Readings, Same

\* A count is a natural, and moves on.
LEMMA CountFacts ==
    ASSUME NEW t \in Seq(Int), NEW i \in Nat
    PROVE  /\ RepeatCount(t, i).times \in Nat /\ RepeatCount(t, i).next \in Nat
           /\ RepeatCount(t, i).next >= i
           /\ RepeatCount(t, i) = [times |-> RepeatCount(t, i).times,
                                   next |-> RepeatCount(t, i).next]
<1>1. Token(t, i + 2) \in Int
  BY TokenAt
<1>2. CASE Token(t, i) # OpenParen
  BY <1>2 DEF RepeatCount
<1>3. CASE /\ Token(t, i) = OpenParen
           /\ Token(t, i + 1) = TimesSign
           /\ Token(t, i + 2) > 0
           /\ Token(t, i + 3) = CloseParen
  <2>1. RepeatCount(t, i) = [times |-> Token(t, i + 2), next |-> i + 4]
    BY <1>3 DEF RepeatCount
  <2> QED
    BY <1>1, <1>3, <2>1
<1>4. CASE /\ Token(t, i) = OpenParen
           /\ ~(/\ Token(t, i + 1) = TimesSign
                /\ Token(t, i + 2) > 0
                /\ Token(t, i + 3) = CloseParen)
  <2>1. RepeatCount(t, i) = [times |-> 0, next |-> i]
    BY <1>4 DEF RepeatCount
  <2> QED
    BY <2>1
<1> QED
  BY <1>2, <1>3, <1>4

\* What the reader makes of a list that goes on with the number c, the count k
\* and the token at j.
CaseByCase(v, g, t, size, i, es, c, k, j) ==
    /\ c = EndOfText => v = Finish(es, size)
    /\ c # EndOfText /\ (c <= 0 \/ k = 0) => v = Error
    /\ c # EndOfText /\ ~(c <= 0 \/ k = 0) =>
          /\ k \in Nat \ {0} /\ c \in Nat \ {0} /\ j \in Nat /\ j > i
          /\ es \o Same(c, k) \in Seq(Nat) /\ Len(es \o Same(c, k)) = Len(es) + k
          /\ Len(es) + k > size => v = Abort
          /\ ~(Len(es) + k > size) =>
                /\ Token(t, j) = EndOfText => v = Finish(es \o Same(c, k), size)
                /\ Token(t, j) = Comma =>
                      v = g[[at |-> j + 1, entries |-> es \o Same(c, k)]]
                /\ Token(t, j) \notin {EndOfText, Comma} => v = Error

\* The reader does this, whatever follows the run.
LEMMA ReadsCases ==
    ASSUME NEW g, NEW t \in Seq(Int), NEW size \in Nat, NEW i \in Nat, NEW es \in Seq(Nat),
           NEW c, c = Token(t, i), NEW k, NEW j,
           RepeatCount(t, i + 1) = [times |-> k, next |-> j],
           NEW v, v = Reads(g, t, size, [at |-> i, entries |-> es])
    PROVE  CaseByCase(v, g, t, size, i, es, c, k, j)
<1>1. /\ Token(t, i) = c /\ RepeatCount(t, i + 1).times = k
      /\ RepeatCount(t, i + 1).next = j
  OBVIOUS
<1>2. c \in Int /\ k \in Nat /\ j \in Nat /\ j > i
  <2>1. i + 1 \in Nat
    OBVIOUS
  <2>2. k \in Nat /\ j \in Nat /\ j >= i + 1
    BY <1>1, <2>1, CountFacts
  <2>3. c \in Int
    BY TokenAt
  <2> QED
    BY <2>2, <2>3
<1> DEFINE longer == es \o Same(c, k)
<1>3. v = IF c = EndOfText THEN Finish(es, size)
          ELSE IF c <= 0 \/ k = 0 THEN Error
          ELSE IF Len(longer) > size THEN Abort
          ELSE IF Token(t, j) = EndOfText THEN Finish(longer, size)
          ELSE IF Token(t, j) # Comma THEN Error
          ELSE g[[at |-> j + 1, entries |-> longer]]
  <2> DEFINE r == [at |-> i, entries |-> es]
  <2>1. r.at = i /\ r.entries = es
    OBVIOUS
  <2>2. v = Reads(g, t, size, r)
    OBVIOUS
  <2> HIDE DEF r
  <2> QED
    BY <1>1, <2>1, <2>2, Zenon DEF Reads
<1>4. ASSUME c # EndOfText, ~(c <= 0 \/ k = 0)
      PROVE  /\ k \in Nat \ {0} /\ c \in Nat \ {0}
             /\ longer \in Seq(Nat) /\ Len(longer) = Len(es) + k
  <2> DEFINE s == Same(c, k)
  <2>1. k \in Nat \ {0} /\ c \in Nat \ {0}
    BY <1>2, <1>4
  <2>2. s \in Seq(Nat) /\ Len(s) = k
    BY <2>1, SameFacts
  <2> HIDE DEF s
  <2>3. es \o s \in Seq(Nat) /\ Len(es \o s) = Len(es) + Len(s)
    BY <2>2, ConcatProperties
  <2> QED
    BY <2>1, <2>2, <2>3 DEF s
<1> HIDE DEF longer
<1>5. CASE c = EndOfText
  BY <1>3, <1>5, Zenon DEF CaseByCase
<1>6. CASE c # EndOfText /\ (c <= 0 \/ k = 0)
  BY <1>3, <1>6, Zenon DEF CaseByCase
<1>7. CASE c # EndOfText /\ ~(c <= 0 \/ k = 0)
  <2>1. /\ k \in Nat \ {0} /\ c \in Nat \ {0}
        /\ longer \in Seq(Nat) /\ Len(longer) = Len(es) + k
    BY <1>4, <1>7
  <2>2. CASE Len(es) + k > size
    BY <1>2, <1>3, <1>7, <2>1, <2>2, Zenon DEF longer, CaseByCase
  <2>3. CASE ~(Len(es) + k > size)
    <3>1. v = IF Token(t, j) = EndOfText THEN Finish(longer, size)
              ELSE IF Token(t, j) # Comma THEN Error
              ELSE g[[at |-> j + 1, entries |-> longer]]
      BY <1>3, <1>7, <2>1, <2>3, Zenon
    <3>2. Comma # EndOfText
      BY TokenFacts
    <3>3. /\ Token(t, j) = EndOfText => v = Finish(longer, size)
          /\ Token(t, j) = Comma => v = g[[at |-> j + 1, entries |-> longer]]
          /\ Token(t, j) \notin {EndOfText, Comma} => v = Error
      BY <3>1, <3>2, Zenon
    <3> QED
      BY <1>2, <1>7, <2>1, <2>3, <3>3, Zenon DEF longer, CaseByCase
  <2> QED
    BY <2>2, <2>3, Zenon
<1> QED
  BY <1>5, <1>6, <1>7, Zenon

\* How much of the list is left.
Left(t, r) == IF r.at <= Len(t) THEN Len(t) + 1 - r.at ELSE 0

\* A step of the reader ends it, or leaves less of the list.
LEMMA ReaderAdvances ==
    ASSUME NEW t \in Seq(Int), NEW size \in Nat, NEW r \in Readings
    PROVE  \/ \E o \in Outcomes : \A g : Reads(g, t, size, r) = o
           \/ \E n \in Readings : Left(t, n) < Left(t, r)
                                  /\ \A g : Reads(g, t, size, r) = g[n]
<1> DEFINE i == r.at
           es == r.entries
           c == Token(t, i)
           k == RepeatCount(t, i + 1).times
           j == RepeatCount(t, i + 1).next
           longer == es \o Same(c, k)
           n == [at |-> j + 1, entries |-> longer]
<1>1. i \in Nat /\ es \in Seq(Nat) /\ r = [at |-> i, entries |-> es]
  BY DEF Readings
<1>2. RepeatCount(t, i + 1) = [times |-> k, next |-> j]
  BY <1>1, CountFacts
<1>3. Len(t) \in Nat
  BY LenProperties
<1> HIDE DEF i, es, c, k, j
<1>4. ASSUME NEW g
      PROVE  /\ c = EndOfText => Reads(g, t, size, r) = Finish(es, size)
             /\ c # EndOfText /\ (c <= 0 \/ k = 0) => Reads(g, t, size, r) = Error
             /\ c # EndOfText /\ ~(c <= 0 \/ k = 0) =>
                 /\ k \in Nat \ {0} /\ c \in Nat \ {0} /\ j \in Nat /\ j > i
                 /\ longer \in Seq(Nat) /\ Len(longer) = Len(es) + k
                 /\ Len(es) + k > size => Reads(g, t, size, r) = Abort
                 /\ ~(Len(es) + k > size) =>
                       /\ Token(t, j) = EndOfText => Reads(g, t, size, r) = Finish(longer, size)
                       /\ Token(t, j) = Comma => Reads(g, t, size, r) = g[n]
                       /\ Token(t, j) \notin {EndOfText, Comma} => Reads(g, t, size, r) = Error
  <2>1. c = Token(t, i)
    BY DEF c
  <2> DEFINE v == Reads(g, t, size, r)
  <2>2. v = Reads(g, t, size, [at |-> i, entries |-> es])
    BY <1>1
  <2>3. i \in Nat
    BY <1>1
  <2>4. es \in Seq(Nat)
    BY <1>1
  <2> HIDE DEF v
  <2>5. CaseByCase(v, g, t, size, i, es, c, k, j)
    BY <1>2, <2>1, <2>2, <2>3, <2>4, ReadsCases
  <2> QED
    BY <2>5, Zenon DEF CaseByCase, v, longer, n
<1>5. ASSUME NEW s \in Seq(Nat) PROVE Finish(s, size) \in Outcomes
  BY DEF Finish, Outcomes
<1>6. Error \in Outcomes /\ Abort \in Outcomes
  BY DEF Outcomes
<1> HIDE DEF longer, n
<1>7. CASE c = EndOfText
  BY <1>1, <1>4, <1>5, <1>7, Zenon
<1>8. CASE c # EndOfText /\ (c <= 0 \/ k = 0)
  BY <1>4, <1>6, <1>8, Zenon
<1>9. CASE c # EndOfText /\ ~(c <= 0 \/ k = 0)
  <2>1. j \in Nat /\ j > i /\ longer \in Seq(Nat)
    BY <1>4, <1>9, Zenon
  <2>2. CASE Len(es) + k > size
    BY <1>4, <1>6, <1>9, <2>2, Zenon
  <2>3. CASE ~(Len(es) + k > size) /\ Token(t, j) = EndOfText
    BY <1>4, <1>5, <1>9, <2>1, <2>3, Zenon
  <2>4. CASE ~(Len(es) + k > size) /\ Token(t, j) \notin {EndOfText, Comma}
    BY <1>4, <1>6, <1>9, <2>4, Zenon
  <2>5. CASE ~(Len(es) + k > size) /\ Token(t, j) = Comma
    <3>1. \A g : Reads(g, t, size, r) = g[n]
      BY <1>4, <1>9, <2>5, Zenon
    <3>2. n \in Readings /\ n.at = j + 1
      BY <2>1 DEF n, Readings
    <3>3. i \in 1 .. Len(t)
      BY <1>1, <1>9, TokenAt DEF c
    <3>4. Left(t, n) < Left(t, r)
      <4>1. r.at = i
        BY DEF i
      <4> QED
        BY <1>1, <1>3, <2>1, <3>2, <3>3, <4>1 DEF Left
    <3> QED
      BY <3>1, <3>2, <3>4, Zenon
  <2> QED
    BY <2>2, <2>3, <2>4, <2>5, Zenon
<1> QED
  BY <1>7, <1>8, <1>9, Zenon

\* What is left is a natural.
LEMMA LeftFacts ==
    ASSUME NEW t \in Seq(Int), NEW r \in Readings
    PROVE  Left(t, r) \in Nat
<1>1. Len(t) \in Nat /\ r.at \in Nat
  BY LenProperties DEF Readings
<1> QED
  BY <1>1 DEF Left

\* The recursion of the reader defines a function.
LEMMA ReaderDefined ==
    ASSUME NEW t \in Seq(Int), NEW size \in Nat
    PROVE  IsReader(CHOOSE read : IsReader(read, t, size), t, size)
<1> DEFINE D == Readings
           R == Outcomes
           mu == [r \in D |-> Left(t, r)]
           body == [x \in D \X [D -> R] |-> Reads(x[2], t, size, x[1])]
<1>1. \A x \in D : \A g \in [D -> R] : body[<<x, g>>] = Reads(g, t, size, x)
  OBVIOUS
<1>2. \A x \in D : mu[x] \in Nat /\ mu[x] = Left(t, x)
  BY LeftFacts
<1> HIDE DEF body, mu
<1>3. ASSUME NEW x \in D, NEW g \in [D -> R] PROVE body[<<x, g>>] \in R
  <2>1. Reads(g, t, size, x) \in R
    <3>1. CASE \E o \in Outcomes : \A f : Reads(f, t, size, x) = o
      BY <3>1, Zenon
    <3>2. CASE \E n \in Readings : \A f : Reads(f, t, size, x) = f[n]
      <4>1. PICK n \in Readings : \A f : Reads(f, t, size, x) = f[n]
        BY <3>2, Zenon
      <4>2. Reads(g, t, size, x) = g[n]
        BY <4>1, Zenon
      <4> QED
        BY <4>2
    <3> QED
      BY <3>1, <3>2, ReaderAdvances, Zenon
  <2> HIDE DEF D, R
  <2> QED
    BY <1>1, <2>1
<1>4. ASSUME NEW x \in D, NEW g \in [D -> R], NEW h \in [D -> R],
             \A y \in D : mu[y] < mu[x] => g[y] = h[y]
      PROVE  body[<<x, g>>] = body[<<x, h>>]
  <2>1. Reads(g, t, size, x) = Reads(h, t, size, x)
    <3>1. CASE \E o \in Outcomes : \A f : Reads(f, t, size, x) = o
      BY <3>1, Zenon
    <3>2. CASE \E n \in Readings : Left(t, n) < Left(t, x)
                                   /\ \A f : Reads(f, t, size, x) = f[n]
      <4>1. PICK n \in Readings : Left(t, n) < Left(t, x)
                                  /\ \A f : Reads(f, t, size, x) = f[n]
        BY <3>2, Zenon
      <4>2. Reads(g, t, size, x) = g[n] /\ Reads(h, t, size, x) = h[n]
        BY <4>1, Zenon
      <4>3. g[n] = h[n]
        BY <1>2, <1>4, <4>1
      <4> QED
        BY <4>2, <4>3
    <3> QED
      BY <3>1, <3>2, ReaderAdvances, Zenon
  <2> HIDE DEF D, R
  <2> QED
    BY <1>1, <2>1
<1>5. R # {} /\ \A x \in D : mu[x] \in Nat
  BY <1>2 DEF Outcomes
<1>6. Library!IsRecursion(D, R, mu, body)
  <2> HIDE DEF D, R
  <2>1. \A x \in D : \A g \in [D -> R] : body[<<x, g>>] \in R
    BY <1>3
  <2>2. \A x \in D : \A g, h \in [D -> R] :
          (\A y \in D : mu[y] < mu[x] => g[y] = h[y]) => body[<<x, g>>] = body[<<x, h>>]
    BY <1>4
  <2> QED
    BY <1>5, <2>1, <2>2 DEF Library!IsRecursion
<1>7. PICK g \in [D -> R] : \A x \in D : g[x] = body[<<x, g>>]
  <2> HIDE DEF D, R
  <2> QED
    BY <1>6, JoinAssumption, Library!RecursionExists
<1>8. g = [r \in D |-> Reads(g, t, size, r)]
  <2> HIDE DEF D, R
  <2> QED
    BY <1>1, <1>7
<1>9. IsReader(g, t, size)
  BY <1>8 DEF IsReader
<1> QED
  BY <1>9, Zenon

\* A list that goes on with a comma, and with what follows it.
LEMMA AtComma ==
    ASSUME NEW t \in Seq(Int), NEW j \in 1 .. Len(t) + 1,
           NEW v \in Seq(Int), GoesOn(t, j, <<Comma>>, v)
    PROVE  j + 1 \in 1 .. Len(t) + 1 /\ Rest(t, j + 1) = v
<1> DEFINE a == <<Comma>>
<1>1. a \in Seq(Int) /\ Len(a) = 1
  BY TokenFacts
<1>2. GoesOn(t, j, a, v)
  BY DEF GoesOn
<1> HIDE DEF a
<1>3. j + Len(a) \in 1 .. Len(t) + 1 /\ Rest(t, j + Len(a)) = v
  BY <1>1, <1>2, RestSplit
<1> QED
  BY <1>1, <1>3

\* A list is a comma and what follows it, where there is a comma.
LEMMA CommaAt ==
    ASSUME NEW t \in Seq(Int), NEW j \in 1 .. Len(t) + 1, Token(t, j) = Comma
    PROVE  j + 1 \in 1 .. Len(t) + 1 /\ Rest(t, j) = <<Comma>> \o Rest(t, j + 1)
<1> DEFINE a == <<Comma>>
<1>1. a \in Seq(Int) /\ Len(a) = 1 /\ a[1] = Comma
  BY TokenFacts
<1>2. Len(t) \in Nat /\ j \in Int
  BY LenProperties
<1>3. j \in 1 .. Len(t) /\ t[j] = Comma
  BY <1>2, TokenAt, TokenFacts
<1> HIDE DEF a
<1>4. \A n \in 1 .. Len(a) : t[j + n - 1] = a[n]
  BY <1>1, <1>2, <1>3
<1>5. j + Len(a) <= Len(t) + 1
  BY <1>1, <1>2, <1>3
<1>6. Rest(t, j) = a \o Rest(t, j + Len(a))
  BY <1>1, <1>4, <1>5, RestJoin
<1> QED
  BY <1>1, <1>2, <1>3, <1>6 DEF a

\* The reader at a place of the list.
LEMMA ReaderAt ==
    ASSUME NEW t \in Seq(Int), NEW size \in Nat, NEW g, IsReader(g, t, size),
           NEW i \in Nat, NEW es \in Seq(Nat)
    PROVE  LET repeat == RepeatCount(t, i + 1)
           IN  CaseByCase(g[[at |-> i, entries |-> es]], g, t, size, i, es,
                          Token(t, i), repeat.times, repeat.next)
<1> DEFINE c == Token(t, i)
           k == RepeatCount(t, i + 1).times
           j == RepeatCount(t, i + 1).next
           v == g[[at |-> i, entries |-> es]]
<1>1. c = Token(t, i)
  OBVIOUS
<1>2. RepeatCount(t, i + 1) = [times |-> k, next |-> j]
  <2>1. i + 1 \in Nat
    OBVIOUS
  <2> QED
    BY <2>1, CountFacts
<1>3. v = Reads(g, t, size, [at |-> i, entries |-> es])
  <2>1. [at |-> i, entries |-> es] \in Readings
    BY DEF Readings
  <2> QED
    BY <2>1 DEF IsReader
<1> HIDE DEF c, k, j, v
<1>4. CaseByCase(v, g, t, size, i, es, c, k, j)
  BY <1>1, <1>2, <1>3, ReadsCases
<1> QED
  BY <1>4 DEF c, k, j, v

\* What the reader makes of the ways to write tasks: these tasks.
TakesAll(g, t, size, r) ==
    r.at \in 1 .. Len(t) + 1 =>
        \A tasks \in Seq(Nat \ {0}) :
            Rest(t, r.at) \in Texts(tasks) /\ Len(r.entries) + Len(tasks) = size =>
                g[r] = List(r.entries \o tasks)

\* At the end of the list the reader has read its entries.
LEMMA TakesNothingMore ==
    ASSUME NEW t \in Seq(Int), NEW size \in Nat, NEW g, IsReader(g, t, size),
           NEW i \in 1 .. Len(t) + 1, NEW es \in Seq(Nat),
           Rest(t, i) = <<>>, Len(es) = size
    PROVE  g[[at |-> i, entries |-> es]] = List(es)
<1>1. i \in Nat
  BY LenProperties
<1>2. Token(t, i) = EndOfText
  BY TokenOfRest
<1>3. g[[at |-> i, entries |-> es]] = Finish(es, size)
  <2>1. CaseByCase(g[[at |-> i, entries |-> es]], g, t, size, i, es, Token(t, i),
                   RepeatCount(t, i + 1).times, RepeatCount(t, i + 1).next)
    BY <1>1, ReaderAt, Zenon
  <2> QED
    BY <1>2, <2>1, Zenon DEF CaseByCase
<1> QED
  BY <1>3 DEF Finish

\* The list goes on with a run, and there is room for its tasks.
AtRun(t, size, i, es, c, k, it, rest) ==
    /\ t \in Seq(Int) /\ size \in Nat /\ i \in 1 .. Len(t) + 1 /\ es \in Seq(Nat)
    /\ c \in Nat \ {0} /\ k \in Nat \ {0} /\ it \in Items(c, k)
    /\ rest \in Seq(Int) /\ GoesOn(t, i, it, rest) /\ Len(es) + k <= size

\* The reader takes the run and its comma, and goes on with v.
TakesComma(g, t, i, es, c, k, v) ==
    \E j \in 1 .. Len(t) + 1 :
       /\ j > i /\ Rest(t, j) = v
       /\ g[[at |-> i, entries |-> es]] = g[[at |-> j, entries |-> es \o Same(c, k)]]

\* The reader takes a run, which ends the list or goes on after a comma.
LEMMA TakesRun ==
    ASSUME NEW t, NEW size, NEW g, IsReader(g, t, size), NEW i, NEW es,
           NEW c, NEW k, NEW it, NEW rest, AtRun(t, size, i, es, c, k, it, rest)
    PROVE  /\ rest = <<>> => g[[at |-> i, entries |-> es]] = Finish(es \o Same(c, k), size)
           /\ \A v \in Seq(Int) : rest = <<Comma>> \o v =>
                 TakesComma(g, t, i, es, c, k, v)
<1>0. /\ t \in Seq(Int) /\ size \in Nat /\ i \in 1 .. Len(t) + 1 /\ es \in Seq(Nat)
      /\ c \in Nat \ {0} /\ k \in Nat \ {0} /\ it \in Items(c, k)
      /\ rest \in Seq(Int) /\ GoesOn(t, i, it, rest) /\ Len(es) + k <= size
  BY Zenon DEF AtRun
<1> USE <1>0
<1> DEFINE j == i + Len(it)
           x == g[[at |-> i, entries |-> es]]
<1>1. i \in Nat /\ Len(es) \in Nat
  BY LenProperties
<1>2. ASSUME rest = <<>> \/ rest[1] = Comma
      PROVE  /\ Token(t, i) = c
             /\ RepeatCount(t, i + 1).times = k /\ RepeatCount(t, i + 1).next = j
             /\ j \in 1 .. Len(t) + 1 /\ Rest(t, j) = rest /\ j > i
             /\ Token(t, j) = IF rest = <<>> THEN EndOfText ELSE Comma
  <2>1. /\ Token(t, i) = c
        /\ it \in Seq(Int) /\ Len(it) \in Nat \ {0}
        /\ RepeatCount(t, i + 1) = [times |-> k, next |-> i + Len(it)]
        /\ i + Len(it) \in 1 .. Len(t) + 1
        /\ Rest(t, i + Len(it)) = rest
        /\ Token(t, i + Len(it)) = IF rest = <<>> THEN EndOfText ELSE Comma
    BY <1>2, RunIsRead
  <2>2. j > i
    BY <1>1, <2>1
  <2> QED
    BY <2>1, <2>2
<1>3. c # EndOfText /\ ~(c <= 0 \/ k = 0) /\ ~(Len(es) + k > size)
  BY <1>1, TokenFacts
<1> HIDE DEF j, x
<1>4. ASSUME rest = <<>> \/ rest[1] = Comma
      PROVE  CaseByCase(x, g, t, size, i, es, c, k, j)
  <2>1. CaseByCase(x, g, t, size, i, es, Token(t, i), RepeatCount(t, i + 1).times,
                   RepeatCount(t, i + 1).next)
    BY <1>1, ReaderAt, Zenon DEF x
  <2> QED
    BY <1>2, <1>4, <2>1
<1>5. ASSUME rest = <<>> PROVE x = Finish(es \o Same(c, k), size)
  <2>1. Token(t, j) = EndOfText
    BY <1>2, <1>5, Zenon
  <2> QED
    BY <1>3, <1>4, <1>5, <2>1, Zenon DEF CaseByCase
<1>6. ASSUME NEW v \in Seq(Int), rest = <<Comma>> \o v
      PROVE  \E n \in 1 .. Len(t) + 1 :
                 /\ n > i /\ Rest(t, n) = v
                 /\ x = g[[at |-> n, entries |-> es \o Same(c, k)]]
  <2>1. rest # <<>> /\ rest[1] = Comma
    BY <1>6, CommaBetween
  <2>2. Token(t, j) = Comma /\ j \in 1 .. Len(t) + 1 /\ j > i /\ Rest(t, j) = rest
    BY <1>2, <2>1
  <2>3. x = g[[at |-> j + 1, entries |-> es \o Same(c, k)]]
    BY <1>3, <1>4, <2>1, <2>2, Zenon DEF CaseByCase
  <2>4. j + 1 \in 1 .. Len(t) + 1 /\ Rest(t, j + 1) = v
    <3>1. GoesOn(t, j, <<Comma>>, v)
      BY <1>6, <2>2 DEF GoesOn
    <3>2. j \in 1 .. Len(t) + 1
      BY <2>2
    <3> QED
      BY <3>1, <3>2, AtComma
  <2>5. j + 1 > i
    BY <1>1, <2>2
  <2> QED
    BY <2>3, <2>4, <2>5
<1> QED
  BY <1>5, <1>6 DEF x, TakesComma

\* Every way to write tasks is read as them: from any place on.
LEMMA TakesAllStep ==
    ASSUME NEW t \in Seq(Int), NEW size \in Nat, NEW g, IsReader(g, t, size),
           NEW r \in Readings,
           \A n \in Readings : Left(t, n) < Left(t, r) => TakesAll(g, t, size, n)
    PROVE  TakesAll(g, t, size, r)
<1> DEFINE i == r.at
           es == r.entries
<1>1. i \in Nat /\ es \in Seq(Nat) /\ r = [at |-> i, entries |-> es]
  BY DEF Readings
<1> SUFFICES ASSUME i \in 1 .. Len(t) + 1, NEW tasks \in Seq(Nat \ {0}),
                    Rest(t, i) \in Texts(tasks), Len(es) + Len(tasks) = size
             PROVE  g[r] = List(es \o tasks)
  BY DEF TakesAll
<1>2. tasks \in Seq(Nat) /\ Len(tasks) \in Nat /\ Len(es) \in Nat /\ Len(t) \in Nat
  BY <1>1, SeqMonotonic, LenProperties
<1> HIDE DEF i, es
<1>3. CASE tasks = <<>>
  <2>1. Rest(t, i) = <<>>
    BY <1>3 DEF Texts
  <2>2. Len(es) = size
    BY <1>2, <1>3
  <2>3. es \in Seq(Nat)
    BY <1>1
  <2>4. g[[at |-> i, entries |-> es]] = List(es)
    BY <2>1, <2>2, <2>3, TakesNothingMore
  <2>5. es \o <<>> = es
    BY <2>3, ConcatEmptySeq
  <2> QED
    BY <1>1, <1>3, <2>4, <2>5
<1>4. CASE tasks # <<>>
  <2>1. PICK k \in 1 .. Len(tasks) :
           IsRun(tasks, k) /\ \E it \in Items(tasks[1], k) : IsText(Rest(t, i), tasks, k, it)
    BY <1>2, <1>4, TextsMembers
  <2>2. PICK it \in Items(tasks[1], k) : IsText(Rest(t, i), tasks, k, it)
    BY <2>1
  <2> DEFINE c == tasks[1]
             run_ == Same(c, k)
             others == Rest(tasks, k + 1)
  <2>3. c \in Nat \ {0} /\ k \in Nat \ {0}
    <3>1. 1 \in 1 .. Len(tasks) /\ k \in Nat \ {0}
      BY <1>2
    <3> QED
      BY <3>1, ElementOfSeq
  <2>4. /\ tasks = run_ \o others /\ others \in Seq(Nat \ {0})
        /\ Len(others) = Len(tasks) - k
    <3>1. Nat \ {0} \subseteq Int
      OBVIOUS
    <3> QED
      BY <2>1, <3>1, RunAndRest
  <2>12. Len(others) = Len(tasks) - k
    BY <2>4
  <2>5. it \in Seq(Int)
    BY <1>2, RunsOf
  <2>6. Len(es) + k <= size
    BY <1>2
  <2>7. run_ \in Seq(Nat) /\ others \in Seq(Nat) /\ es \in Seq(Nat)
    <3>1. run_ \in Seq(Nat)
      BY <2>3, SameFacts
    <3>2. others \in Seq(Nat)
      BY <2>4, SeqMonotonic
    <3> QED
      BY <1>1, <3>1, <3>2
  <2>8. es \o tasks = (es \o run_) \o others
    <3>1. \A x, y, z \in Seq(Nat) : (x \o y) \o z = x \o (y \o z)
      BY NatsAssociate, Zenon
    <3> HIDE DEF run_, others
    <3> QED
      BY <2>4, <2>7, <3>1, Zenon
  <2> HIDE DEF c, run_, others
  <2>11. /\ c \in Nat \ {0} /\ k \in Nat \ {0} /\ it \in Items(c, k) /\ es \in Seq(Nat)
         /\ run_ = Same(c, k) /\ Len(run_) = k
    BY <2>2, <2>3, <2>7, SameFacts DEF c, run_
  <2>13. (Len(es) + k) + Len(others) = size
    <3> DEFINE a == Len(es)
               b == Len(tasks)
               d == Len(others)
    <3>1. a \in Nat /\ b \in Nat /\ k \in Nat /\ a + b = size /\ d = b - k
      BY <1>2, <2>11, <2>12
    <3> HIDE DEF a, b, d
    <3>2. (a + k) + d = size
      BY <3>1
    <3> QED
      BY <3>2 DEF a, d
  <2>9. CASE others = <<>> /\ Rest(t, i) = it
    <3>1. GoesOn(t, i, it, <<>>)
      BY <2>5, <2>9, ConcatEmptySeq DEF GoesOn
    <3>2. <<>> \in Seq(Int)
      OBVIOUS
    <3>3. g[[at |-> i, entries |-> es]] = Finish(es \o run_, size)
      <4>1. AtRun(t, size, i, es, c, k, it, <<>>)
        BY <2>6, <2>11, <3>1, <3>2, Zenon DEF AtRun
      <4> QED
        BY <2>11, <4>1, TakesRun
    <3>4. es \o run_ \in Seq(Nat) /\ Len(es \o run_) = Len(es) + Len(run_)
      <4> HIDE DEF run_
      <4> QED
        BY <2>7, ConcatProperties
    <3>5. Len(others) = 0
      BY <2>9
    <3>6. Len(es \o run_) = size
      BY <1>2, <2>4, <2>11, <3>4, <3>5
    <3>7. es \o tasks = es \o run_
      <4>1. \A x \in Seq(Nat) : x \o <<>> = x
        BY ConcatEmptySeq
      <4> QED
        BY <2>8, <2>9, <3>4, <4>1, Zenon
    <3> QED
      BY <1>1, <3>3, <3>6, <3>7, Zenon DEF Finish
  <2>10. ASSUME NEW v \in Texts(others), Rest(t, i) = it \o (<<Comma>> \o v)
         PROVE  g[r] = List(es \o tasks)
    <3>1. v \in Seq(Int)
      BY <2>7, <2>10, TextsTyped
    <3> DEFINE rest == <<Comma>> \o v
    <3>2. rest \in Seq(Int)
      BY <3>1, CommaBetween
    <3>3. GoesOn(t, i, it, rest)
      BY <2>10 DEF GoesOn
    <3>4. rest = <<Comma>> \o v
      OBVIOUS
    <3> HIDE DEF rest
    <3>5. PICK j \in 1 .. Len(t) + 1 :
             /\ j > i /\ Rest(t, j) = v
             /\ g[[at |-> i, entries |-> es]] = g[[at |-> j, entries |-> es \o run_]]
      <4>1. AtRun(t, size, i, es, c, k, it, rest)
        BY <2>6, <2>11, <3>2, <3>3, Zenon DEF AtRun
      <4>2. \A u \in Seq(Int) : rest = <<Comma>> \o u => TakesComma(g, t, i, es, c, k, u)
        BY <4>1, TakesRun
      <4> QED
        BY <2>11, <3>1, <3>4, <4>2, Zenon DEF TakesComma
    <3> DEFINE n == [at |-> j, entries |-> es \o run_]
    <3>6. es \o run_ \in Seq(Nat) /\ Len(es \o run_) = Len(es) + k
      BY <2>7, <2>11, ConcatProperties
    <3>7. n \in Readings /\ n.at = j /\ n.entries = es \o run_
      <4> DEFINE more == es \o run_
      <4>1. j \in Nat /\ more \in Seq(Nat)
        BY <1>2, <3>6
      <4> HIDE DEF more
      <4>2. [at |-> j, entries |-> more] \in Readings
        BY <4>1 DEF Readings
      <4> QED
        BY <4>2 DEF more
    <3> HIDE DEF n
    <3>8. Left(t, n) < Left(t, r)
      <4>1. r.at = i
        BY DEF i
      <4> QED
        BY <1>1, <1>2, <3>5, <3>7, <4>1, SMTT(30) DEF Left
    <3>9. TakesAll(g, t, size, n)
      BY <3>7, <3>8
    <3>10. Len(n.entries) + Len(others) = size
      <4>1. Len(n.entries) = Len(es) + k
        BY <3>6, <3>7
      <4> QED
        BY <2>13, <4>1
    <3>11. Rest(t, n.at) \in Texts(others) /\ n.at \in 1 .. Len(t) + 1
      BY <3>5, <3>7
    <3>12. g[n] = List(n.entries \o others)
      BY <2>4, <3>9, <3>10, <3>11, Zenon DEF TakesAll
    <3>13. g[r] = g[n]
      BY <1>1, <3>5 DEF n
    <3> QED
      BY <2>8, <3>7, <3>12, <3>13, Zenon
  <2> QED
    BY <2>2, <2>9, <2>10 DEF IsText, others
<1> QED
  BY <1>3, <1>4

\* Every way to write tasks, as many as the reader expects, is read as them.
THEOREM WritingsAreRead ==
    ASSUME NEW t \in Seq(Int), NEW tasks \in Seq(Nat \ {0}), t \in Texts(tasks)
    PROVE  ReadTasks(t, Len(tasks)) = List(tasks)
<1> DEFINE size == Len(tasks)
           g == CHOOSE read : IsReader(read, t, size)
           start == [at |-> 1, entries |-> <<>>]
           P == {r \in Readings : TakesAll(g, t, size, r)}
           mu == [r \in Readings |-> Left(t, r)]
<1>1. size \in Nat /\ Len(t) \in Nat
  BY LenProperties
<1>2. IsReader(g, t, size)
  BY <1>1, ReaderDefined
<1>3. ReadTasks(t, size) = g[start]
  BY ReaderUnfolded
<1> HIDE DEF g, size
<1>4. \A r \in Readings : mu[r] \in Nat /\ mu[r] = Left(t, r)
  BY LeftFacts
<1> HIDE DEF mu
<1>5. ASSUME NEW r \in Readings, \A n \in Readings : mu[n] < mu[r] => n \in P
      PROVE  r \in P
  <2>1. \A n \in Readings : Left(t, n) < Left(t, r) => TakesAll(g, t, size, n)
    BY <1>4, <1>5
  <2>2. TakesAll(g, t, size, r)
    BY <1>1, <1>2, <2>1, TakesAllStep
  <2> QED
    BY <2>2
<1> HIDE DEF P
<1>6. \A r \in Readings : r \in P
  <2>1. \A r \in Readings : mu[r] \in Nat
    BY <1>4
  <2>2. \A r \in Readings : (\A n \in Readings : mu[n] < mu[r] => n \in P) => r \in P
    BY <1>5
  <2> QED
    BY <2>1, <2>2, MeasureInduction
<1>7. start \in Readings /\ start.at = 1 /\ start.entries = <<>>
  BY DEF Readings
<1> HIDE DEF start
<1>8. TakesAll(g, t, size, start)
  BY <1>6, <1>7 DEF P
<1>9. Rest(t, 1) = t /\ 1 \in 1 .. Len(t) + 1
  BY <1>1, RestOfAll
<1>10. Len(start.entries) + Len(tasks) = size
  BY <1>1, <1>7 DEF size
<1>11. <<>> \o tasks = tasks
  BY ConcatEmptySeq
<1>12. g[start] = List(start.entries \o tasks)
  BY <1>7, <1>8, <1>9, <1>10 DEF TakesAll
<1> QED
  BY <1>3, <1>7, <1>11, <1>12 DEF size

\* What the reader takes for a list says the tasks it makes of it.
TakesOnly(g, t, size, r) ==
    r.at \in 1 .. Len(t) + 1 /\ g[r].end = "list" =>
        \E tasks \in Seq(Numbers \ {0}) :
            /\ g[r] = List(r.entries \o tasks)
            /\ Len(r.entries) + Len(tasks) = size
            /\ Rest(t, r.at) \in Texts(tasks)

\* A list that finishes is complete.
LEMMA FinishedList ==
    ASSUME NEW es \in Seq(Nat), NEW size, Finish(es, size).end = "list"
    PROVE  Finish(es, size) = List(es) /\ Len(es) = size
<1>1. Error.end # "list"
  BY DEF Error
<1> QED
  BY <1>1 DEF Finish

\* A run and nothing more is a text, and so is a run, a comma and a text.
LEMMA RunIsText ==
    ASSUME NEW c \in Nat, NEW k \in Nat \ {0}, NEW it \in Items(c, k), NEW s \in Seq(Nat)
    PROVE  /\ s = <<>> => it \in Texts(Same(c, k) \o s)
           /\ \A v \in Texts(s) : it \o (<<Comma>> \o v) \in Texts(Same(c, k) \o s)
<1> DEFINE tasks == Same(c, k) \o s
<1>1. tasks \in Seq(Nat) /\ BeginsWith(tasks, c, k, s)
  BY RunThenRest
<1> HIDE DEF tasks
<1>2. /\ tasks # <<>> /\ k \in 1 .. Len(tasks) /\ IsRun(tasks, k)
      /\ it \in Items(tasks[1], k) /\ Rest(tasks, k + 1) = s
  BY <1>1 DEF BeginsWith
<1>3. \A x : IsText(x, tasks, k, it) => x \in Texts(tasks)
  BY <1>1, <1>2, TextsMembers, Zenon
<1>4. s = <<>> => IsText(it, tasks, k, it)
  BY <1>2, Zenon DEF IsText
<1>5. \A v \in Texts(s) : IsText(it \o (<<Comma>> \o v), tasks, k, it)
  BY <1>2, Zenon DEF IsText
<1> QED
  BY <1>3, <1>4, <1>5, Zenon DEF tasks

\* From any place on.
LEMMA TakesOnlyStep ==
    ASSUME NEW t \in Seq(Tokens), NEW size \in Nat, NEW g, IsReader(g, t, size),
           NEW r \in Readings,
           \A n \in Readings : Left(t, n) < Left(t, r) => TakesOnly(g, t, size, n)
    PROVE  TakesOnly(g, t, size, r)
<1> DEFINE i == r.at
           es == r.entries
           c == Token(t, i)
           k == RepeatCount(t, i + 1).times
           j == RepeatCount(t, i + 1).next
           more == es \o Same(c, k)
           N == Numbers \ {0}
<1>1. i \in Nat /\ es \in Seq(Nat) /\ r = [at |-> i, entries |-> es]
  BY DEF Readings
<1>2. t \in Seq(Int) /\ Len(t) \in Nat
  BY TokenFacts, SeqMonotonic, LenProperties
<1>3. CaseByCase(g[r], g, t, size, i, es, c, k, j)
  BY <1>1, <1>2, ReaderAt, Zenon
<1>4. Token(t, i) = c /\ RepeatCount(t, i + 1) = [times |-> k, next |-> j]
  <2>1. i + 1 \in Nat
    BY <1>1
  <2> QED
    BY <1>2, <2>1, CountFacts
<1>5. Error.end # "list" /\ Abort.end # "list"
  BY DEF Error, Abort
<1>n. N \subseteq Nat
  BY TokenFacts
<1> SUFFICES ASSUME i \in 1 .. Len(t) + 1, g[r].end = "list"
             PROVE  \E tasks \in Seq(N) :
                       /\ g[r] = List(es \o tasks) /\ Len(es) + Len(tasks) = size
                       /\ Rest(t, i) \in Texts(tasks)
  BY DEF TakesOnly
<1> HIDE DEF i, es, c, k, j, more, N
<1>6. CASE c = EndOfText
  <2>1. i = Len(t) + 1
    <3>1. i \notin 1 .. Len(t)
      <4>1. i \in 1 .. Len(t) => Token(t, i) = t[i] /\ t[i] \in Tokens
        BY <1>1, <1>2, TokenAt, ElementOfSeq
      <4> QED
        BY <1>4, <1>6, <4>1, TokenFacts
    <3> QED
      BY <1>1, <1>2, <3>1
  <2>2. Rest(t, i) = <<>>
    <3>1. Rest(t, i) \in Seq(Int) /\ Len(Rest(t, i)) = 0
      BY <1>2, <2>1, RestFacts
    <3> QED
      BY <3>1
  <2>3. g[r] = Finish(es, size)
    BY <1>3, <1>6, Zenon DEF CaseByCase
  <2>4. g[r] = List(es) /\ Len(es) = size
    BY <1>1, <2>3, FinishedList
  <2>5. <<>> \in Seq(N) /\ es \o <<>> = es /\ Len(<<>>) = 0
    BY <1>1, ConcatEmptySeq, EmptySeq
  <2>6. Rest(t, i) \in Texts(<<>>)
    BY <2>2 DEF Texts
  <2>7. g[r] = List(es \o <<>>) /\ Len(es) + Len(<<>>) = size
    BY <1>1, <2>4, <2>5
  <2> QED
    BY <2>5, <2>6, <2>7, Zenon
<1>7. CASE c # EndOfText /\ (c <= 0 \/ k = 0)
  BY <1>3, <1>5, <1>7, Zenon DEF CaseByCase
<1>8. CASE c # EndOfText /\ ~(c <= 0 \/ k = 0)
  <2>1. /\ k \in Nat \ {0} /\ c \in Nat \ {0}
        /\ more \in Seq(Nat) /\ Len(more) = Len(es) + k
    BY <1>3, <1>8, Zenon DEF CaseByCase, more
  <2>2. /\ i \in 1 .. Len(t) /\ c \in N /\ k \in N
        /\ j \in i + 1 .. Len(t) + 1
        /\ \E it \in Items(c, k) : GoesOn(t, i, it, Rest(t, j))
    <3>1. i \in Nat \ {0}
      BY <1>1
    <3>2. c > 0 /\ k # 0
      BY <2>1
    <3>3. /\ i \in 1 .. Len(t) /\ c \in Numbers \ {0} /\ k \in Numbers \ {0}
          /\ j \in i + 1 .. Len(t) + 1
          /\ \E it \in Items(c, k) : GoesOn(t, i, it, Rest(t, j))
      BY <1>4, <3>1, <3>2, RunWasWritten
    <3> QED
      BY <3>3 DEF N
  <2>3. PICK it \in Items(c, k) : GoesOn(t, i, it, Rest(t, j))
    BY <2>2
  <2>4. j \in 1 .. Len(t) + 1 /\ j > i
    BY <1>1, <1>2, <2>2
  <2>5. it \in Seq(Int)
    <3>1. \/ it = <<c, OpenParen, TimesSign, k, CloseParen>>
          \/ it = <<c>>
      BY <2>1, ItemsAre
    <3>2. CASE it = <<c, OpenParen, TimesSign, k, CloseParen>>
      BY <2>1, <3>2, TokenFacts
    <3>3. CASE it = <<c>>
      BY <2>1, <3>3
    <3> QED
      BY <3>1, <3>2, <3>3
  <2> DEFINE run_ == Same(c, k)
  <2>6. run_ \in Seq(N) /\ run_ \in Seq(Nat) /\ Len(run_) = k
    BY <2>1, <2>2, SameFacts
  <2>7. more = es \o run_
    BY DEF more
  <2> HIDE DEF run_
  <2>8. CASE Len(es) + k > size
    BY <1>3, <1>5, <1>8, <2>8, Zenon DEF CaseByCase
  <2>9. CASE ~(Len(es) + k > size) /\ Token(t, j) = EndOfText
    <3>1. g[r] = Finish(more, size)
      BY <1>3, <1>8, <2>9, Zenon DEF CaseByCase, more
    <3>2. g[r] = List(more) /\ Len(more) = size
      BY <2>1, <3>1, FinishedList
    <3>3. Rest(t, j) = <<>>
      <4>1. j = Len(t) + 1
        <5>1. j \in 1 .. Len(t) => Token(t, j) = t[j] /\ t[j] \in Tokens
          BY <1>2, <2>4, TokenAt, ElementOfSeq
        <5> QED
          BY <1>2, <2>4, <2>9, <5>1, TokenFacts
      <4>2. Rest(t, j) \in Seq(Int) /\ Len(Rest(t, j)) = 0
        BY <1>2, <4>1, RestFacts
      <4> QED
        BY <4>2
    <3>4. Rest(t, i) = it
      <4>1. it \o <<>> = it
        BY <2>5, ConcatEmptySeq
      <4> QED
        BY <2>3, <3>3, <4>1, Zenon DEF GoesOn
    <3>5. run_ \o <<>> = run_
      BY <2>6, ConcatEmptySeq
    <3>6. it \in Texts(run_)
      <4>1. <<>> \in Seq(Nat) /\ c \in Nat
        BY <2>1
      <4>2. it \in Texts(Same(c, k) \o <<>>)
        BY <2>1, <4>1, RunIsText
      <4> QED
        BY <3>5, <4>2, Zenon DEF run_
    <3>7. Len(es) + Len(run_) = size
      BY <2>1, <2>6, <3>2
    <3> QED
      BY <2>6, <2>7, <3>2, <3>4, <3>6, <3>7, Zenon
  <2>10. CASE ~(Len(es) + k > size) /\ Token(t, j) \notin {EndOfText, Comma}
    BY <1>3, <1>5, <1>8, <2>10, Zenon DEF CaseByCase
  <2>11. CASE ~(Len(es) + k > size) /\ Token(t, j) = Comma
    <3> DEFINE n == [at |-> j + 1, entries |-> more]
    <3>1. g[r] = g[n]
      BY <1>3, <1>8, <2>11, Zenon DEF CaseByCase, more
    <3>2. j + 1 \in 1 .. Len(t) + 1 /\ Rest(t, j) = <<Comma>> \o Rest(t, j + 1)
      BY <1>2, <2>4, <2>11, CommaAt
    <3>3. j + 1 \in Nat /\ j + 1 > i /\ i <= Len(t)
      BY <1>1, <2>2, <2>4
    <3>4. n \in Readings /\ n.at = j + 1 /\ n.entries = more
      <4> DEFINE at_ == j + 1
      <4>1. at_ \in Nat /\ more \in Seq(Nat)
        BY <2>1, <3>3
      <4> HIDE DEF at_
      <4>2. [at |-> at_, entries |-> more] \in Readings
        BY <4>1 DEF Readings
      <4> QED
        BY <4>2 DEF at_
    <3> HIDE DEF n
    <3>5. Left(t, n) < Left(t, r)
      <4>1. r.at = i
        BY DEF i
      <4>2. j + 1 <= Len(t) + 1
        BY <3>2
      <4> QED
        BY <1>1, <1>2, <3>3, <3>4, <4>1, <4>2 DEF Left
    <3>6. TakesOnly(g, t, size, n)
      BY <3>4, <3>5
    <3>7. n.at \in 1 .. Len(t) + 1 /\ g[n].end = "list"
      BY <3>1, <3>2, <3>4
    <3>8. PICK s \in Seq(N) : /\ g[n] = List(more \o s)
                              /\ Len(more) + Len(s) = size
                              /\ Rest(t, j + 1) \in Texts(s)
      BY <3>4, <3>6, <3>7 DEF TakesOnly, N
    <3>9. s \in Seq(Nat) /\ s \in Seq(N)
      BY <1>n, SeqMonotonic
    <3>10. run_ \o s \in Seq(N) /\ Len(run_ \o s) = k + Len(s)
      BY <2>6, <3>9, ConcatProperties
    <3>11. it \o (<<Comma>> \o Rest(t, j + 1)) \in Texts(run_ \o s)
      <4>1. c \in Nat
        BY <2>1
      <4>2. it \o (<<Comma>> \o Rest(t, j + 1)) \in Texts(Same(c, k) \o s)
        BY <2>1, <3>8, <3>9, <4>1, RunIsText, Zenon
      <4> QED
        BY <4>2 DEF run_
    <3>12. Rest(t, i) = it \o (<<Comma>> \o Rest(t, j + 1))
      BY <2>3, <3>2, Zenon DEF GoesOn
    <3>13. more \o s = es \o (run_ \o s)
      BY <1>1, <2>6, <2>7, <3>9, NatsAssociate, Zenon
    <3>14. Len(es) + Len(run_ \o s) = size
      <4>1. Len(es) \in Nat /\ Len(s) \in Nat
        BY <1>1, <3>9, LenProperties
      <4> QED
        BY <2>1, <3>8, <3>10, <4>1
    <3> QED
      BY <3>1, <3>8, <3>10, <3>11, <3>12, <3>13, <3>14, Zenon
  <2> QED
    BY <2>8, <2>9, <2>10, <2>11, Zenon
<1> QED
  BY <1>6, <1>7, <1>8, Zenon

\* The reader takes a list only for the tasks it says, one for each entry.
THEOREM ListsWereWritten ==
    ASSUME NEW t \in Seq(Tokens), NEW size \in Nat, ReadTasks(t, size).end = "list"
    PROVE  \E tasks \in Seq(Numbers \ {0}) :
              ReadTasks(t, size) = List(tasks) /\ Len(tasks) = size /\ t \in Texts(tasks)
<1> DEFINE g == CHOOSE read : IsReader(read, t, size)
           start == [at |-> 1, entries |-> <<>>]
           P == {r \in Readings : TakesOnly(g, t, size, r)}
           mu == [r \in Readings |-> Left(t, r)]
<1>1. t \in Seq(Int) /\ Len(t) \in Nat
  BY TokenFacts, SeqMonotonic, LenProperties
<1>2. IsReader(g, t, size)
  BY <1>1, ReaderDefined
<1>3. ReadTasks(t, size) = g[start]
  BY ReaderUnfolded
<1> HIDE DEF g
<1>4. \A r \in Readings : mu[r] \in Nat /\ mu[r] = Left(t, r)
  BY <1>1, LeftFacts
<1> HIDE DEF mu
<1>5. ASSUME NEW r \in Readings, \A n \in Readings : mu[n] < mu[r] => n \in P
      PROVE  r \in P
  <2>1. \A n \in Readings : Left(t, n) < Left(t, r) => TakesOnly(g, t, size, n)
    BY <1>4, <1>5
  <2>2. TakesOnly(g, t, size, r)
    BY <1>2, <2>1, TakesOnlyStep
  <2> QED
    BY <2>2
<1> HIDE DEF P
<1>6. \A r \in Readings : r \in P
  <2>1. \A r \in Readings : mu[r] \in Nat
    BY <1>4
  <2>2. \A r \in Readings : (\A n \in Readings : mu[n] < mu[r] => n \in P) => r \in P
    BY <1>5
  <2> QED
    BY <2>1, <2>2, MeasureInduction
<1>7. start \in Readings /\ start.at = 1 /\ start.entries = <<>>
  BY DEF Readings
<1> HIDE DEF start
<1>8. TakesOnly(g, t, size, start)
  BY <1>6, <1>7 DEF P
<1>9. Rest(t, 1) = t /\ 1 \in 1 .. Len(t) + 1
  BY <1>1, RestOfAll
<1>10. PICK tasks \in Seq(Numbers \ {0}) :
          /\ g[start] = List(<<>> \o tasks) /\ Len(<<>>) + Len(tasks) = size
          /\ Rest(t, 1) \in Texts(tasks)
  BY <1>3, <1>7, <1>8, <1>9 DEF TakesOnly
<1>11. <<>> \o tasks = tasks /\ Len(tasks) \in Nat /\ Len(<<>>) = 0
  BY ConcatEmptySeq, LenProperties
<1> QED
  BY <1>3, <1>9, <1>10, <1>11

-----------------------------------------------------------------------------
(* The list Slurm writes *)

\* The first run of the list is as long as it can be.
Longest(tasks) == CHOOSE k \in 1 .. Len(tasks) :
                      /\ IsRun(tasks, k)
                      /\ k < Len(tasks) => ~IsRun(tasks, k + 1)

\* That run, and the list of the rest after a comma.
WrittenRun(c, k, w) == Item(c, k) \o (IF w = <<>> THEN <<>> ELSE <<Comma>> \o w)

\* The list, given that of shorter jobs.
WrittenAs(written, tasks) ==
    IF tasks = <<>> THEN <<>>
    ELSE WrittenRun(tasks[1], Longest(tasks), written[Rest(tasks, Longest(tasks) + 1)])

\* There is a longest run.
LEMMA LongestRun ==
    ASSUME NEW tasks \in Seq(Nat), tasks # <<>>
    PROVE  Longest(tasks) \in 1 .. Len(tasks) /\ IsRun(tasks, Longest(tasks))
<1> DEFINE n == Len(tasks)
           Bad == {m \in Nat : n - m >= 1 /\ IsRun(tasks, n - m)}
<1>1. n \in Nat \ {0}
  BY EmptySeq
<1> HIDE DEF n
<1>2. n - 1 \in Bad
  <2>1. n - 1 \in Nat /\ n - (n - 1) = 1
    BY <1>1
  <2>2. IsRun(tasks, 1)
    BY DEF IsRun
  <2> QED
    BY <2>1, <2>2
<1>3. Bad \in SUBSET Nat /\ Bad # {}
  BY <1>2
<1>4. PICK m \in Bad : \A o \in Bad : m <= o
  <2> HIDE DEF Bad
  <2> QED
    BY <1>3, LeastNatural
<1> DEFINE k == n - m
<1>5. m \in Nat /\ k \in 1 .. n /\ IsRun(tasks, k)
  BY <1>1, <1>4
<1>6. ASSUME k < n PROVE ~IsRun(tasks, k + 1)
  <2>1. m - 1 \in Nat /\ n - (m - 1) = k + 1 /\ ~(m <= m - 1)
    BY <1>1, <1>5, <1>6
  <2>2. m - 1 \notin Bad
    <3> HIDE DEF Bad
    <3> QED
      BY <1>4, <2>1
  <2> QED
    BY <1>5, <2>1, <2>2
<1> HIDE DEF k
<1>7. \E l \in 1 .. n : IsRun(tasks, l) /\ (l < n => ~IsRun(tasks, l + 1))
  BY <1>5, <1>6
<1> QED
  BY <1>7, Zenon DEF Longest, n

\* A run and its comma.
LEMMA WrittenRunFacts ==
    ASSUME NEW c \in Nat, NEW k \in Nat, NEW w \in Seq(Int)
    PROVE  /\ Item(c, k) \in Items(c, k) /\ Item(c, k) \in Seq(Int) /\ Item(c, k) # <<>>
           /\ w = <<>> => WrittenRun(c, k, w) = Item(c, k)
           /\ w # <<>> => WrittenRun(c, k, w) = (Item(c, k) \o <<Comma>>) \o w
           /\ WrittenRun(c, k, w) \in Seq(Int)
<1> DEFINE it == Item(c, k)
<1>1. it \in Items(c, k)
  BY DEF Items
<1>2. it \in Seq(Int) /\ it # <<>>
  <2>1. CASE k = 1
    BY <2>1 DEF Item
  <2>2. CASE k # 1
    <3>1. it = <<c, OpenParen, TimesSign, k, CloseParen>>
      BY <2>2 DEF Item
    <3> QED
      BY <3>1, TokenFacts
  <2> QED
    BY <2>1, <2>2
<1> HIDE DEF it
<1>3. (it \o <<Comma>>) \o w = it \o (<<Comma>> \o w) /\ (it \o <<Comma>>) \o w \in Seq(Int)
  BY <1>2, CommaBetween
<1>4. it \o <<>> = it
  BY <1>2, ConcatEmptySeq
<1>5. /\ w = <<>> => WrittenRun(c, k, w) = it
      /\ w # <<>> => WrittenRun(c, k, w) = (it \o <<Comma>>) \o w
  BY <1>3, <1>4, Zenon DEF WrittenRun, it
<1>6. WrittenRun(c, k, w) \in Seq(Int)
  BY <1>2, <1>3, <1>5, Zenon
<1> QED
  BY <1>1, <1>2, <1>5, <1>6, Zenon DEF it

\* The recursion of Written defines a function.
LEMMA WrittenDefined ==
    \A tasks \in Seq(Nat) : Written[tasks] = WrittenAs(Written, tasks)
<1> DEFINE D == Seq(Nat)
           R == Seq(Int)
           mu == [x \in D |-> Len(x)]
           body == [x \in D \X [D -> R] |-> WrittenAs(x[2], x[1])]
<1>1. \A x \in D : \A g \in [D -> R] : body[<<x, g>>] = WrittenAs(g, x)
  OBVIOUS
<1>2. \A x \in D : mu[x] \in Nat /\ mu[x] = Len(x)
  BY LenProperties
<1> HIDE DEF body, mu
<1>3. ASSUME NEW x \in D, x # <<>>
      PROVE  /\ x[1] \in Nat /\ Longest(x) \in Nat
             /\ Rest(x, Longest(x) + 1) \in D /\ mu[Rest(x, Longest(x) + 1)] < mu[x]
  <2>1. Longest(x) \in 1 .. Len(x)
    BY <1>3, LongestRun
  <2> DEFINE k == Longest(x)
  <2> HIDE DEF k
  <2>2. /\ x[1] \in Nat /\ k \in Nat \ {0} /\ Rest(x, k + 1) \in Seq(Nat)
        /\ Len(Rest(x, k + 1)) < Len(x)
    BY <2>1, RunsOf DEF k
  <2> QED
    BY <1>2, <2>2 DEF k
<1>4. ASSUME NEW x \in D, NEW g \in [D -> R] PROVE body[<<x, g>>] \in R
  <2>1. WrittenAs(g, x) \in R
    <3>1. CASE x = <<>>
      BY <3>1 DEF WrittenAs
    <3>2. CASE x # <<>>
      <4>1. g[Rest(x, Longest(x) + 1)] \in R
        BY <1>3, <3>2
      <4>2. WrittenRun(x[1], Longest(x), g[Rest(x, Longest(x) + 1)]) \in R
        BY <1>3, <3>2, <4>1, WrittenRunFacts
      <4> QED
        BY <3>2, <4>2, Zenon DEF WrittenAs
    <3> QED
      BY <3>1, <3>2
  <2> HIDE DEF D, R
  <2> QED
    BY <1>1, <2>1
<1>5. ASSUME NEW x \in D, NEW g \in [D -> R], NEW h \in [D -> R],
             \A y \in D : mu[y] < mu[x] => g[y] = h[y]
      PROVE  body[<<x, g>>] = body[<<x, h>>]
  <2>1. WrittenAs(g, x) = WrittenAs(h, x)
    <3>1. x # <<>> => g[Rest(x, Longest(x) + 1)] = h[Rest(x, Longest(x) + 1)]
      BY <1>3, <1>5
    <3> QED
      BY <3>1, Zenon DEF WrittenAs
  <2> HIDE DEF D, R
  <2> QED
    BY <1>1, <2>1
<1>6. R # {} /\ \A x \in D : mu[x] \in Nat
  <2>1. <<>> \in R
    OBVIOUS
  <2> QED
    BY <1>2, <2>1
<1>7. Library!IsRecursion(D, R, mu, body)
  <2> HIDE DEF D, R
  <2>1. \A x \in D : \A g \in [D -> R] : body[<<x, g>>] \in R
    BY <1>4
  <2>2. \A x \in D : \A g, h \in [D -> R] :
          (\A y \in D : mu[y] < mu[x] => g[y] = h[y]) => body[<<x, g>>] = body[<<x, h>>]
    BY <1>5
  <2> QED
    BY <1>6, <2>1, <2>2 DEF Library!IsRecursion
<1>8. PICK g \in [D -> R] : \A x \in D : g[x] = body[<<x, g>>]
  <2> HIDE DEF D, R
  <2> QED
    BY <1>7, JoinAssumption, Library!RecursionExists
<1>9. g = [x \in D |-> WrittenAs(g, x)]
  <2> HIDE DEF D, R
  <2> QED
    BY <1>1, <1>8
<1>10. Written = CHOOSE f : f = [x \in D |-> WrittenAs(f, x)]
  BY Zenon DEF Written, WrittenAs, WrittenRun, Longest, Rest
<1>11. Written = [x \in D |-> WrittenAs(Written, x)]
  <2> HIDE DEF D
  <2> QED
    BY <1>9, <1>10, Zenon
<1> QED
  BY <1>11

\* The list of a job is one of the ways to write its tasks.
LEMMA WrittenIsAWriting ==
    ASSUME NEW tasks \in Seq(Numbers \ {0}), tasks # <<>>, Len(tasks) <= MaxNodes
    PROVE  Written[tasks] \in Writings[tasks] /\ Written[tasks] \in Seq(Tokens)
<1> DEFINE N == Numbers \ {0}
           Fine(x) == /\ Written[x] \in Seq(Tokens)
                      /\ x = <<>> => Written[x] = <<>>
                      /\ x # <<>> => Written[x] \in Writings[x] /\ Written[x] # <<>>
           D == {x \in Seq(N) : Len(x) <= MaxNodes}
           P == {x \in D : Fine(x)}
           mu == [x \in D |-> Len(x)]
<1>1. N \subseteq Nat /\ 0 .. MaxNodes \subseteq Numbers /\ MaxNodes \in Nat
  BY TokenFacts, TasksAssumption DEF Numbers
<1>2. \A x \in D : mu[x] \in Nat /\ mu[x] = Len(x)
  BY LenProperties
<1> HIDE DEF mu
<1>3. ASSUME NEW x \in D, \A y \in D : mu[y] < mu[x] => y \in P
      PROVE  Fine(x)
  <2>1. x \in Seq(N) /\ x \in Seq(Nat) /\ Len(x) \in Nat
    BY <1>1, SeqMonotonic, LenProperties
  <2>2. Written[x] = WrittenAs(Written, x)
    BY <2>1, WrittenDefined
  <2>3. CASE x = <<>>
    <3>1. Written[x] = <<>>
      BY <2>2, <2>3 DEF WrittenAs
    <3> QED
      BY <2>3, <3>1
  <2>4. CASE x # <<>>
    <3> DEFINE k == Longest(x)
               c == x[1]
               rest == Rest(x, k + 1)
               w == Written[rest]
    <3>1. k \in 1 .. Len(x) /\ IsRun(x, k)
      BY <2>1, <2>4, LongestRun
    <3>2. Written[x] = WrittenRun(c, k, w)
      BY <2>2, <2>4, Zenon DEF WrittenAs
    <3> HIDE DEF k
    <3>3. k \in 0 .. Len(x) /\ k \in Nat
      BY <2>1, <3>1
    <3>4. rest \in Seq(N) /\ Len(rest) = Len(x) - k
      BY <2>1, <3>3, RestOfKind
    <3>5. c \in N
      <4>1. 1 \in 1 .. Len(x)
        BY <2>1, <3>1
      <4> QED
        BY <2>1, <4>1, ElementOfSeq
    <3>6. Fine(rest)
      <4>1. Len(x) <= MaxNodes
        OBVIOUS
      <4>2. rest \in D /\ Len(rest) < Len(x)
        BY <1>1, <2>1, <3>1, <3>4, <4>1
      <4> HIDE DEF D, rest, Fine
      <4>3. rest \in P
        BY <1>2, <1>3, <4>2
      <4> QED
        BY <4>3
    <3>7. w \in Seq(Tokens) /\ w \in Seq(Int)
      <4>1. w \in Seq(Tokens)
        BY <3>6
      <4> HIDE DEF w
      <4> QED
        BY <4>1, TokenFacts, SeqMonotonic
    <3>8. c \in Tokens /\ k \in Tokens /\ c \in Nat
      BY <1>1, <2>1, <3>1, <3>3, <3>5, TokenFacts
    <3> DEFINE it == Item(c, k)
    <3>9. it \in Seq(Tokens)
      <4> HIDE DEF c
      <4>1. CASE k = 1
        BY <3>8, <4>1 DEF Item
      <4>2. CASE k # 1
        <5>1. it = <<c, OpenParen, TimesSign, k, CloseParen>>
          BY <4>2 DEF Item
        <5> HIDE DEF it
        <5>2. OpenParen \in Tokens /\ TimesSign \in Tokens /\ CloseParen \in Tokens
          BY TokenFacts
        <5> QED
          BY <3>8, <5>1, <5>2
      <4> QED
        BY <4>1, <4>2
    <3>10. /\ it \in Items(c, k) /\ it \in Seq(Int) /\ it # <<>>
           /\ w = <<>> => Written[x] = it
           /\ w # <<>> => Written[x] = (it \o <<Comma>>) \o w
      <4> HIDE DEF c, w
      <4> QED
        BY <3>2, <3>3, <3>7, <3>8, WrittenRunFacts
    <3>11. rest = <<>> <=> w = <<>>
      BY <3>6
    <3>12. IsWriting(Written[x], x, k, it)
      <4>1. rest # <<>> => w \in Writings[rest]
        BY <3>6
      <4> HIDE DEF it
      <4> QED
        BY <3>10, <3>11, <4>1, Zenon DEF IsWriting
    <3>13. Written[x] \in Writings[x]
      <4>1. Written[x] \in WritesRun(Writings, x, k)
        <5> HIDE DEF it
        <5> QED
          BY <3>10, <3>12, WritesRunMembers, Zenon
      <4> QED
        BY <2>1, <3>1, <4>1, WritingsMembers, Zenon
    <3>14. Written[x] \in Seq(Tokens) /\ Written[x] # <<>>
      <4> HIDE DEF it, w
      <4>1. CASE w = <<>>
        BY <3>9, <3>10, <4>1
      <4>2. CASE w # <<>>
        <5> DEFINE comma == <<Comma>>
        <5>1. comma \in Seq(Tokens) /\ Len(comma) = 1
          BY TokenFacts
        <5> HIDE DEF comma
        <5>2. it \o comma \in Seq(Tokens) /\ Len(it \o comma) = Len(it) + Len(comma)
          BY <3>9, <5>1, ConcatProperties
        <5> DEFINE u == it \o comma
        <5> HIDE DEF u
        <5>3. u \in Seq(Tokens) /\ Len(u) = Len(it) + 1
          BY <5>1, <5>2 DEF u
        <5>4. u \o w \in Seq(Tokens) /\ Len(u \o w) = Len(u) + Len(w)
          BY <3>7, <5>3, ConcatProperties
        <5>5. Len(it) \in Nat /\ Len(w) \in Nat
          BY <3>7, <3>9, LenProperties
        <5>6. u \o w # <<>>
          <6> DEFINE uw == u \o w
          <6>1. Len(uw) # 0
            BY <5>3, <5>4, <5>5
          <6> HIDE DEF uw
          <6>2. uw # <<>>
            BY <6>1
          <6> QED
            BY <6>2 DEF uw
        <5>7. Written[x] = u \o w
          BY <3>10, <4>2 DEF u, comma
        <5> QED
          BY <5>4, <5>6, <5>7, Zenon
      <4> QED
        BY <4>1, <4>2
    <3> QED
      BY <2>4, <3>13, <3>14
  <2> QED
    BY <2>3, <2>4
<1>4. \A x \in D : x \in P
  <2>1. \A x \in D : mu[x] \in Nat
    BY <1>2
  <2>2. \A x \in D : (\A y \in D : mu[y] < mu[x] => y \in P) => x \in P
    BY <1>3
  <2> HIDE DEF D, P
  <2> QED
    BY <2>1, <2>2, MeasureInduction
<1>5. tasks \in P
  <2>1. tasks \in D
    OBVIOUS
  <2> HIDE DEF D, P
  <2> QED
    BY <1>4, <2>1
<1> QED
  BY <1>5

-----------------------------------------------------------------------------
(* What a task learns *)

\* The job's list is as Slurm writes it until it is changed.
JobInv == /\ job \in Jobs /\ text \in Seq(Tokens) /\ edits \in Nat
          /\ edits = 0 => text = Written[job]

\* The tasks of a job's nodes, and how many nodes it has.
LEMMA JobFacts ==
    ASSUME job \in Jobs
    PROVE  /\ job \in Seq(Numbers \ {0}) /\ job # <<>>
           /\ Len(job) \in 1 .. MaxNodes /\ DOMAIN job = 1 .. Len(job)
<1>1. PICK n \in 1 .. MaxNodes : job \in [1 .. n -> TaskCounts]
  BY DEF Jobs
<1>2. n \in Nat /\ job \in [1 .. n -> Numbers \ {0}]
  BY <1>1, TasksAssumption DEF Numbers
<1>3. job \in Seq(Numbers \ {0})
  BY <1>2, SeqDef
<1>4. Len(job) = n
  <2>1. DOMAIN job = 1 .. n
    BY <1>1
  <2>2. DOMAIN job = 1 .. Len(job) /\ Len(job) \in Nat
    BY <1>3, LenProperties
  <2> QED
    BY <1>2, <2>1, <2>2
<1> QED
  BY <1>1, <1>3, <1>4

\* The initial state satisfies it.
LEMMA JobInitInv == JobInit => JobInv
<1> SUFFICES ASSUME JobInit PROVE JobInv
  OBVIOUS
<1>1. job \in Jobs /\ text = Written[job] /\ edits = 0
  BY DEF JobInit
<1>2. Written[job] \in Seq(Tokens)
  BY <1>1, JobFacts, WrittenIsAWriting
<1> QED
  BY <1>1, <1>2 DEF JobInv

\* A change of one token leaves tokens.
LEMMA EditsTyped ==
    ASSUME NEW S, NEW t \in Seq(S), NEW i \in 1 .. Len(t) + 1
    PROVE  /\ i <= Len(t) => RemoveAt(t, i) \in Seq(S)
           /\ \A c \in S : InsertAt(t, i, c) \in Seq(S)
                           /\ (i <= Len(t) => ReplaceAt(t, i, c) \in Seq(S))
<1>1. Len(t) \in Nat /\ i \in Int
  BY LenProperties
<1>2. \A j \in 1 .. Len(t) : t[j] \in S
  BY ElementOfSeq
<1> DEFINE before == SubSeq(t, 1, i - 1)
           from == SubSeq(t, i, Len(t))
           after == SubSeq(t, i + 1, Len(t))
<1>3. before \in Seq(S)
  <2>1. \A j \in 1 .. i - 1 : t[j] \in S
    BY <1>1, <1>2
  <2>2. 1 \in Int /\ i - 1 \in Int
    BY <1>1
  <2> QED
    BY <2>1, <2>2, SubSeqProperties
<1>4. from \in Seq(S)
  <2>1. \A j \in i .. Len(t) : t[j] \in S
    BY <1>1, <1>2
  <2>2. i \in Int /\ Len(t) \in Int
    BY <1>1
  <2> QED
    BY <2>1, <2>2, SubSeqProperties
<1>5. after \in Seq(S)
  <2>1. \A j \in i + 1 .. Len(t) : t[j] \in S
    BY <1>1, <1>2
  <2>2. i + 1 \in Int /\ Len(t) \in Int
    BY <1>1
  <2> QED
    BY <2>1, <2>2, SubSeqProperties
<1> HIDE DEF before, from, after
<1>6. before \o after \in Seq(S)
  BY <1>3, <1>5, ConcatProperties
<1>7. RemoveAt(t, i) = before \o after
  BY Zenon DEF RemoveAt, before, after
<1>8. ASSUME NEW c \in S PROVE InsertAt(t, i, c) \in Seq(S)
  <2> DEFINE one == <<c>>
             two == before \o one
  <2>1. one \in Seq(S)
    OBVIOUS
  <2> HIDE DEF one
  <2>2. two \in Seq(S)
    BY <1>3, <2>1, ConcatProperties
  <2> HIDE DEF two
  <2>3. two \o from \in Seq(S)
    BY <1>4, <2>2, ConcatProperties
  <2>4. InsertAt(t, i, c) = two \o from
    BY Zenon DEF InsertAt, before, from, one, two
  <2> QED
    BY <2>3, <2>4
<1>9. ASSUME NEW c \in S, i <= Len(t) PROVE ReplaceAt(t, i, c) \in Seq(S)
  <2>1. i \in 1 .. Len(t)
    BY <1>1, <1>9
  <2>2. [t EXCEPT ![i] = c] \in Seq(S)
    BY <2>1, ExceptSeq
  <2> QED
    BY <2>2 DEF ReplaceAt
<1> QED
  BY <1>6, <1>7, <1>8, <1>9

\* Every change of the list preserves it.
LEMMA JobNextInv == JobInv /\ [JobNext]_<<job, text, edits>> => JobInv'
<1> SUFFICES ASSUME JobInv, [JobNext]_<<job, text, edits>> PROVE JobInv'
  OBVIOUS
<1>1. /\ job \in Jobs /\ text \in Seq(Tokens) /\ edits \in Nat
      /\ edits = 0 => text = Written[job]
  BY DEF JobInv
<1>2. CASE UNCHANGED <<job, text, edits>>
  BY <1>1, <1>2 DEF JobInv
<1>3. ASSUME NEW t \in Seq(Tokens), Edit(t) PROVE JobInv'
  <2>1. job' = job /\ text' = t /\ edits' = edits + 1
    BY <1>3 DEF Edit
  <2>2. edits' \in Nat /\ edits' # 0
    BY <1>1, <2>1
  <2> QED
    BY <1>1, <2>1, <2>2 DEF JobInv
<1>4. ASSUME NEW i \in 1 .. Len(text) + 1, i <= Len(text), Edit(RemoveAt(text, i))
      PROVE  JobInv'
  <2>1. RemoveAt(text, i) \in Seq(Tokens)
    BY <1>1, <1>4, EditsTyped
  <2> QED
    BY <1>3, <1>4, <2>1
<1>5. ASSUME NEW i \in 1 .. Len(text) + 1, NEW c \in Tokens, Edit(InsertAt(text, i, c))
      PROVE  JobInv'
  <2>1. InsertAt(text, i, c) \in Seq(Tokens)
    BY <1>1, EditsTyped
  <2> QED
    BY <1>3, <1>5, <2>1
<1>6. ASSUME NEW i \in 1 .. Len(text) + 1, NEW c \in Tokens, i <= Len(text),
             Edit(ReplaceAt(text, i, c))
      PROVE  JobInv'
  <2>1. ReplaceAt(text, i, c) \in Seq(Tokens)
    BY <1>1, <1>6, EditsTyped
  <2> QED
    BY <1>3, <1>6, <2>1
<1> QED
  BY <1>2, <1>4, <1>5, <1>6, Zenon DEF JobNext

\* It always holds.
LEMMA JobInvariant == JobSpec => []JobInv
BY JobInitInv, JobNextInv, PTL DEF JobSpec

\* It implies that a task knows its node: Slurm's list is read as the job.
LEMMA TaskKnowsItsNode == JobInv => EveryTaskKnowsItsNode
<1> SUFFICES ASSUME JobInv, edits = 0, NEW n \in DOMAIN job, job[n] < 256,
                    NEW r \in 0 .. job[n] - 1
             PROVE  NodeViews([text |-> text, nodes |-> Len(job), node |-> n - 1,
                               local |-> r]) = {[size |-> job[n], rank |-> r]}
  BY DEF EveryTaskKnowsItsNode
<1>1. /\ job \in Seq(Numbers \ {0}) /\ job # <<>>
      /\ Len(job) \in 1 .. MaxNodes /\ DOMAIN job = 1 .. Len(job)
      /\ text \in Seq(Tokens) /\ text = Written[job]
  BY JobFacts DEF JobInv
<1>2. job \in Seq(Nat \ {0}) /\ text \in Seq(Int) /\ MaxNodes \in Nat
  <2>1. Numbers \ {0} \subseteq Nat \ {0} /\ Tokens \subseteq Int
    BY TokenFacts
  <2> QED
    BY <1>1, <2>1, SeqMonotonic, TasksAssumption
<1>3. text \in Texts(job)
  <2>1. Len(job) <= MaxNodes
    BY <1>1, <1>2
  <2>2. text \in Writings[job]
    BY <1>1, <2>1, WrittenIsAWriting
  <2> QED
    BY <1>1, <2>2, Zenon DEF Texts
<1>4. ReadTasks(text, Len(job)) = List(job)
  BY <1>2, <1>3, WritingsAreRead
<1>5. job[n] \in Nat \ {0} /\ n \in 1 .. Len(job) /\ Len(job) \in Nat
  BY <1>1, <1>2, ElementOfSeq
<1> DEFINE e == [text |-> text, nodes |-> Len(job), node |-> n - 1, local |-> r]
<1>6. e.text = text /\ e.nodes = Len(job) /\ e.node = n - 1 /\ e.local = r
  OBVIOUS
<1> HIDE DEF e
<1>7. ToolStatus(e) = {job[n]}
  <2>1. ~(e.local < 0 \/ e.nodes <= 0) /\ ~(e.node >= e.nodes) /\ ~(e.node < 0)
        /\ e.node + 1 = n
    BY <1>5, <1>6
  <2>2. ReadTasks(e.text, e.nodes) = List(job)
    BY <1>4, <1>6
  <2>3. List(job).end = "list" /\ List(job).entries = job
    BY DEF List
  <2>4. (job[n] % 256) = job[n]
    BY <1>5
  <2> QED
    BY <2>1, <2>2, <2>3, <2>4 DEF ToolStatus
<1>8. NodeViews(e) = {[size |-> job[n], rank |-> r]}
  BY <1>6, <1>7 DEF NodeViews
<1> QED
  BY <1>8 DEF e

\* Every task of a job learns how many tasks its node has (slurm_variables_parser.c,
\* saboslurmlauncher.sh), whatever the sizes of its nodes that an exit status holds.
THEOREM TasksKnowTheirNode == JobSpec => []EveryTaskKnowsItsNode
BY JobInvariant, TaskKnowsItsNode, PTL

\* It implies that only whole lists are taken.
LEMMA WholeLists == JobInv => OnlyWholeLists
<1> SUFFICES ASSUME JobInv PROVE OnlyWholeLists
  OBVIOUS
<1> DEFINE size == Len(job)
           read == ReadTasks(text, size)
<1>1. /\ size \in 1 .. MaxNodes /\ size \in Nat /\ MaxNodes \in Nat
      /\ text \in Seq(Tokens) /\ text \in Seq(Int)
  <2>1. size \in 1 .. MaxNodes /\ text \in Seq(Tokens)
    BY JobFacts DEF JobInv
  <2>2. MaxNodes \in Nat
    BY TasksAssumption
  <2> HIDE DEF size
  <2>3. size \in Nat
    BY <2>1, <2>2
  <2>4. Tokens \subseteq Int
    BY TokenFacts
  <2>5. text \in Seq(Int)
    BY <2>1, <2>4, SeqMonotonic
  <2> QED
    BY <2>1, <2>2, <2>3, <2>5
<1> HIDE DEF size
<1>2. \A tasks \in Seq(Numbers \ {0}) :
         Len(tasks) \in 1 .. MaxNodes => tasks \in DOMAIN Lists
  <2> TAKE tasks \in Seq(Numbers \ {0})
  <2>1. tasks \in [1 .. Len(tasks) -> Numbers \ {0}]
    BY LenProperties
  <2> QED
    BY <2>1 DEF Lists
<1>3. \A tasks \in DOMAIN Lists : /\ tasks \in Seq(Numbers \ {0}) /\ tasks # <<>>
                                  /\ Lists[tasks] = Texts(tasks)
  <2> TAKE tasks \in DOMAIN Lists
  <2>1. PICK n \in 1 .. MaxNodes : tasks \in [1 .. n -> Numbers \ {0}]
    BY DEF Lists
  <2>2. n \in Nat \ {0} /\ tasks \in Seq(Numbers \ {0})
    BY <1>1, <2>1, SeqDef
  <2>3. tasks # <<>>
    <3>1. 1 \in DOMAIN tasks
      BY <2>1, <2>2
    <3> QED
      BY <3>1
  <2>4. Lists[tasks] = Writings[tasks] \cup {t \o <<Comma>> : t \in Writings[tasks]}
    BY DEF Lists
  <2> QED
    BY <2>2, <2>3, <2>4, Zenon DEF Texts
<1>4. CASE read.end = "list"
  <2>1. PICK tasks \in Seq(Numbers \ {0}) :
           read = List(tasks) /\ Len(tasks) = size /\ text \in Texts(tasks)
    BY <1>1, <1>4, ListsWereWritten
  <2>2. tasks \in DOMAIN Lists /\ text \in Lists[tasks]
    BY <1>1, <1>2, <1>3, <2>1
  <2>3. tasks = read.entries
    BY <2>1 DEF List
  <2> QED
    BY <1>4, <2>1, <2>2, <2>3, Zenon DEF OnlyWholeLists, size
<1>5. CASE read.end # "list"
  <2>1. ASSUME text \in ListsOfSize[size] PROVE FALSE
    <3>1. PICK tasks \in DOMAIN Lists : Len(tasks) = size /\ text \in Lists[tasks]
      BY <1>1, <2>1 DEF ListsOfSize
    <3>2. tasks \in Seq(Nat \ {0}) /\ text \in Texts(tasks)
      <4>1. Numbers \ {0} \subseteq Nat \ {0}
        BY TokenFacts
      <4> QED
        BY <1>3, <3>1, <4>1, SeqMonotonic
    <3>3. read = List(tasks)
      BY <1>1, <3>1, <3>2, WritingsAreRead
    <3> QED
      BY <1>5, <3>3 DEF List
  <2> QED
    BY <1>5, <2>1, Zenon DEF OnlyWholeLists, size
<1> QED
  BY <1>4, <1>5

\* The tool takes a list only as a whole (slurm_variables_parser.c): what it
\* reads is what the list says, of any job and after any changes of its list.
THEOREM ToolTakesWholeLists == JobSpec => []OnlyWholeLists
BY JobInvariant, WholeLists, PTL
=============================================================================
