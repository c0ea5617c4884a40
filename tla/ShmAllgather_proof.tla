------------------------- MODULE ShmAllgather_proof -------------------------
(***************************************************************************)
(* The barrier of the shared memory module holds for any number of         *)
(* processes and calls, and any modulus of the generation above one: a     *)
(* process is never more than one meeting ahead of another, so that two    *)
(* consecutive generations are all it has to tell apart.  Hence copies in  *)
(* and out are apart, and a call returns what was contributed to it.       *)
(***************************************************************************)
EXTENDS ShmAllgather, FiniteSetTheorems, TLAPS

\* The last one is between its arrival and the new generation.
Closing(p) == pc[p] \in {"reset", "advance"}

\* Those who have come to the meeting that follows the first r ones.
Came(r) == {p \in Ranks : arrived[p] = r + 1}

\* r meetings are over.
Over(r) == \A p \in Ranks : arrived[p] \in {r, r + 1}

LocalGeneration(r) ==
    \A p \in Ranks :
        local[p] = IF arrived[p] = r \/ Closing(p) THEN gen ELSE NextGeneration(gen)

\* Where a process is tells whether it came, and whether it waited.
Places(r) ==
    \A p \in Ranks :
        /\ pc[p] \in {"down", "arrive", "copy"} =>
             arrived[p] = r /\ passed[p] = arrived[p]
        /\ Closing(p) => \A q \in Ranks : /\ arrived[q] = r + 1
                                          /\ Closing(q) => q = p
        /\ passed[p] = arrived[p] \/ passed[p] + 1 = arrived[p]

Counted(r) == nwritter = IF \E p \in Ranks : pc[p] = "advance" THEN 0
                        ELSE Cardinality(Came(r))

Barrier(r) == Over(r) /\ LocalGeneration(r) /\ Places(r) /\ Counted(r)

\* The meetings a process has come to, its own closing not counted.
Base(p) == IF Closing(p) THEN arrived[p] - 1 ELSE arrived[p]

\* One meeting to join, two per call: before copying in an odd number, before
\* copying out an even one.
Parts ==
    \A p \in Ranks :
        /\ part[p] = "join" =>
             /\ calls[p] = 0
             /\ Base(p) = IF pc[p] \in {"wait", "copy", "app"} THEN 1 ELSE 0
        /\ part[p] = "in" => Base(p) = 2 * calls[p] + 1
        /\ part[p] = "out" =>
             Base(p) = IF pc[p] = "app" THEN 2 * calls[p] + 1 ELSE 2 * calls[p] + 2

Inv == TypeOK /\ Parts /\ \E r \in Nat : Barrier(r)

\* The next generation is a generation, and another one.
LEMMA NextGenerationDiffers ==
    ASSUME NEW g \in 0 .. GenMod - 1
    PROVE  NextGeneration(g) \in 0 .. GenMod - 1 /\ NextGeneration(g) # g
<1>1. GenMod \in Nat /\ GenMod > 1
  BY CountersAssumption
<1>2. CASE g + 1 < GenMod
  <2>1. (g + 1) % GenMod = g + 1
    BY <1>1, <1>2
  <2> QED BY <1>1, <1>2, <2>1 DEF NextGeneration
<1>3. CASE g + 1 = GenMod
  <2>1. (g + 1) % GenMod = 0
    BY <1>1, <1>3
  <2> QED BY <1>1, <1>3, <2>1 DEF NextGeneration
<1> QED BY <1>1, <1>2, <1>3

\* The processes can be counted.
LEMMA RanksFinite == IsFiniteSet(Ranks) /\ Cardinality(Ranks) = NumProcs
  BY CountersAssumption, FS_Interval DEF Ranks

\* Before the first barrier nobody has arrived.
LEMMA InitInv == Init => Inv
<1> SUFFICES ASSUME Init PROVE Inv
  OBVIOUS
<1>1. TypeOK
  BY CountersAssumption DEF Init, TypeOK, Ranks
<1>2. Parts
  BY DEF Init, Parts, Base, Closing
<1>3. Barrier(0)
  <2>1. Came(0) = {}
    BY DEF Init, Came
  <2> QED BY <2>1, FS_EmptySet
      DEF Init, Barrier, Over, LocalGeneration, Places, Counted, Closing
<1> QED BY <1>1, <1>2, <1>3 DEF Inv

\* Every step of the barrier and of the allgather keeps the meeting in order.
LEMMA NextInv == Inv /\ [Next]_vars => Inv'
<1> SUFFICES ASSUME Inv, [Next]_vars PROVE Inv'
  OBVIOUS
<1> PICK r \in Nat : Barrier(r)
  BY DEF Inv
<1> USE DEF Barrier
<1>1. TypeOK /\ Parts /\ Over(r) /\ LocalGeneration(r) /\ Places(r) /\ Counted(r)
  BY DEF Inv
<1> HIDE DEF Barrier
<1> USE <1>1
<1>2. CASE UNCHANGED vars
  <2>1. TypeOK' /\ Parts'
    BY <1>2 DEF vars, memory, history, TypeOK, Parts, Base, Closing
  <2>2. Barrier(r)'
    BY <1>2 DEF vars, memory, history, Barrier, Over, LocalGeneration, Places,
                Counted, Came, Closing
  <2> QED BY <2>1, <2>2 DEF Inv
<1>3. CASE Ended
  BY <1>2, <1>3 DEF Ended
<1>4. ASSUME NEW p \in Ranks, Join(p) \/ Allgather(p) \/ Inside(p) PROVE Inv'
  <2>1. CASE Join(p)
    <3>1. TypeOK'
      BY <2>1, CountersAssumption DEF Join, TypeOK, Goto, memory, history
    <3>2. Parts'
      BY <2>1 DEF Join, Parts, Base, Closing, TypeOK, Goto, memory, history
    <3>3. Barrier(r)'
      <4>1. Over(r)'
        BY <2>1 DEF Join, Over, history
      <4>2. LocalGeneration(r)'
        BY <2>1 DEF Join, LocalGeneration, Closing, Goto, TypeOK, history
      <4>3. Places(r)'
        BY <2>1 DEF Join, Places, Closing, Goto, TypeOK, history
      <4>4. Counted(r)'
        BY <2>1 DEF Join, Counted, Came, Goto, TypeOK, history
      <4> QED BY <4>1, <4>2, <4>3, <4>4 DEF Barrier
    <3> QED BY <3>1, <3>2, <3>3 DEF Inv
  <2>2. CASE Translate(p)
    <3>1. TypeOK'
      BY <2>2, CountersAssumption DEF Translate, TypeOK, Goto, memory, history
    <3>2. Parts'
      BY <2>2 DEF Translate, Parts, Base, Closing, TypeOK, Goto, memory, history
    <3>3. Barrier(r)'
      <4>1. Over(r)'
        BY <2>2 DEF Translate, Over, history
      <4>2. LocalGeneration(r)'
        BY <2>2 DEF Translate, LocalGeneration, Closing, Goto, TypeOK, history
      <4>3. Places(r)'
        BY <2>2 DEF Translate, Places, Closing, Goto, TypeOK, history
      <4>4. Counted(r)'
        BY <2>2 DEF Translate, Counted, Came, Goto, TypeOK, history
      <4> QED BY <4>1, <4>2, <4>3, <4>4 DEF Barrier
    <3> QED BY <3>1, <3>2, <3>3 DEF Inv
  <2>3. CASE CopyIn(p)
    <3>1. TypeOK'
      BY <2>3, CountersAssumption DEF CopyIn, TypeOK, Goto, memory, history
    <3>2. Parts'
      BY <2>3 DEF CopyIn, Parts, Base, Closing, TypeOK, Goto, memory, history
    <3>3. Barrier(r)'
      <4>1. Over(r)'
        BY <2>3 DEF CopyIn, Over, history
      <4>2. LocalGeneration(r)'
        BY <2>3 DEF CopyIn, LocalGeneration, Closing, Goto, TypeOK, history
      <4>3. Places(r)'
        BY <2>3 DEF CopyIn, Places, Closing, Goto, TypeOK, history
      <4>4. Counted(r)'
        BY <2>3 DEF CopyIn, Counted, Came, Goto, TypeOK, history
      <4> QED BY <4>1, <4>2, <4>3, <4>4 DEF Barrier
    <3> QED BY <3>1, <3>2, <3>3 DEF Inv
  <2>4. CASE CopyOut(p)
    <3>1. TypeOK'
      BY <2>4, CountersAssumption DEF CopyOut, TypeOK, Goto, memory, history
    <3>2. Parts'
      BY <2>4 DEF CopyOut, Parts, Base, Closing, TypeOK, Goto, memory, history
    <3>3. Barrier(r)'
      <4>1. Over(r)'
        BY <2>4 DEF CopyOut, Over, history
      <4>2. LocalGeneration(r)'
        BY <2>4 DEF CopyOut, LocalGeneration, Closing, Goto, TypeOK, history
      <4>3. Places(r)'
        BY <2>4 DEF CopyOut, Places, Closing, Goto, TypeOK, history
      <4>4. Counted(r)'
        BY <2>4 DEF CopyOut, Counted, Came, Goto, TypeOK, history
      <4> QED BY <4>1, <4>2, <4>3, <4>4 DEF Barrier
    <3> QED BY <3>1, <3>2, <3>3 DEF Inv
  <2>5. CASE Allgather(p)
    <3>1. TypeOK'
      BY <2>5, CountersAssumption DEF Allgather, TypeOK, Goto, memory, history
    <3>2. Parts'
      BY <2>5 DEF Allgather, Parts, Base, Closing, TypeOK, Goto, memory, history
    <3>3. Barrier(r)'
      <4>1. Over(r)'
        BY <2>5 DEF Allgather, Over, history
      <4>2. LocalGeneration(r)'
        BY <2>5 DEF Allgather, LocalGeneration, Closing, Goto, TypeOK, history
      <4>3. Places(r)'
        BY <2>5 DEF Allgather, Places, Closing, Goto, TypeOK, history
      <4>4. Counted(r)'
        BY <2>5 DEF Allgather, Counted, Came, Goto, TypeOK, history
      <4> QED BY <4>1, <4>2, <4>3, <4>4 DEF Barrier
    <3> QED BY <3>1, <3>2, <3>3 DEF Inv
  <2>6. CASE Wait(p)
    <3>1. TypeOK'
      BY <2>6, CountersAssumption DEF Wait, TypeOK, Goto, memory, history
    <3>2. Parts'
      BY <2>6, ZenonT(40) DEF Wait, Parts, Base, Closing, TypeOK, Goto, memory, history
    <3>3. Barrier(r)'
      <4>1. Over(r)'
        BY <2>6 DEF Wait, Over, history
      <4>2. LocalGeneration(r)'
        BY <2>6 DEF Wait, LocalGeneration, Closing, Goto, TypeOK, history
      <4>3. Places(r)'
        BY <2>6, NextGenerationDiffers DEF Wait, Places, LocalGeneration, Over, Closing, Goto, TypeOK, history
      <4>4. Counted(r)'
        BY <2>6 DEF Wait, Counted, Came, Goto, TypeOK, history
      <4> QED BY <4>1, <4>2, <4>3, <4>4 DEF Barrier
    <3> QED BY <3>1, <3>2, <3>3 DEF Inv
  <2>7. CASE Reset(p)
    <3>1. TypeOK'
      BY <2>7, CountersAssumption DEF Reset, TypeOK, Goto, memory, history
    <3>2. Parts'
      BY <2>7 DEF Reset, Parts, Base, Closing, TypeOK, Goto, memory, history
    <3>3. Barrier(r)'
      <4>1. Over(r)'
        BY <2>7 DEF Reset, Over, history
      <4>2. LocalGeneration(r)'
        BY <2>7 DEF Reset, LocalGeneration, Closing, Goto, TypeOK, history
      <4>3. Places(r)'
        BY <2>7 DEF Reset, Places, Closing, Goto, TypeOK, history
      <4>4. Counted(r)'
        BY <2>7 DEF Reset, Counted, Came, Goto, TypeOK, history
      <4> QED BY <4>1, <4>2, <4>3, <4>4 DEF Barrier
    <3> QED BY <3>1, <3>2, <3>3 DEF Inv
  <2>8. CASE Arrive(p)
    <3>1. arrived[p] = r /\ ~Closing(p) /\ pc[p] = "arrive"
      BY <2>8 DEF Arrive, Places, Closing
    <3>2. \A q \in Ranks : ~Closing(q)
      BY <3>1 DEF Places, TypeOK
    <3>3. arrived' = [arrived EXCEPT ![p] = r + 1] /\ UNCHANGED <<gen, passed>>
      BY <2>8, <3>1 DEF Arrive
    <3>4. Came(r)' = Came(r) \cup {p} /\ p \notin Came(r)
      BY <3>1, <3>3 DEF Came, TypeOK
    <3>5. /\ nwritter = Cardinality(Came(r)) /\ nwritter' = nwritter + 1
          /\ nwritter \in Nat
      BY <2>8, <3>2, CountersAssumption DEF Arrive, Counted, Closing, TypeOK
    <3>6. /\ IsFiniteSet(Came(r)) /\ IsFiniteSet(Came(r)')
          /\ nwritter' = Cardinality(Came(r)') /\ nwritter' <= NumProcs
          /\ nwritter' = NumProcs => Came(r)' = Ranks
      <4>1. Came(r) \in SUBSET Ranks /\ Came(r)' \in SUBSET Ranks
        BY DEF Came
      <4>2. IsFiniteSet(Came(r)) /\ IsFiniteSet(Came(r)')
        BY <4>1, RanksFinite, FS_Subset
      <4>3. nwritter' = Cardinality(Came(r)')
        BY <3>4, <3>5, <4>2, FS_AddElement
      <4> QED BY <4>1, <4>2, <4>3, RanksFinite, FS_Subset
    <3>7. CASE IsLast
      <4>1. Came(r)' = Ranks
        BY <3>5, <3>6, <3>7, CountersAssumption DEF IsLast
      <4>2. pc' = [pc EXCEPT ![p] = "reset"] /\ UNCHANGED <<part, local, calls>>
        BY <2>8, <3>7 DEF Arrive, Goto
      <4>3. TypeOK'
        BY <2>8, <3>3, <3>5, <3>6, <4>2, CountersAssumption DEF TypeOK, Arrive, memory
      <4>4. Parts'
        BY <3>1, <3>3, <4>2 DEF Parts, Base, Closing, TypeOK
      <4>5. Over(r)' /\ LocalGeneration(r)'
        BY <3>1, <3>3, <4>2 DEF Over, LocalGeneration, Closing, TypeOK
      <4>6. Places(r)'
        BY <3>1, <3>2, <3>3, <4>1, <4>2 DEF Places, Came, Closing, TypeOK
      <4>7. Counted(r)'
        BY <3>2, <3>6, <4>2 DEF Counted, Closing, TypeOK
      <4> QED BY <4>3, <4>4, <4>5, <4>6, <4>7 DEF Inv, Barrier
    <3>8. CASE ~IsLast
      <4>1. Arrived(p)
        BY <2>8, <3>8 DEF Arrive
      <4>2. TypeOK'
        BY <2>8, <3>3, <3>5, <3>6, <4>1, CountersAssumption, NextGenerationDiffers
        DEF TypeOK, Arrive, Arrived, Goto, memory
      <4>3. Parts'
        BY <3>1, <3>3, <4>1 DEF Parts, Base, Closing, Arrived, Goto, TypeOK
      <4>4. Over(r)' /\ LocalGeneration(r)'
        BY <3>1, <3>3, <4>1 DEF Over, LocalGeneration, Closing, Arrived, Goto, TypeOK
      <4>5. Places(r)'
        BY <3>1, <3>2, <3>3, <4>1 DEF Places, Closing, Arrived, Goto, TypeOK
      <4>6. Counted(r)'
        BY <3>2, <3>6, <4>1 DEF Counted, Closing, Arrived, Goto, TypeOK
      <4> QED BY <4>2, <4>3, <4>4, <4>5, <4>6 DEF Inv, Barrier
    <3> QED BY <3>7, <3>8
  <2>9. CASE Advance(p)
    <3>1. /\ pc[p] = "advance" /\ Closing(p) /\ Arrived(p)
          /\ gen' = NextGeneration(gen) /\ UNCHANGED <<nwritter, history>>
      BY <2>9 DEF Advance, Closing
    <3>2. \A q \in Ranks : /\ arrived[q] = r + 1
                           /\ Closing(q) => q = p
                           /\ pc[q] \notin {"down", "arrive", "copy"}
      BY <3>1 DEF Places, TypeOK
    <3>3. TypeOK'
      BY <2>9, <3>1, NextGenerationDiffers
      DEF TypeOK, Advance, Arrived, Goto, memory, history
    <3>4. Parts'
      <4> DEFINE P(q) ==
            /\ part[q] = "join" =>
                 /\ calls[q] = 0
                 /\ Base(q) = IF pc[q] \in {"wait", "copy", "app"} THEN 1 ELSE 0
            /\ part[q] = "in" => Base(q) = 2 * calls[q] + 1
            /\ part[q] = "out" =>
                 Base(q) = IF pc[q] = "app" THEN 2 * calls[q] + 1
                           ELSE 2 * calls[q] + 2
      <4>1. ASSUME NEW q \in Ranks, q # p PROVE P(q)'
        <5>1. P(q)
          BY DEF Parts
        <5> QED BY <3>1, <4>1, <5>1 DEF Base, Closing, Arrived, Goto, TypeOK, history
      <4>2. P(p)'
        <5>1. P(p) /\ Base(p) = r /\ Base(p)' = r + 1
          BY <3>1, <3>2 DEF Parts, Base, Closing, Arrived, Goto, TypeOK, history
        <5>2. part[p] \in {"join", "in", "out"} /\ calls[p] \in Nat
          BY DEF TypeOK
        <5>3. CASE part[p] = "out"
          <6>1. part[p]' = "out" /\ pc[p]' = "app" /\ calls[p]' = calls[p] + 1
            BY <3>1, <5>3 DEF Arrived, Goto, TypeOK
          <6> QED BY <3>1, <5>1, <5>2, <5>3, <6>1
        <5>4. CASE part[p] \in {"join", "in"}
          <6>1. /\ part[p]' = IF part[p] = "in" THEN "out" ELSE part[p]
                /\ pc[p]' = "wait" /\ calls[p]' = calls[p]
            BY <3>1, <5>4 DEF Arrived, Goto, TypeOK
          <6> QED BY <3>1, <5>1, <5>2, <5>4, <6>1
        <5> QED BY <5>2, <5>3, <5>4
      <4> QED BY <4>1, <4>2 DEF Parts
    <3>5. Over(r + 1)' /\ LocalGeneration(r + 1)'
      <4>1. Over(r + 1)'
        BY <3>1, <3>2 DEF Over, history
      <4>2. \A q \in Ranks : ~Closing(q)' /\ arrived[q]' = r + 1
        BY <3>1, <3>2 DEF Closing, Arrived, Goto, TypeOK, history
      <4>3. \A q \in Ranks : local[q]' = gen'
        <5>1. local[p] = gen
          BY <3>1 DEF LocalGeneration
        <5>2. \A q \in Ranks \ {p} : local[q] = NextGeneration(gen)
          BY <3>2 DEF LocalGeneration
        <5> QED BY <3>1, <5>1, <5>2 DEF Arrived, TypeOK
      <4> QED BY <4>1, <4>2, <4>3 DEF LocalGeneration
    <3>6. Places(r + 1)'
      BY <3>1, <3>2 DEF Places, Closing, Arrived, Goto, TypeOK, history
    <3>7. Counted(r + 1)'
      <4>1. nwritter' = 0
        BY <3>1 DEF Counted
      <4>2. Came(r + 1)' = {}
        <5>1. \A q \in Ranks : arrived'[q] = r + 1
          BY <3>1, <3>2 DEF history
        <5> QED BY <5>1 DEF Came
      <4> QED BY <4>1, <4>2, FS_EmptySet DEF Counted
    <3> QED BY <3>3, <3>4, <3>5, <3>6, <3>7 DEF Inv, Barrier
  <2> QED BY <1>4, <2>1, <2>2, <2>3, <2>4, <2>5, <2>6, <2>7, <2>8, <2>9 DEF Inside
<1> QED BY <1>2, <1>3, <1>4 DEF Next

\* PhasesApart: nobody writes a contribution while another copies them out, for
\* any number of processes: the writer has come to an odd number of meetings,
\* the reader to an even one, and both to as many as are over.
THEOREM CopiesApart == Spec => []PhasesApart
<1>1. Inv => PhasesApart
  <2> SUFFICES ASSUME Inv, NEW p \in Ranks, NEW q \in Ranks,
                      Copies(p, "in"), Copies(q, "out")
               PROVE  FALSE
    BY DEF PhasesApart
  <2>1. arrived[p] = arrived[q]
    BY DEF Inv, Barrier, Places, Copies
  <2>2. arrived[p] = 2 * calls[p] + 1 /\ arrived[q] = 2 * calls[q] + 2
    BY DEF Inv, Parts, Base, Closing, Copies
  <2>3. calls[p] \in Nat /\ calls[q] \in Nat
    BY DEF Inv, TypeOK
  <2>4. 2 * calls[p] + 1 # 2 * calls[q] + 2
    BY <2>3
  <2> QED BY <2>1, <2>2, <2>4
<1> QED BY <1>1, InitInv, NextInv, PTL DEF Spec

\* TypeOK: in particular the count of arrivals never exceeds the processes.
THEOREM CountersTyped == Spec => []TypeOK
<1>1. Inv => TypeOK
  BY DEF Inv
<1> QED BY <1>1, InitInv, NextInv, PTL DEF Spec

\* MeetingsHold: counter, reset and wrapping generation implement Rendezvous.
THEOREM BarrierIsRendezvous == Spec => MeetingsHold
<1>1. Init => Meeting!Init
  BY DEF Init, Meeting!Init
<1>2. Inv /\ [Next]_vars => [Meeting!Next]_(Meeting!vars)
  <2> SUFFICES ASSUME Inv, [Next]_vars PROVE Meeting!Next \/ UNCHANGED Meeting!vars
    OBVIOUS
  <2> PICK r \in Nat : Barrier(r)
    BY DEF Inv
  <2>1. TypeOK /\ Over(r) /\ LocalGeneration(r) /\ Places(r)
    BY DEF Inv, Barrier
  <2>2. ASSUME NEW p \in Ranks, Arrive(p) PROVE Meeting!Arrive(p)
    BY <2>1, <2>2 DEF Arrive, Places, Meeting!Arrive
  <2>3. ASSUME NEW p \in Ranks, Wait(p) PROVE Meeting!Pass(p) \/ UNCHANGED Meeting!vars
    <3>1. ~Closing(p) /\ gen \in 0 .. GenMod - 1
      BY <2>1, <2>3 DEF Wait, Closing, TypeOK
    <3>2. arrived[p] = r
      BY <2>1, <2>3, <3>1, NextGenerationDiffers DEF Wait, LocalGeneration, Over
    <3>3. \A q \in Ranks : arrived[q] >= arrived[p]
      BY <2>1, <3>2 DEF Over
    <3>4. CASE passed[p] = arrived[p]
      BY <2>1, <2>3, <3>4 DEF Wait, TypeOK, Meeting!vars
    <3>5. CASE passed[p] + 1 = arrived[p]
      <4>1. /\ passed' = [passed EXCEPT ![p] = @ + 1] /\ UNCHANGED arrived
            /\ passed[p] < arrived[p]
        <5>1. passed[p] \in Nat /\ arrived[p] \in Nat
          BY <2>1 DEF TypeOK
        <5>2. /\ passed' = [passed EXCEPT ![p] = arrived[p]] /\ UNCHANGED arrived
          BY <2>3 DEF Wait
        <5>3. arrived[p] = passed[p] + 1 /\ passed[p] < arrived[p]
          BY <3>5, <5>1
        <5>4. passed' = [passed EXCEPT ![p] = passed[p] + 1]
          BY <5>2, <5>3, Zenon
        <5> QED BY <5>2, <5>3, <5>4, Zenon
      <4> QED BY <3>3, <4>1 DEF Meeting!Pass
    <3> QED BY <2>1, <3>4, <3>5 DEF Places
  <2>4. ASSUME NEW p \in Ranks,
               Join(p) \/ Allgather(p) \/ Translate(p) \/ Reset(p) \/ Advance(p)
               \/ CopyIn(p) \/ CopyOut(p)
        PROVE  UNCHANGED Meeting!vars
    BY <2>4 DEF Join, Allgather, Translate, Reset, Advance, CopyIn, CopyOut,
                history, Meeting!vars
  <2>5. CASE Ended \/ UNCHANGED vars
    BY <2>5 DEF Ended, vars, history, Meeting!vars
  <2> QED BY <2>2, <2>3, <2>4, <2>5 DEF Next, Inside, Meeting!Next
<1> QED BY <1>1, <1>2, InitInv, NextInv, PTL DEF Spec, MeetingsHold, Meeting!Spec

-----------------------------------------------------------------------------
(* What the calls return *)

\* The contributions q has written, and the last of them.
Written(q) == IF \/ part[q] = "in" /\ pc[q] \in {"arrive", "reset", "advance"}
                 \/ part[q] = "out" /\ pc[q] # "app"
              THEN calls[q] + 1 ELSE calls[q]

Contribution(q, n) == IF n > 0 THEN <<q, n>> ELSE Nobody

\* The calls whose contributions p has copied out.
Got(p) == IF part[p] = "out" /\ pc[p] \in {"arrive", "reset", "advance"}
          THEN calls[p] + 1 ELSE calls[p]

\* What the n-th call returns.
Result(n) == [q \in Ranks |-> IF \E r \in Ranks : Slot(r) = q
                              THEN <<CHOOSE r \in Ranks : Slot(r) = q, n>>
                              ELSE Nobody]

\* Every slot holds the last contribution that goes there; a process has the
\* result of the last call it copied out.
ResultInv ==
    /\ DOMAIN slot = 0 .. Slot(NumProcs - 1)
    /\ \A q \in Ranks : slot[Slot(q)] = Contribution(q, Written(q))
    /\ \A i \in DOMAIN slot : (\A q \in Ranks : Slot(q) # i) => slot[i] = Nobody
    /\ DOMAIN received = Ranks
    /\ \A p \in Ranks : Got(p) > 0 => received[p] = Result(Got(p))
    /\ \A p \in Ranks : pc[p] = "down" => part[p] = "join"

\* A slot is that of one process.
LEMMA SlotFacts ==
    /\ \A q \in Ranks : Slot(q) \in 0 .. Slot(NumProcs - 1)
    /\ \A q, r \in Ranks : Slot(q) = Slot(r) => q = r
    /\ Ranks \subseteq 0 .. Slot(NumProcs - 1)
BY CountersAssumption DEF Slot, Ranks, SizeofDouble

\* Odd is not even.
LEMMA Parity ==
    ASSUME NEW a \in Nat, NEW b \in Nat, 2 * a + 2 \in {2 * b + 2, 2 * b + 3}
    PROVE  a = b
<1>1. 2 * a + 2 # 2 * b + 3
  OBVIOUS
<1>2. 2 * a + 2 = 2 * b + 2
  BY <1>1
<1> QED
  BY <1>2

\* When a process copies the contributions of its call out, everybody has written
\* its own, and nobody another one.
LEMMA EverybodyWrote ==
    ASSUME Inv, NEW p \in Ranks, Copies(p, "out"), NEW q \in Ranks
    PROVE  Written(q) = calls[p] + 1
<1> PICK r \in Nat : Barrier(r)
  BY DEF Inv
<1>1. TypeOK /\ Parts /\ Over(r) /\ Places(r)
  BY DEF Inv, Barrier
<1>2. /\ calls[p] \in Nat /\ calls[q] \in Nat
      /\ arrived[p] = r /\ arrived[p] = 2 * calls[p] + 2
  BY <1>1 DEF TypeOK, Places, Parts, Base, Closing, Copies
<1>3. ~Closing(q) /\ arrived[q] \in {r, r + 1}
  BY <1>1, <1>2 DEF Places, Over
<1>4. pc[q] \in {"down", "arrive", "copy"} => arrived[q] = r
  BY <1>1 DEF Places
<1>5. Base(q) = arrived[q]
  BY <1>3 DEF Base
<1>6. part[q] # "join"
  <2>1. r = 2 * calls[p] + 2 /\ r \in Nat
    BY <1>2
  <2>2. arrived[q] # 0 /\ arrived[q] # 1
    BY <1>2, <1>3, <2>1
  <2> QED
    BY <1>1, <1>5, <2>2 DEF Parts
<1>7. CASE part[q] = "in"
  <2>1. arrived[q] = 2 * calls[q] + 1
    BY <1>1, <1>5, <1>7 DEF Parts
  <2>2. calls[q] = calls[p] + 1 /\ arrived[q] = r + 1
    BY <1>2, <1>3, <2>1
  <2>3. pc[q] \notin {"arrive", "reset", "advance"}
    <3>1. arrived[q] # r
      BY <2>2
    <3> QED
      BY <1>3, <1>4, <3>1 DEF Closing
  <2> QED
    BY <1>7, <2>2, <2>3 DEF Written
<1>8. CASE part[q] = "out"
  <2>1. arrived[q] = IF pc[q] = "app" THEN 2 * calls[q] + 1 ELSE 2 * calls[q] + 2
    BY <1>1, <1>5, <1>8 DEF Parts
  <2>2. calls[q] = IF pc[q] = "app" THEN calls[p] + 1 ELSE calls[p]
    <3>1. CASE pc[q] = "app"
      BY <1>2, <1>3, <2>1, <3>1
    <3>2. CASE pc[q] # "app"
      <4>1. 2 * calls[q] + 2 \in {2 * calls[p] + 2, 2 * calls[p] + 3}
        BY <1>2, <1>3, <2>1, <3>2
      <4>4. calls[q] = calls[p]
        BY <1>2, <4>1, Parity
      <4> QED
        BY <3>2, <4>4
    <3> QED
      BY <3>1, <3>2
  <2> QED
    BY <1>8, <2>2 DEF Written
<1> QED
  BY <1>1, <1>6, <1>7, <1>8 DEF TypeOK

\* A contribution is written once, and copied out by each process once it is there.
LEMMA ResultStep == Inv /\ ResultInv /\ [Next]_vars => ResultInv'
<1> SUFFICES ASSUME Inv, ResultInv, [Next]_vars PROVE ResultInv'
  OBVIOUS
<1>1. TypeOK
  BY DEF Inv
<1>2. CASE UNCHANGED vars
  BY <1>2 DEF vars, memory, ResultInv, Written, Got
<1>3. ASSUME UNCHANGED <<slot, received>>, NEW p \in Ranks,
             Written(p)' = Written(p), Got(p)' = Got(p), pc'[p] = "down" => part'[p] = "join",
             \A q \in Ranks \ {p} : /\ pc'[q] = pc[q] /\ part'[q] = part[q]
                                    /\ calls'[q] = calls[q]
      PROVE  ResultInv'
  <2>1. \A q \in Ranks : Written(q)' = Written(q) /\ Got(q)' = Got(q)
    BY <1>3 DEF Written, Got
  <2> QED
    BY <1>3, <2>1 DEF ResultInv
<1>4. ASSUME NEW p \in Ranks, Arrived(p), pc[p] \in {"arrive", "advance"},
             UNCHANGED <<slot, received>>
      PROVE  ResultInv'
  <2>1. \A q \in Ranks \ {p} : /\ pc'[q] = pc[q] /\ part'[q] = part[q]
                               /\ calls'[q] = calls[q]
    BY <1>1, <1>4 DEF Arrived, Goto, TypeOK
  <2>2. pc'[p] # "down"
    BY <1>1, <1>4 DEF Arrived, Goto, TypeOK
  <2>3. Written(p)' = Written(p) /\ Got(p)' = Got(p)
    <3>1. CASE part[p] = "out"
      <4>1. pc'[p] = "app" /\ calls'[p] = calls[p] + 1 /\ part'[p] = "out"
        BY <1>1, <1>4, <3>1 DEF Arrived, Goto, TypeOK
      <4> QED
        BY <1>4, <3>1, <4>1 DEF Written, Got
    <3>2. CASE part[p] # "out"
      <4>1. /\ pc'[p] = "wait" /\ calls'[p] = calls[p]
            /\ part'[p] = IF part[p] = "in" THEN "out" ELSE part[p]
        BY <1>1, <1>4, <3>2 DEF Arrived, Goto, TypeOK
      <4> QED
        BY <1>4, <3>2, <4>1 DEF Written, Got
    <3> QED
      BY <3>1, <3>2
  <2> QED
    BY <1>3, <1>4, <2>1, <2>2, <2>3
<1>5. ASSUME NEW p \in Ranks, Join(p) PROVE ResultInv'
  <2>1. /\ UNCHANGED <<slot, received, part, calls>> /\ pc[p] = "down"
        /\ pc' = [pc EXCEPT ![p] = "arrive"] /\ part[p] = "join"
    BY <1>5 DEF Join, Goto, ResultInv
  <2> QED
    BY <1>1, <1>3, <2>1 DEF Written, Got, TypeOK
<1>6. ASSUME NEW p \in Ranks, Allgather(p) PROVE ResultInv'
  <2>1. /\ UNCHANGED <<slot, received, calls>> /\ pc[p] = "app"
        /\ pc' = [pc EXCEPT ![p] = "wait"] /\ part' = [part EXCEPT ![p] = "in"]
    BY <1>6 DEF Allgather, Goto, memory
  <2> QED
    BY <1>1, <1>3, <2>1 DEF Written, Got, TypeOK
<1>7. ASSUME NEW p \in Ranks, Translate(p) PROVE ResultInv'
  <2>1. /\ UNCHANGED <<slot, received, part, calls>> /\ pc[p] = "copy" /\ part[p] = "join"
        /\ pc' = [pc EXCEPT ![p] = "app"]
    BY <1>7 DEF Translate, Goto
  <2> QED
    BY <1>1, <1>3, <2>1 DEF Written, Got, TypeOK
<1>8. ASSUME NEW p \in Ranks, Reset(p) \/ Wait(p) PROVE ResultInv'
  <2>1. /\ UNCHANGED <<slot, received, part, calls>>
        /\ \/ pc[p] = "reset" /\ pc' = [pc EXCEPT ![p] = "advance"]
           \/ pc[p] = "wait" /\ pc' = [pc EXCEPT ![p] = "copy"]
    BY <1>8 DEF Reset, Wait, Goto, memory
  <2> QED
    BY <1>1, <1>3, <2>1 DEF Written, Got, TypeOK
<1>9. ASSUME NEW p \in Ranks, Advance(p) PROVE ResultInv'
  BY <1>4, <1>9 DEF Advance, memory
<1>10. ASSUME NEW p \in Ranks, Arrive(p) PROVE ResultInv'
  <2>1. CASE IsLast
    <3>1. /\ UNCHANGED <<slot, received, part, calls>> /\ pc[p] = "arrive"
          /\ pc' = [pc EXCEPT ![p] = "reset"]
      BY <1>10, <2>1 DEF Arrive, Goto, memory
    <3> QED
      BY <1>1, <1>3, <3>1 DEF Written, Got, TypeOK
  <2>2. CASE ~IsLast
    BY <1>4, <1>10, <2>2 DEF Arrive, memory
  <2> QED
    BY <2>1, <2>2
<1>11. ASSUME NEW p \in Ranks, CopyIn(p) PROVE ResultInv'
  <2>1. /\ pc[p] = "copy" /\ part[p] = "in" /\ UNCHANGED <<part, received, calls>>
        /\ slot' = [slot EXCEPT ![Slot(p)] = <<p, calls[p] + 1>>]
        /\ pc' = [pc EXCEPT ![p] = "arrive"]
    BY <1>11 DEF CopyIn, Goto
  <2>2. /\ Written(p)' = calls[p] + 1
        /\ \A q \in Ranks \ {p} : Written(q)' = Written(q)
        /\ \A q \in Ranks : Got(q)' = Got(q)
    BY <1>1, <2>1 DEF Written, Got, TypeOK
  <2>3. calls[p] + 1 > 0
    BY <1>1 DEF TypeOK
  <2>4. \A q \in Ranks : slot'[Slot(q)] = Contribution(q, Written(q)')
    BY <2>1, <2>2, <2>3, SlotFacts DEF ResultInv, Contribution
  <2>5. \A i \in DOMAIN slot' : (\A q \in Ranks : Slot(q) # i) => slot'[i] = Nobody
    BY <2>1 DEF ResultInv
  <2>6. \A q \in Ranks : pc'[q] = "down" => part'[q] = "join"
    BY <1>1, <2>1 DEF ResultInv, TypeOK
  <2> QED
    BY <2>1, <2>2, <2>4, <2>5, <2>6 DEF ResultInv
<1>12. ASSUME NEW p \in Ranks, CopyOut(p) PROVE ResultInv'
  <2>1. /\ pc[p] = "copy" /\ part[p] = "out" /\ UNCHANGED <<part, slot, calls>>
        /\ received' = [received EXCEPT ![p] = [q \in Ranks |-> slot[q]]]
        /\ pc' = [pc EXCEPT ![p] = "arrive"]
    BY <1>12 DEF CopyOut, Goto
  <2>2. /\ \A q \in Ranks : Written(q)' = Written(q)
        /\ Got(p)' = calls[p] + 1
        /\ \A q \in Ranks \ {p} : Got(q)' = Got(q)
    BY <1>1, <2>1 DEF Written, Got, TypeOK
  <2>3. received'[p] = Result(calls[p] + 1)
    <3>1. \A q \in Ranks : Written(q) = calls[p] + 1
      BY <2>1, EverybodyWrote DEF Copies
    <3>2. calls[p] + 1 > 0
      BY <1>1 DEF TypeOK
    <3>3. ASSUME NEW q \in Ranks, NEW r \in Ranks, Slot(r) = q
          PROVE  slot[q] = <<CHOOSE s \in Ranks : Slot(s) = q, calls[p] + 1>>
      <4>1. r = CHOOSE s \in Ranks : Slot(s) = q
        BY <3>3, SlotFacts
      <4>2. slot[q] = <<r, calls[p] + 1>>
        BY <3>1, <3>2, <3>3 DEF ResultInv, Contribution
      <4> QED
        BY <4>1, <4>2
    <3>4. \A q \in Ranks : (\A r \in Ranks : Slot(r) # q) => slot[q] = Nobody
      BY SlotFacts DEF ResultInv
    <3>5. received'[p] = [q \in Ranks |-> slot[q]]
      BY <2>1 DEF ResultInv
    <3>6. ASSUME NEW q \in Ranks
          PROVE  slot[q] = IF \E r \in Ranks : Slot(r) = q
                           THEN <<CHOOSE r \in Ranks : Slot(r) = q, calls[p] + 1>>
                           ELSE Nobody
      <4>1. CASE \E r \in Ranks : Slot(r) = q
        <5>1. PICK r \in Ranks : Slot(r) = q
          BY <4>1
        <5>2. slot[q] = <<CHOOSE s \in Ranks : Slot(s) = q, calls[p] + 1>>
          BY <3>3, <5>1
        <5> QED
          BY <4>1, <5>2, Zenon
      <4>2. CASE ~ \E r \in Ranks : Slot(r) = q
        <5>1. slot[q] = Nobody
          BY <3>4, <4>2
        <5> QED
          BY <4>2, <5>1, Zenon
      <4> QED
        BY <4>1, <4>2
    <3> QED
      BY <3>5, <3>6, Zenon DEF Result
  <2>4. \A q \in Ranks \ {p} : received'[q] = received[q]
    BY <2>1 DEF ResultInv
  <2>5. \A q \in Ranks : pc'[q] = "down" => part'[q] = "join"
    BY <1>1, <2>1 DEF ResultInv, TypeOK
  <2> QED
    BY <2>1, <2>2, <2>3, <2>4, <2>5 DEF ResultInv
<1> QED
  BY <1>2, <1>5, <1>6, <1>7, <1>8, <1>9, <1>10, <1>11, <1>12 DEF Next, Inside, Ended

\* ResultOfThisCall: a call returns what was contributed to it, to no other call,
\* and the same to everybody, for any number of processes and calls: nobody
\* copies out before everybody has written, and nobody writes again before
\* everybody has copied out (module_shm.c:362-376).
THEOREM CallsAnswered == Spec => []ResultOfThisCall
<1>1. Init => ResultInv
  <2> SUFFICES ASSUME Init PROVE ResultInv
    OBVIOUS
  <2>1. \A q \in Ranks : Written(q) = 0 /\ Got(q) = 0
    BY DEF Init, Written, Got
  <2> QED
    BY <2>1, SlotFacts DEF Init, ResultInv, Contribution
<1>2. Inv /\ ResultInv => ResultOfThisCall
  <2> SUFFICES ASSUME Inv, ResultInv, NEW p \in Ranks, NEW q \in Ranks,
                      pc[p] = "app", calls[p] > 0
               PROVE  received[p][q] = Result(calls[p])[q]
    BY DEF ResultOfThisCall, Result
  <2> QED
    BY DEF ResultInv, Got
<1> QED
  BY <1>1, <1>2, InitInv, NextInv, ResultStep, PTL DEF Spec
=============================================================================
