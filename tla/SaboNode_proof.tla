--------------------------- MODULE SaboNode_proof ---------------------------
(***************************************************************************)
(* The processes of a node, for any number of processes, sockets, cores    *)
(* and calls and any window.                                               *)
(*                                                                         *)
(* Protocol: processes that took the same decisions agree on the whole     *)
(* node, because a round is a function of a team and of a table of times,  *)
(* whatever it computes (Inv); exchanges match because the processes skip  *)
(* the same calls (StepInv).                                               *)
(* Shares: the dispatch adds one thread at a time, which keeps what the    *)
(* quotients have (Proper, Follows) and ends when the node is covered.     *)
(* Adjustment: a pass serves everybody on a socket and is started by a     *)
(* single core (Tight).                                                    *)
(* Search: what is fed to it is a demand, so that it finds what            *)
(* Placement_proof says.                                                   *)
(* Loss: shares that fill the node can be placed, and a best placement     *)
(* can be adjusted, or one process would be better off elsewhere.          *)
(* Binding: where the threads of a process are, from one rebalancing to    *)
(* the next (Bound), and that rows of different processes are apart.       *)
(***************************************************************************)
EXTENDS SaboNode, MCRound, Placement_proof

InitialTeam == [q \in Ranks |-> [threads |-> OmpNumThreads, prevThreads |-> -1,
                                 socket |-> Unset, prevSocket |-> Unset]]

\* The team a process held after the first k rounds of its history.
View(history, k) == IF k = 0 THEN InitialTeam ELSE history[k].team

\* What everybody contributed to the k-th exchange of times.
Exchanged(k) == [q \in Ranks |-> posted[q][2 * k - 1]]

NextView(view, moved, table) == IF moved THEN Round(view, table).team ELSE view

\* Every function keeps its domain, every list is a list; the values of the
\* teams are left open.
Shape == /\ pc \in [Ranks -> {"app", "gather_elapsed", "gather_threads",
                              "decide"} \cup Lost]
         /\ step \in [Ranks -> Nat]
         /\ posted = [p \in Ranks |-> posted[p]]
         /\ elapsed = [p \in Ranks |-> elapsed[p]]
         /\ team = [p \in Ranks |-> team[p]]
         /\ hist = [p \in Ranks |-> hist[p]]
         /\ \A p \in Ranks : \E S : posted[p] \in Seq(S)
         /\ \A p \in Ranks : \E S : hist[p] \in Seq(S)

\* Two contributions per round, and where in a round each process is.
Counting ==
    \A p \in Ranks :
        /\ pc[p] = "app" => Len(posted[p]) = 2 * Rounds(p)
        /\ pc[p] = "gather_elapsed" => Len(posted[p]) = 2 * Rounds(p) + 1
        /\ pc[p] \in {"gather_threads", "decide"} \cup Lost
             => Len(posted[p]) = 2 * Rounds(p) + 2

\* Everybody has contributed to the exchanges p has been through, the present
\* one included, and p's table is what was contributed to the present one.
Gathering ==
    \A p \in Ranks :
        /\ \A k \in 1 .. Rounds(p) : Complete(2 * k - 1)
        /\ pc[p] \in {"gather_threads", "decide"} \cup Lost
             => /\ Complete(2 * Rounds(p) + 1)
                /\ elapsed[p] = Exchanged(Rounds(p) + 1)

\* A history is a run of the same function over the same exchanges.
Replay ==
    \A p \in Ranks :
        /\ team[p] = View(hist[p], Rounds(p))
        /\ \A k \in 1 .. Rounds(p) :
              View(hist[p], k) =
                NextView(View(hist[p], k - 1), hist[p][k].moved, Exchanged(k))

Inv == Shape /\ Counting /\ Gathering /\ Replay /\ ReplicasAgree

USE DEF Rounds

-----------------------------------------------------------------------------
\* Facts about lists: appending keeps the elements and adds one.
LEMMA AppendFacts ==
    ASSUME NEW S, NEW s \in Seq(S), NEW e
    PROVE  /\ \E T : Append(s, e) \in Seq(T)
           /\ Len(Append(s, e)) = Len(s) + 1
           /\ Append(s, e)[Len(s) + 1] = e
           /\ \A i \in 1 .. Len(s) : Append(s, e)[i] = s[i]
           /\ Len(s) \in Nat
<1> DEFINE T == S \cup {e}
<1>1. s \in Seq(T) /\ e \in T
  OBVIOUS
<1>2. Append(s, e) \in Seq(T)
  BY <1>1
<1> QED
  BY <1>1, <1>2

\* Nothing has been exchanged, and nobody has decided anything.
LEMMA InitInv == Init => Inv
<1> SUFFICES ASSUME Init PROVE Inv
  OBVIOUS
<1> USE DEF Init
<1>1. Shape
  <2>1. \A p \in Ranks : posted[p] \in Seq({}) /\ hist[p] \in Seq({})
    OBVIOUS
  <2> QED
    BY <2>1 DEF Shape
<1>2. Counting /\ Gathering
  BY DEF Counting, Gathering, Lost
<1>3. Replay
  BY DEF Replay, View, InitialTeam
<1>4. ReplicasAgree
  BY DEF ReplicasAgree
<1> QED
  BY <1>1, <1>2, <1>3, <1>4 DEF Inv

-----------------------------------------------------------------------------
\* A decision that does not end in the application loses the process.
LEMMA OutcomeIsLost == \A p \in Ranks : Outcome(p) # "app" => Outcome(p) \in Lost
<1> SUFFICES ASSUME NEW p \in Ranks
             PROVE  Round(team[p], elapsed[p]).end \in {"app"} \cup Lost
  BY DEF Outcome, Lost
<1> QED
  BY DEF Round, Lost

\* A step that adds nothing to any list: only where a process is, and its
\* local times, may change.
LEMMA QuietStep ==
    ASSUME NEW p \in Ranks, Inv,
           Work(p) \/ SkipCall(p) \/ GatherThreads(p) \/ Fail(p)
    PROVE  Inv'
<1> USE DEF Inv
<1>1. UNCHANGED <<posted, team, hist>>
  BY DEF Work, SkipCall, GatherThreads, Fail
<1>2. /\ pc' \in [Ranks -> {"app", "gather_elapsed", "gather_threads", "decide"}
                          \cup Lost]
      /\ step' \in [Ranks -> Nat]
      /\ elapsed' = [q \in Ranks |-> elapsed'[q]]
  <2>1. CASE Work(p)
    BY <2>1 DEF Work, Shape
  <2>2. CASE SkipCall(p)
    <3>1. step[p] + 1 \in Nat /\ pc' = [pc EXCEPT ![p] = "app"]
          /\ step' = [step EXCEPT ![p] = step[p] + 1]
          /\ elapsed' = [elapsed EXCEPT ![p][p] = Gathered(p)]
      BY <2>2 DEF SkipCall, Shape, Leave
    <3> QED
      BY <3>1 DEF Shape
  <2>3. CASE GatherThreads(p)
    BY <2>3 DEF GatherThreads, Shape
  <2>4. CASE Fail(p)
    BY <2>4, OutcomeIsLost DEF Fail, Shape
  <2> QED
    BY <2>1, <2>2, <2>3, <2>4
<1>3. Shape'
  BY <1>1, <1>2 DEF Shape
<1>4. \A q \in Ranks \ {p} : pc'[q] = pc[q] /\ elapsed'[q] = elapsed[q]
  BY DEF Work, SkipCall, GatherThreads, Fail, Leave, Shape
<1>5. \/ pc'[p] = "app" /\ pc[p] = "app"
      \/ /\ pc[p] \in {"gather_threads", "decide"}
         /\ pc'[p] \in {"decide"} \cup Lost
         /\ elapsed'[p] = elapsed[p]
  <2>1. CASE Work(p) \/ SkipCall(p)
    BY <2>1 DEF Work, SkipCall, Leave, Shape
  <2>2. CASE GatherThreads(p)
    BY <2>2 DEF GatherThreads, Shape
  <2>3. CASE Fail(p)
    BY <2>3, OutcomeIsLost DEF Fail, Shape
  <2> QED
    BY <2>1, <2>2, <2>3
<1>6. Counting'
  BY <1>1, <1>4, <1>5 DEF Counting, Lost
<1>7. Gathering'
  BY <1>1, <1>4, <1>5 DEF Gathering, Lost, Complete, Exchanged
<1>8. Replay'
  <2>1. \A k : Exchanged(k)' = Exchanged(k)
    BY <1>1 DEF Exchanged
  <2> QED
    BY <1>1, <2>1 DEF Replay
<1>9. ReplicasAgree'
  BY <1>1 DEF ReplicasAgree, SameDecisions
<1> QED
  BY <1>3, <1>6, <1>7, <1>8, <1>9

\* A step that appends one contribution of p.  What was exchanged before is
\* untouched, and everybody's contributions to it were already there.
LEMMA ContributeStep ==
    ASSUME NEW p \in Ranks, Inv, EnterRound(p) \/ GatherElapsed(p)
    PROVE  Inv'
<1> USE DEF Inv
<1>1. UNCHANGED <<team, hist>>
  BY DEF EnterRound, GatherElapsed
<1>2. PICK value : posted' = [posted EXCEPT ![p] = Append(posted[p], value)]
  BY DEF EnterRound, GatherElapsed, Contribute
<1>3. /\ \E S : posted'[p] \in Seq(S)
      /\ Len(posted[p]) \in Nat
      /\ Len(posted'[p]) = Len(posted[p]) + 1
      /\ \A i \in 1 .. Len(posted[p]) : posted'[p][i] = posted[p][i]
  <2>1. PICK S : posted[p] \in Seq(S)
    BY DEF Shape
  <2>2. posted'[p] = Append(posted[p], value)
    BY <1>2 DEF Shape
  <2>3. /\ \E T : Append(posted[p], value) \in Seq(T)
        /\ Len(posted[p]) \in Nat
        /\ Len(Append(posted[p], value)) = Len(posted[p]) + 1
        /\ \A i \in 1 .. Len(posted[p]) :
               Append(posted[p], value)[i] = posted[p][i]
    BY <2>1, AppendFacts, ZenonT(30)
  <2> QED
    BY <2>2, <2>3, Zenon
<1>4. \A q \in Ranks \ {p} : posted'[q] = posted[q]
  BY <1>2 DEF Shape
<1>5. \A q \in Ranks : Len(posted[q]) \in Nat /\ Rounds(q) \in Nat
  BY DEF Shape
<1>6. \A n \in Nat : Complete(n) => Complete(n)'
  BY <1>3, <1>4, <1>5 DEF Complete
<1>7. \A k \in Nat \ {0} : Complete(2 * k - 1) => Exchanged(k)' = Exchanged(k)
  BY <1>3, <1>4, <1>5, SMTT(20) DEF Complete, Exchanged
<1>8. /\ \A q \in Ranks \ {p} : pc'[q] = pc[q] /\ elapsed'[q] = elapsed[q]
      /\ \/ pc[p] = "app" /\ pc'[p] = "gather_elapsed"
         \/ /\ pc[p] = "gather_elapsed" /\ pc'[p] = "gather_threads"
            /\ Complete(Len(posted[p]))
            /\ elapsed'[p] = [q \in Ranks |-> posted[q][Len(posted[p])]]
  BY DEF EnterRound, GatherElapsed, Shape
<1>9. Shape'
  <2>1. /\ pc' \in [Ranks -> {"app", "gather_elapsed", "gather_threads", "decide"}
                             \cup Lost]
        /\ step' \in [Ranks -> Nat]
        /\ elapsed' = [q \in Ranks |-> elapsed'[q]]
        /\ posted' = [q \in Ranks |-> posted'[q]]
    BY <1>2 DEF EnterRound, GatherElapsed, Shape
  <2> QED
    BY <1>1, <1>3, <1>4, <2>1 DEF Shape
<1>10. Counting'
  <2>1. ASSUME NEW q \in Ranks \ {p} PROVE Len(posted'[q]) = Len(posted[q])
                                          /\ pc'[q] = pc[q] /\ hist'[q] = hist[q]
    BY <1>1, <1>4, <1>8
  <2>2. \/ pc'[p] = "gather_elapsed" /\ Len(posted'[p]) = 2 * Len(hist'[p]) + 1
        \/ pc'[p] = "gather_threads" /\ Len(posted'[p]) = 2 * Len(hist'[p]) + 2
    <3>1. CASE pc[p] = "app" /\ pc'[p] = "gather_elapsed"
      BY <3>1, <1>1, <1>3, <1>5 DEF Counting
    <3>2. CASE pc[p] = "gather_elapsed" /\ pc'[p] = "gather_threads"
      <4>1. Len(posted[p]) = 2 * Len(hist[p]) + 1 /\ Len(hist[p]) \in Nat
        BY <3>2, <1>5 DEF Counting
      <4> QED
        BY <4>1, <3>2, <1>1, <1>3
    <3> QED
      BY <3>1, <3>2, <1>8
  <2> QED
    BY <2>1, <2>2 DEF Counting, Lost
<1>11. Gathering'
  <2>1. \A q \in Ranks : \A k \in 1 .. Rounds(q) : Complete(2 * k - 1)'
    BY <1>5, <1>6 DEF Gathering
  <2>2. ASSUME NEW q \in Ranks,
               pc'[q] \in {"gather_threads", "decide"} \cup Lost
        PROVE  /\ Complete(2 * Rounds(q) + 1)'
               /\ elapsed'[q] = Exchanged(Rounds(q) + 1)'
    <3>1. Complete(2 * Rounds(q) + 1)
          /\ elapsed'[q] = Exchanged(Rounds(q) + 1)
      <4>1. CASE q # p
        BY <2>2, <4>1, <1>8 DEF Gathering
      <4>2. CASE q = p
        <5>1. pc[p] = "gather_elapsed" /\ Len(posted[p]) = 2 * Rounds(p) + 1
          BY <2>2, <4>2, <1>8 DEF Counting, Lost
        <5>2. 2 * (Rounds(p) + 1) - 1 = Len(posted[p])
          BY <5>1, <1>5
        <5> QED
          BY <5>1, <5>2, <4>2, <1>8 DEF Exchanged
      <4> QED
        BY <4>1, <4>2
    <3>2. 2 * Rounds(q) + 1 = 2 * (Rounds(q) + 1) - 1 /\ Rounds(q) + 1 \in Nat \ {0}
          /\ 2 * Rounds(q) + 1 \in Nat
      BY <1>5
    <3>3. /\ Complete(2 * Rounds(q) + 1)'
          /\ Exchanged(Rounds(q) + 1)' = Exchanged(Rounds(q) + 1)
      BY <3>1, <3>2, <1>1, <1>6, <1>7
    <3> QED
      BY <3>1, <3>3
  <2> QED
    BY <1>1, <2>1, <2>2 DEF Gathering
<1>12. Replay'
  <2>1. \A q \in Ranks : \A k \in 1 .. Rounds(q) : Exchanged(k)' = Exchanged(k)
    BY <1>5, <1>7 DEF Gathering
  <2> QED
    BY <1>1, <2>1 DEF Replay
<1>13. ReplicasAgree'
  BY <1>1 DEF ReplicasAgree, SameDecisions
<1> QED
  BY <1>9, <1>10, <1>11, <1>12, <1>13

\* A step that ends a round of p: its history grows by the decision and by the
\* team that follows from it.  Anybody who took the same decision in the same
\* round started from the same team and the same table.
LEMMA DecideStep ==
    ASSUME NEW p \in Ranks, Inv, Cancel(p) \/ Rebalance(p)
    PROVE  Inv'
<1> USE DEF Inv
<1> DEFINE R == Rounds(p)
<1>1. /\ UNCHANGED <<posted, elapsed>>
      /\ pc[p] = "decide"
      /\ pc' = [pc EXCEPT ![p] = "app"]
      /\ step' = [step EXCEPT ![p] = step[p] + 1]
  BY DEF Cancel, Rebalance, Leave
<1>2. PICK moved \in BOOLEAN :
        LET new == NextView(team[p], moved, elapsed[p])
        IN  /\ team' = [team EXCEPT ![p] = new]
            /\ hist' = [hist EXCEPT ![p] = Append(hist[p],
                                            [moved |-> moved, team |-> new])]
  <2>1. CASE Cancel(p)
    <3>1. team' = [team EXCEPT ![p] = NextView(team[p], FALSE, elapsed[p])]
      BY <2>1 DEF Cancel, NextView, Shape
    <3>2. hist' = [hist EXCEPT ![p] = Append(hist[p],
                     [moved |-> FALSE, team |-> NextView(team[p], FALSE, elapsed[p])])]
      BY <2>1 DEF Cancel, NextView
    <3> QED
      BY <3>1, <3>2
  <2>2. CASE Rebalance(p)
    <3>1. team' = [team EXCEPT ![p] = NextView(team[p], TRUE, elapsed[p])]
      BY <2>2 DEF Rebalance, NextView
    <3>2. hist' = [hist EXCEPT ![p] = Append(hist[p],
                     [moved |-> TRUE, team |-> NextView(team[p], TRUE, elapsed[p])])]
      BY <2>2 DEF Rebalance, NextView
    <3> QED
      BY <3>1, <3>2
  <2> QED
    BY <2>1, <2>2
<1> DEFINE new == NextView(team[p], moved, elapsed[p])
           entry == [moved |-> moved, team |-> new]
<1>3. /\ hist'[p] = Append(hist[p], entry)
      /\ team'[p] = new
      /\ \A q \in Ranks \ {p} : hist'[q] = hist[q] /\ team'[q] = team[q]
  BY <1>2 DEF Shape
<1>4. /\ \E S : hist'[p] \in Seq(S)
      /\ R \in Nat
      /\ Len(hist'[p]) = R + 1
      /\ hist'[p][R + 1] = entry
      /\ \A k \in 1 .. R : hist'[p][k] = hist[p][k]
  <2>1. PICK S : hist[p] \in Seq(S)
    BY DEF Shape
  <2> HIDE DEF entry
  <2>2. /\ \E T : Append(hist[p], entry) \in Seq(T)
        /\ Len(hist[p]) \in Nat
        /\ Len(Append(hist[p], entry)) = Len(hist[p]) + 1
        /\ Append(hist[p], entry)[Len(hist[p]) + 1] = entry
        /\ \A k \in 1 .. Len(hist[p]) : Append(hist[p], entry)[k] = hist[p][k]
    BY <2>1, AppendFacts, ZenonT(30)
  <2> QED
    BY <1>3, <2>2, Zenon
<1>5. \A q \in Ranks : Rounds(q) \in Nat
  BY DEF Shape
<1>6. Shape'
  <2>1. pc' \in [Ranks -> {"app", "gather_elapsed", "gather_threads", "decide"}
                           \cup Lost]
        /\ step' \in [Ranks -> Nat]
    BY <1>1 DEF Shape
  <2>2. team' = [q \in Ranks |-> team'[q]] /\ hist' = [q \in Ranks |-> hist'[q]]
    BY <1>2 DEF Shape
  <2>3. \A q \in Ranks : \E S : hist'[q] \in Seq(S)
    BY <1>3, <1>4 DEF Shape
  <2> QED
    BY <1>1, <2>1, <2>2, <2>3 DEF Shape
<1>7. Len(posted[p]) = 2 * R + 2 /\ Complete(2 * R + 1) /\ elapsed[p] = Exchanged(R + 1)
  BY <1>1 DEF Counting, Gathering
<1>8. Counting'
  <2>1. ASSUME NEW q \in Ranks \ {p} PROVE pc'[q] = pc[q] /\ hist'[q] = hist[q]
    BY <1>1, <1>3 DEF Shape
  <2>2. pc'[p] = "app" /\ Len(posted'[p]) = 2 * Len(hist'[p])
    BY <1>1, <1>4, <1>7 DEF Shape
  <2> QED
    BY <1>1, <2>1, <2>2 DEF Counting, Lost
<1>9. \A n : Complete(n)' = Complete(n) /\ Exchanged(n)' = Exchanged(n)
  BY <1>1 DEF Complete, Exchanged
<1>10. Gathering'
  <2>1. ASSUME NEW q \in Ranks \ {p}
        PROVE  pc'[q] = pc[q] /\ hist'[q] = hist[q] /\ elapsed'[q] = elapsed[q]
    BY <1>1, <1>3 DEF Shape
  <2>2. pc'[p] = "app"
    BY <1>1 DEF Shape
  <2>3. \A k \in 1 .. Len(hist'[p]) : Complete(2 * k - 1)
    <3>1. \A k \in 1 .. R : Complete(2 * k - 1)
      BY DEF Gathering
    <3>2. 2 * (R + 1) - 1 = 2 * R + 1
      BY <1>4
    <3> QED
      <4>1. ASSUME NEW k \in 1 .. Len(hist'[p]) PROVE Complete(2 * k - 1)
        <5>1. CASE k \in 1 .. R
          BY <5>1, <3>1
        <5>2. CASE k = R + 1
          BY <5>2, <3>2, <1>7
        <5> QED
          BY <5>1, <5>2, <1>4
      <4> QED
        BY <4>1
  <2> QED
    BY <1>9, <2>1, <2>2, <2>3 DEF Gathering, Lost
<1>11. /\ \A k \in 0 .. R : View(hist'[p], k) = View(hist[p], k)
       /\ View(hist'[p], R + 1) = new
  BY <1>4 DEF View
<1>12. new = NextView(View(hist[p], R), moved, Exchanged(R + 1))
  BY <1>7 DEF Replay
<1>13. Replay'
  <2>1. ASSUME NEW q \in Ranks \ {p}
        PROVE  /\ team'[q] = View(hist'[q], Len(hist'[q]))
               /\ \A k \in 1 .. Len(hist'[q]) :
                    View(hist'[q], k) = NextView(View(hist'[q], k - 1),
                                          hist'[q][k].moved, Exchanged(k)')
    BY <1>3, <1>9 DEF Replay
  <2>2. team'[p] = View(hist'[p], Len(hist'[p]))
    BY <1>3, <1>4, <1>11
  <2>3. ASSUME NEW k \in 1 .. Len(hist'[p])
        PROVE  View(hist'[p], k) = NextView(View(hist'[p], k - 1),
                                     hist'[p][k].moved, Exchanged(k)')
    <3> HIDE DEF new
    <3>1. CASE k \in 1 .. R
      <4>1. View(hist[p], k) =
                NextView(View(hist[p], k - 1), hist[p][k].moved, Exchanged(k))
        BY <3>1 DEF Replay
      <4>2. k \in 0 .. R /\ k - 1 \in 0 .. R
        BY <3>1, <1>4
      <4> QED
        BY <3>1, <4>1, <4>2, <1>4, <1>9, <1>11
    <3>2. CASE k = R + 1
      <4>1. k - 1 = R /\ R \in 0 .. R /\ hist'[p][k].moved = moved
        BY <3>2, <1>4
      <4> QED
        BY <3>2, <4>1, <1>9, <1>11, <1>12
    <3> QED
      BY <1>4, <3>1, <3>2
  <2> QED
    BY <2>1, <2>2, <2>3 DEF Replay
<1>14. ReplicasAgree'
  <2> HIDE DEF new, entry
  \* What p has just decided, against what q decided in the same round.
  <2>1. ASSUME NEW q \in Ranks \ {p}, R + 1 <= Rounds(q),
               \A j \in 1 .. R + 1 : hist'[p][j].moved = hist[q][j].moved
        PROVE  hist[q][R + 1].team = new
    <3>1. View(hist[p], R) = View(hist[q], R)
      <4>1. CASE R = 0
        BY <4>1 DEF View
      <4>2. CASE R > 0
        <5>1. R \in 1 .. R /\ R <= Rounds(q)
          BY <4>2, <2>1, <1>4
        <5>2. \A j \in 1 .. R : j \in 1 .. R + 1
          BY <1>4
        <5>3. ASSUME NEW j \in 1 .. R
              PROVE  hist[p][j].moved = hist[q][j].moved
          <6>1. hist'[p][j] = hist[p][j]
            BY <1>4
          <6>2. hist'[p][j].moved = hist[q][j].moved
            BY <5>2, <2>1
          <6> QED
            BY <6>1, <6>2
        <5>4. SameDecisions(p, q, R)
          BY <5>3 DEF SameDecisions
        <5> QED
          BY <5>1, <5>4, <4>2 DEF ReplicasAgree, View
      <4> QED
        BY <4>1, <4>2, <1>4
    <3>2. hist[q][R + 1].moved = moved
      BY <2>1, <1>4 DEF entry
    <3>3. R + 1 \in 1 .. Rounds(q) /\ R + 1 - 1 = R /\ R + 1 # 0
      BY <2>1, <1>4, <1>5
    <3>4. View(hist[q], R + 1) =
            NextView(View(hist[q], R + 1 - 1), hist[q][R + 1].moved, Exchanged(R + 1))
      BY <3>3 DEF Replay
    <3> QED
      BY <3>1, <3>2, <3>3, <3>4, <1>12 DEF View
  <2>2. ASSUME NEW q \in Ranks \ {p}, NEW k \in 1 .. R + 1, k <= Rounds(q),
               \A j \in 1 .. k : hist'[p][j].moved = hist[q][j].moved
        PROVE  hist[q][k].team = hist'[p][k].team
    <3>1. CASE k = R + 1
      BY <3>1, <2>1, <2>2, <1>4 DEF entry
    <3>2. CASE k # R + 1
      <4>1. k \in 1 .. R /\ \A j \in 1 .. k : hist'[p][j] = hist[p][j]
        BY <3>2, <1>4
      <4>2. SameDecisions(p, q, k)
        BY <4>1, <2>2 DEF SameDecisions
      <4> QED
        BY <4>1, <4>2, <2>2 DEF ReplicasAgree
    <3> QED
      BY <3>1, <3>2
  <2>3. ASSUME NEW q \in Ranks, NEW r \in Ranks, NEW k \in 1 .. Len(hist'[q]),
               k <= Len(hist'[r]),
               \A j \in 1 .. k : hist'[q][j].moved = hist'[r][j].moved
        PROVE  hist'[q][k].team = hist'[r][k].team
    <3>1. CASE q = r
      BY <3>1
    <3>2. CASE q # p /\ r # p
      <4>1. hist'[q] = hist[q] /\ hist'[r] = hist[r]
        BY <3>2, <1>3
      <4>2. k \in 1 .. Rounds(q) /\ k <= Rounds(r) /\ SameDecisions(q, r, k)
        BY <4>1, <2>3 DEF SameDecisions
      <4> QED
        BY <4>1, <4>2 DEF ReplicasAgree
    <3>3. CASE q = p /\ r # p
      <4>1. k \in 1 .. R + 1 /\ k <= Rounds(r) /\ hist'[r] = hist[r]
        BY <3>3, <2>3, <1>3, <1>4, <1>5
      <4>2. \A j \in 1 .. k : hist'[p][j].moved = hist[r][j].moved
        BY <3>3, <4>1, <2>3
      <4> QED
        BY <3>3, <4>1, <4>2, <2>2
    <3>4. CASE q # p /\ r = p
      <4>1. k \in 1 .. R + 1 /\ k <= Rounds(q) /\ hist'[q] = hist[q]
        BY <3>4, <2>3, <1>3, <1>4, <1>5
      <4> QED
        BY <3>4, <4>1, <2>3, <2>2
    <3> QED
      BY <3>1, <3>2, <3>3, <3>4
  <2> QED
    BY <2>3 DEF ReplicasAgree, SameDecisions
<1> QED
  BY <1>6, <1>8, <1>10, <1>13, <1>14

\* Every step is quiet, a contribution or a decision.
LEMMA NextInv == Inv /\ [Next]_vars => Inv'
<1> SUFFICES ASSUME Inv, [Next]_vars PROVE Inv'
  OBVIOUS
<1>1. ASSUME NEW p \in Ranks, Work(p) \/ Call(p) PROVE Inv'
  BY <1>1, QuietStep, ContributeStep, DecideStep DEF Call
<1>2. CASE UNCHANGED vars
  <2>1. UNCHANGED <<pc, step, elapsed, posted, team, hist>>
    BY <1>2 DEF vars
  <2>2. Shape' /\ Counting' /\ ReplicasAgree'
    BY <2>1 DEF Inv, Shape, Counting, ReplicasAgree, SameDecisions
  <2>3. \A n : Complete(n)' = Complete(n) /\ Exchanged(n)' = Exchanged(n)
    BY <2>1 DEF Complete, Exchanged
  <2>4. Gathering' /\ Replay'
    BY <2>1, <2>3 DEF Inv, Gathering, Replay
  <2> QED
    BY <2>2, <2>4 DEF Inv
<1> QED
  BY <1>1, <1>2 DEF Next, Stop

\* Processes that took the same decisions hold the same view of the node, for
\* every number of processes and of rounds (core/sabo.c: no process ever sends
\* the others what it decided).
THEOREM Agreement == Spec => []ReplicasAgree
<1>1. Inv => ReplicasAgree
  BY DEF Inv
<1> QED
  BY <1>1, InitInv, NextInv, PTL DEF Spec

-----------------------------------------------------------------------------
\* The odd contributions of a process are windows of times, the even ones the
\* garbage of the second allgather.
OddContributions ==
    \A p \in Ranks : \A k \in Nat \ {0} :
        2 * k - 1 <= Len(posted[p]) => posted[p][2 * k - 1] \in [Steps -> Nat]

TypeInv == Inv /\ ControlOK /\ OddContributions

\* What a process gathers is a window of times.
LEMMA GatheredType == ASSUME NEW p \in Ranks, ControlOK
                      PROVE  Gathered(p) \in [Steps -> Nat]
BY DEF ControlOK, Gathered, Tables

\* So is what it contributes to the first exchange of a round, and finds there.
LEMMA ContributionType ==
    ASSUME NEW p \in Ranks, TypeInv, NEW value \in [Steps -> Nat] \cup {Garbage},
           posted' = [posted EXCEPT ![p] = Append(posted[p], value)],
           \A k \in Nat : Len(posted[p]) = 2 * k => value \in [Steps -> Nat]
    PROVE  /\ posted' \in [Ranks -> Seq([Steps -> Nat] \cup {Garbage})]
           /\ OddContributions'
<1> USE DEF TypeInv
<1> DEFINE S == [Steps -> Nat] \cup {Garbage}
<1>1. posted \in [Ranks -> Seq(S)]
  BY DEF ControlOK
<1> HIDE DEF S
<1>2. value \in S
  BY DEF S
<1>3. posted' \in [Ranks -> Seq(S)]
  BY <1>1, <1>2
<1>4. ASSUME NEW q \in Ranks, NEW k \in Nat \ {0}, 2 * k - 1 <= Len(posted'[q])
      PROVE  posted'[q][2 * k - 1] \in [Steps -> Nat]
  <2>1. CASE q # p
    BY <2>1, <1>1, <1>4 DEF OddContributions
  <2>2. CASE q = p
    <3>1. /\ posted'[p] = Append(posted[p], value)
          /\ Len(posted[p]) \in Nat
          /\ Len(posted'[p]) = Len(posted[p]) + 1
          /\ posted'[p][Len(posted[p]) + 1] = value
          /\ \A i \in 1 .. Len(posted[p]) : posted'[p][i] = posted[p][i]
      BY <1>1, <1>2
    <3>2. CASE 2 * k - 1 <= Len(posted[p])
      <4>1. posted[p][2 * k - 1] \in [Steps -> Nat]
        BY <3>2 DEF OddContributions
      <4>2. 2 * k - 1 \in 1 .. Len(posted[p])
        BY <3>1, <3>2
      <4>3. posted'[p][2 * k - 1] = posted[p][2 * k - 1]
        BY <3>1, <4>2
      <4> QED
        BY <2>2, <4>1, <4>3
    <3>3. CASE 2 * k - 1 = Len(posted[p]) + 1
      <4>1. k - 1 \in Nat /\ Len(posted[p]) = 2 * (k - 1)
        BY <3>1, <3>3
      <4>2. value \in [Steps -> Nat]
        BY <4>1
      <4> QED
        BY <2>2, <3>1, <3>3, <4>2
    <3>4. 2 * k - 1 <= Len(posted[p]) + 1
      BY <1>4, <2>2, <3>1
    <3> QED
      BY <3>1, <3>2, <3>3, <3>4
  <2> QED
    BY <2>1, <2>2
<1> QED
  BY <1>3, <1>4 DEF OddContributions, S

\* A contribution to an even exchange is never read as a table.
LEMMA TypeStep == TypeInv /\ [Next]_vars => TypeInv'
<1> SUFFICES ASSUME TypeInv, [Next]_vars PROVE TypeInv'
  OBVIOUS
<1> USE DEF TypeInv
<1>1. Inv'
  BY NextInv
<1>2. ASSUME NEW p \in Ranks, Work(p) \/ Call(p)
      PROVE  /\ spent' \in [Ranks -> Nat]
             /\ elapsed' \in [Ranks -> Tables]
             /\ posted' \in [Ranks -> Seq([Steps -> Nat] \cup {Garbage})]
             /\ OddContributions'
  <2>1. CASE Work(p)
    BY <2>1, RoundAssumption DEF Work, ControlOK, OddContributions
  <2>2. CASE SkipCall(p)
    <3>1. elapsed' \in [Ranks -> Tables]
      BY <2>2, GatheredType DEF SkipCall, ControlOK, Tables
    <3> QED
      BY <2>2, <3>1 DEF SkipCall, Leave, ControlOK, OddContributions
  <2>3. CASE EnterRound(p)
    <3>1. elapsed' \in [Ranks -> Tables] /\ spent' = spent
      BY <2>3, GatheredType DEF EnterRound, ControlOK, Tables
    <3>2. posted' = [posted EXCEPT ![p] = Append(posted[p], Gathered(p))]
      BY <2>3 DEF EnterRound, Contribute
    <3> QED
      BY <3>1, <3>2, GatheredType, ContributionType DEF ControlOK
  <2>4. CASE GatherElapsed(p)
    <3>1. /\ Len(posted[p]) = 2 * Rounds(p) + 1
          /\ Rounds(p) \in Nat
          /\ \A q \in Ranks : Len(posted[q]) >= Len(posted[p])
          /\ elapsed' = [elapsed EXCEPT ![p] = [q \in Ranks |-> posted[q][Len(posted[p])]]]
          /\ posted' = [posted EXCEPT ![p] = Append(posted[p], Garbage)]
          /\ spent' = spent
      BY <2>4 DEF GatherElapsed, Contribute, Complete, Inv, Shape, Counting
    <3>2. \A q \in Ranks : posted[q][Len(posted[p])] \in [Steps -> Nat]
      <4>1. Len(posted[p]) = 2 * (Rounds(p) + 1) - 1 /\ Rounds(p) + 1 \in Nat \ {0}
        BY <3>1
      <4>2. ASSUME NEW q \in Ranks PROVE Len(posted[p]) <= Len(posted[q])
        <5>1. Len(posted[q]) \in Nat /\ Len(posted[p]) \in Nat
          BY DEF ControlOK
        <5> QED
          BY <3>1, <5>1
      <4>3. \A q \in Ranks : 2 * (Rounds(p) + 1) - 1 <= Len(posted[q])
        BY <4>1, <4>2
      <4>4. \A q \in Ranks : posted[q][2 * (Rounds(p) + 1) - 1] \in [Steps -> Nat]
        BY <4>1, <4>3 DEF OddContributions
      <4> QED
        BY <4>1, <4>4
    <3>3. elapsed' \in [Ranks -> Tables]
      BY <3>1, <3>2 DEF ControlOK, Tables
    <3>4. \A k \in Nat : Len(posted[p]) # 2 * k
      BY <3>1
    <3> QED
      BY <3>1, <3>3, <3>4, ContributionType DEF ControlOK
  <2>5. CASE GatherThreads(p) \/ Fail(p)
    BY <2>5 DEF GatherThreads, Fail, ControlOK, OddContributions
  <2>6. CASE Cancel(p) \/ Rebalance(p)
    <3>1. posted' = posted /\ elapsed' = elapsed /\ spent' = [spent EXCEPT ![p] = 0]
      BY <2>6 DEF Cancel, Rebalance, Leave
    <3> QED
      BY <3>1 DEF ControlOK, OddContributions
  <2> QED
    BY <1>2, <2>1, <2>2, <2>3, <2>4, <2>5, <2>6 DEF Call
<1>3. CASE UNCHANGED vars
  BY <1>1, <1>3 DEF vars, ControlOK, OddContributions
<1>4. ASSUME NEW p \in Ranks, Work(p) \/ Call(p) PROVE TypeInv'
  <2>1. /\ pc' \in [Ranks -> {"app", "gather_elapsed", "gather_threads", "decide"}
                             \cup Lost]
        /\ step' \in [Ranks -> Nat]
    BY <1>1 DEF Inv, Shape
  <2> QED
    BY <1>1, <1>2, <1>4, <2>1 DEF ControlOK
<1> QED
  BY <1>3, <1>4 DEF Next, Stop

\* Nothing has been contributed when the program starts.
LEMMA InitTypeInv == Init => TypeInv
<1>1. ASSUME Init PROVE ControlOK /\ OddContributions
  <2>1. \A p \in Ranks : posted[p] = <<>>
    BY <1>1 DEF Init
  <2>2. OddContributions
    BY <2>1 DEF OddContributions
  <2>3. ControlOK
    BY <1>1 DEF Init, ControlOK, Tables
  <2> QED
    BY <2>2, <2>3
<1> QED
  BY <1>1, InitInv DEF TypeInv

\* The control state of every process stays what the code allows: where it
\* is, its step, its times, and contributions that are windows of times or the
\* garbage of the second exchange.  A gathered table never holds that garbage.
THEOREM ControlCorrect == Spec => []ControlOK
<1>1. TypeInv => ControlOK
  BY DEF TypeInv
<1> QED
  BY <1>1, InitTypeInv, TypeStep, PTL DEF Spec
-----------------------------------------------------------------------------
\* The calls before the n-th that exchange times, and how many they are.  The
\* decision depends on the number of the call only.
Exchanges(m) == m >= CommUpAt /\ ~SkipCompute(m)

ExchangesBefore(n) == {m \in 0 .. n - 1 : Exchanges(m)}

StepInv ==
    \A p \in Ranks :
        /\ Rounds(p) = Cardinality(ExchangesBefore(step[p]))
        /\ pc[p] # "app" => Exchanges(step[p])

\* The exchanges before a call can be counted.
LEMMA ExchangesFinite ==
    ASSUME NEW n \in Nat
    PROVE  /\ IsFiniteSet(ExchangesBefore(n))
           /\ Cardinality(ExchangesBefore(n)) \in Nat
<1>1. IsFiniteSet(0 .. n - 1)
  BY FS_Interval
<1>2. ExchangesBefore(n) \subseteq 0 .. n - 1
  BY DEF ExchangesBefore
<1> QED
  BY <1>1, <1>2, FS_Subset, FS_CardinalityType

\* A call makes one exchange more, or none.
LEMMA OneMoreCall ==
    ASSUME NEW n \in Nat
    PROVE  Cardinality(ExchangesBefore(n + 1)) =
              IF Exchanges(n) THEN Cardinality(ExchangesBefore(n)) + 1
              ELSE Cardinality(ExchangesBefore(n))
<1>1. ExchangesBefore(n + 1) =
          IF Exchanges(n) THEN ExchangesBefore(n) \cup {n} ELSE ExchangesBefore(n)
  <2>1. 0 .. n + 1 - 1 = (0 .. n - 1) \cup {n}
    OBVIOUS
  <2> HIDE DEF Exchanges
  <2> QED
    BY <2>1 DEF ExchangesBefore
<1>2. n \notin ExchangesBefore(n)
  BY DEF ExchangesBefore
<1> QED
  BY <1>1, <1>2, ExchangesFinite, FS_AddElement

\* Between two different exchanging calls the count grows.
LEMMA LaterExchange ==
    ASSUME NEW m \in Nat, NEW n \in Nat, m < n, Exchanges(m)
    PROVE  Cardinality(ExchangesBefore(m)) # Cardinality(ExchangesBefore(n))
<1>1. ExchangesBefore(m + 1) \subseteq ExchangesBefore(n)
  <2> HIDE DEF Exchanges
  <2> QED
    BY DEF ExchangesBefore
<1>2. Cardinality(ExchangesBefore(m + 1)) <= Cardinality(ExchangesBefore(n))
  BY <1>1, ExchangesFinite, FS_Subset
<1>3. Cardinality(ExchangesBefore(m + 1)) = Cardinality(ExchangesBefore(m)) + 1
  BY OneMoreCall
<1> QED
  BY <1>2, <1>3, ExchangesFinite

\* No call, no exchange.
LEMMA NoExchangeYet == ExchangesBefore(0) = {}
BY DEF ExchangesBefore

\* A call that exchanges is one of those its number says, and leaves one round.
LEMMA StepInvStep == Inv /\ StepInv /\ [Next]_vars => StepInv'
<1> SUFFICES ASSUME Inv, StepInv, [Next]_vars PROVE StepInv'
  OBVIOUS
<1> USE DEF Inv
<1>1. ASSUME NEW p \in Ranks, Work(p) \/ Call(p) PROVE StepInv'
  <2>1. /\ \A q \in Ranks \ {p} : step'[q] = step[q] /\ hist'[q] = hist[q]
                                  /\ pc'[q] = pc[q]
    BY <1>1 DEF Call, Work, SkipCall, EnterRound, GatherElapsed, GatherThreads,
                Cancel, Rebalance, Fail, Leave, Shape
  <2>2. /\ Len(hist'[p]) = Cardinality(ExchangesBefore(step'[p]))
        /\ pc'[p] # "app" => Exchanges(step'[p])
    <3>1. CASE Work(p)
      BY <3>1 DEF Work, StepInv
    <3>2. CASE EnterRound(p)
      BY <3>2 DEF EnterRound, CommIsInitialized, Exchanges, StepInv
    <3>3. CASE GatherElapsed(p) \/ GatherThreads(p) \/ Fail(p)
      BY <3>3 DEF GatherElapsed, GatherThreads, Fail, StepInv
    <3>4. CASE SkipCall(p)
      <4>1. /\ hist' = hist /\ step'[p] = step[p] + 1 /\ pc'[p] = "app"
            /\ ~Exchanges(step[p]) /\ step[p] \in Nat
        BY <3>4 DEF SkipCall, Leave, CommIsInitialized, Exchanges, Shape
      <4> QED
        BY <4>1, OneMoreCall DEF StepInv
    <3>5. CASE Cancel(p) \/ Rebalance(p)
      <4>1. /\ step'[p] = step[p] + 1 /\ pc'[p] = "app" /\ pc[p] = "decide"
            /\ step[p] \in Nat
        BY <3>5 DEF Cancel, Rebalance, Leave, Shape
      <4>2. PICK entry : hist' = [hist EXCEPT ![p] = Append(hist[p], entry)]
        <5>1. CASE Cancel(p)
          BY <5>1 DEF Cancel
        <5>2. CASE Rebalance(p)
          BY <5>2 DEF Rebalance
        <5> QED
          BY <3>5, <5>1, <5>2
      <4>3. Len(hist'[p]) = Len(hist[p]) + 1
        <5>1. PICK S : hist[p] \in Seq(S)
          BY DEF Shape
        <5>2. hist'[p] = Append(hist[p], entry)
          BY <4>2 DEF Shape
        <5> QED
          BY <5>1, <5>2, AppendFacts
      <4>4. Exchanges(step[p])
        BY <4>1 DEF StepInv
      <4> QED
        BY <4>1, <4>3, <4>4, OneMoreCall DEF StepInv
    <3> QED
      BY <1>1, <3>1, <3>2, <3>3, <3>4, <3>5 DEF Call
  <2> QED
    BY <2>1, <2>2 DEF StepInv
<1>2. CASE UNCHANGED vars
  BY <1>2 DEF vars, StepInv
<1> QED
  BY <1>1, <1>2 DEF Next, Stop

\* No process ever gathers the times of another step than its own
\* (core/sabo.c, core_skip_compute and the LEAVE path).
THEOREM SameStepExchange == Spec => []ExchangeAtSameStep
<1>1. Init => StepInv
  <2> SUFFICES ASSUME Init PROVE StepInv
    OBVIOUS
  <2> QED
    BY NoExchangeYet, FS_EmptySet DEF Init, StepInv
<1>2. Inv /\ StepInv => ExchangeAtSameStep
  <2> SUFFICES ASSUME Inv, StepInv, NEW p \in Ranks, NEW q \in Ranks,
                      pc[p] # "app", pc[q] # "app", Rounds(p) = Rounds(q)
               PROVE  step[p] = step[q]
    BY DEF ExchangeAtSameStep
  <2>1. step[p] \in Nat /\ step[q] \in Nat
    BY DEF Inv, Shape
  <2>2. /\ Exchanges(step[p]) /\ Exchanges(step[q])
        /\ Cardinality(ExchangesBefore(step[p])) = Cardinality(ExchangesBefore(step[q]))
    BY DEF StepInv
  <2>3. ~(step[p] < step[q]) /\ ~(step[q] < step[p])
    BY <2>1, <2>2, LaterExchange
  <2> QED
    BY <2>1, <2>3
<1> QED
  BY <1>1, <1>2, InitInv, NextInv, StepInvStep, PTL DEF Spec
-----------------------------------------------------------------------------
(* Shares *)

\* The node and the window are finite.
LEMMA RanksFinite == /\ IsFiniteSet(Ranks)
                     /\ \A members \in SUBSET Ranks : IsFiniteSet(members)
                     /\ IsFiniteSet(Steps)
                     /\ Cardinality(Steps) = Window
<1>1. IsFiniteSet(Ranks)
  BY ProcessesFinite
<1>2. IsFiniteSet(Steps) /\ Cardinality(Steps) = Window
  BY TopologyAssumption, WindowAssumption, FS_Interval DEF Steps
<1> QED
  BY <1>1, <1>2, FS_Subset

\* q comes after p in the scan for the largest remainder.
Beaten(counters, q, p) ==
    \/ counters[q].delta < counters[p].delta
    \/ /\ counters[q].delta = counters[p].delta
       /\ \/ counters[q].threads > counters[p].threads
          \/ counters[q].threads = counters[p].threads /\ q < p

\* The scan finds a process: of any set of them one beats all the others.
LEMMA SomebodyBeatsTheOthers ==
    ASSUME NEW counters \in Counters
    PROVE  \E p \in Ranks : \A q \in Ranks \ {p} : Beaten(counters, q, p)
<1> DEFINE P == {s \in SUBSET Ranks : s # {} =>
                    \E p \in s : \A q \in s \ {p} : Beaten(counters, q, p)}
<1>1. {} \in P
  OBVIOUS
<1>2. ASSUME NEW s \in SUBSET Ranks, NEW x \in s, s \ {x} \in P PROVE s \in P
  <2>1. CASE s = {x}
    BY <2>1
  <2>2. CASE s # {x}
    <3>1. PICK p \in s \ {x} : \A q \in (s \ {x}) \ {p} : Beaten(counters, q, p)
      BY <1>2, <2>2
    <3>2. \A q \in Ranks : /\ q \in Int /\ counters[q].delta \in Int
                           /\ counters[q].threads \in Int
      BY TopologyAssumption DEF Ranks, Counters
    <3>3. Beaten(counters, x, p) \/ Beaten(counters, p, x)
      BY <3>1, <3>2 DEF Beaten
    <3>4. CASE Beaten(counters, x, p)
      BY <3>1, <3>4
    <3>5. CASE Beaten(counters, p, x)
      <4>1. \A q \in s \ {x} : Beaten(counters, q, x)
        BY <3>1, <3>2, <3>5 DEF Beaten
      <4> QED
        BY <4>1
    <3> QED
      BY <3>3, <3>4, <3>5
  <2> QED
    BY <2>1, <2>2
<1> HIDE DEF P
<1>3. \A s \in SUBSET Ranks : s \in P
  BY <1>1, <1>2, RanksFinite, RemovalInduction
<1>4. Ranks \in P /\ Ranks # {}
  <2>1. 0 \in Ranks
    BY TopologyAssumption DEF Ranks
  <2> QED
    BY <1>3, <2>1
<1> QED
  BY <1>4 DEF P

\* The scan for the largest remainder returns such a process.
LEMMA MaxDeltaIsARank ==
    ASSUME NEW counters \in Counters
    PROVE  /\ MaxDelta(counters) \in Ranks
           /\ \A q \in Ranks \ {MaxDelta(counters)} :
                  Beaten(counters, q, MaxDelta(counters))
BY SomebodyBeatsTheOthers DEF MaxDelta, Beaten

\* The threads handed out are a sum over the processes.
LEMMA TotalIsASum ==
    ASSUME NEW counters \in Counters
    PROVE  /\ Total(counters) = SumFunctionOnSet([p \in Ranks |-> counters[p].threads], Ranks)
           /\ Total(counters) \in Int
<1> DEFINE f == [p \in Ranks |-> counters[p].threads]
<1>1. \A p \in Ranks : f[p] \in Int
  BY DEF Counters
<1>2. Total(counters) = SumFunctionOnSet(f, Ranks)
  BY DEF Total, SumFunction
<1> HIDE DEF f
<1> QED
  BY <1>1, <1>2, RanksFinite, SumInt DEF f

\* The threads handed out, without the sum behind them.
LEMMA TotalInt == \A counters \in Counters : Total(counters) \in Int
BY TotalIsASum

\* One thread more for the process the scan finds, and nothing else.
LEMMA OneThreadGiven ==
    ASSUME NEW counters \in Counters
    PROVE  LET given == GiveOneThread(counters)
               p     == MaxDelta(counters)
           IN  /\ given \in Counters
               /\ given[p].threads = counters[p].threads + 1
               /\ \A q \in Ranks \ {p} : given[q] = counters[q]
               /\ Total(given) = Total(counters) + 1
<1> DEFINE given == GiveOneThread(counters)
           p == MaxDelta(counters)
           f == [q \in Ranks |-> counters[q].threads]
           g == [q \in Ranks |-> given[q].threads]
           rest == Ranks \ {p}
<1>1. p \in Ranks
  BY MaxDeltaIsARank
<1>2. \A q \in Ranks : counters[q].threads \in Int /\ counters[q] \in [threads : Int, delta : Int]
  BY DEF Counters
<1>3. given = [q \in Ranks |->
                 IF q = p THEN [threads |-> counters[p].threads + 1,
                                delta |-> IF counters[p].threads + 1 > CoresPerSocket
                                          THEN -1 ELSE 0]
                 ELSE counters[q]]
  BY DEF GiveOneThread, Counters
<1> HIDE DEF given, p
<1>4. given \in Counters
  BY <1>1, <1>2, <1>3 DEF Counters
<1>5. given[p].threads = counters[p].threads + 1 /\ \A q \in Ranks \ {p} : given[q] = counters[q]
  BY <1>1, <1>3
<1>6. /\ \A q \in Ranks : f[q] \in Int /\ g[q] \in Int
      /\ g[p] = f[p] + 1
      /\ \A q \in rest : g[q] \in Int /\ g[q] = f[q]
  <2>1. \A q \in Ranks : given[q].threads \in Int
    BY <1>4 DEF Counters
  <2> QED
    BY <1>1, <1>2, <1>5, <2>1
<1>7. rest = Ranks \ {p} /\ IsFiniteSet(rest)
  BY RanksFinite
<1> HIDE DEF f, g, rest
<1>8. SumFunctionOnSet(f, Ranks) = f[p] + SumFunctionOnSet(f, Ranks \ {p})
  BY <1>1, <1>6, RanksFinite, SumRemove
<1>9. SumFunctionOnSet(g, Ranks) = g[p] + SumFunctionOnSet(g, Ranks \ {p})
  BY <1>1, <1>6, RanksFinite, SumRemove
<1>10. SumFunctionOnSet(g, rest) = SumFunctionOnSet(f, rest)
  BY <1>6, <1>7, SumCongruence
<1>11. SumFunctionOnSet(f, rest) \in Int
  <2>1. \A q \in rest : f[q] \in Int
    BY <1>6, <1>7
  <2> QED
    BY <1>7, <2>1, SumInt
<1>12. /\ SumFunctionOnSet(g, Ranks) = g[p] + SumFunctionOnSet(f, rest)
       /\ SumFunctionOnSet(f, Ranks) = f[p] + SumFunctionOnSet(f, rest)
  BY <1>7, <1>8, <1>9, <1>10
<1>13. SumFunctionOnSet(g, Ranks) = SumFunctionOnSet(f, Ranks) + 1
  BY <1>1, <1>6, <1>11, <1>12
<1>14. Total(counters) = SumFunctionOnSet(f, Ranks) /\ Total(given) = SumFunctionOnSet(g, Ranks)
  BY <1>4, TotalIsASum DEF f, g
<1>15. Total(given) = Total(counters) + 1
  BY <1>13, <1>14
<1> QED
  BY <1>4, <1>5, <1>15 DEF given, p

\* What the dispatch is a function with.
IsDispatch(g) ==
    g = [todo \in Todos |->
           IF todo.remaining <= 0 THEN todo.counters
           ELSE g[[remaining |-> todo.remaining - 1,
                   counters  |-> GiveOneThread(todo.counters)]]]

\* The dispatch loop is some function with its definition.
LEMMA DispatchUnfolded == DispatchUnusedCores = CHOOSE g : IsDispatch(g)
BY DEF DispatchUnusedCores, IsDispatch

\* Every thread that is missing is handed out, and whatever each of them keeps
\* holds in the end; nothing is done when none is missing.
LEMMA DispatchResult ==
    ASSUME NEW counters \in Counters,
           NEW J \in SUBSET Counters, counters \in J,
           \A c \in J : Total(c) < NumCores => GiveOneThread(c) \in J
    PROVE  LET result == DispatchRemaining[counters]
           IN  /\ result \in J
               /\ Total(counters) >= NumCores => result = counters
               /\ Total(counters) < NumCores => Total(result) = NumCores
<1> DEFINE done == {t \in Todos : t.remaining <= 0}
           out  == [t \in Todos |-> t.counters]
           next == [t \in Todos |-> [remaining |-> t.remaining - 1,
                                     counters  |-> GiveOneThread(t.counters)]]
           mu   == [t \in Todos |-> IF t.remaining <= 0 THEN 0 ELSE t.remaining]
           I    == {t \in Todos : /\ t.counters \in J /\ t.remaining >= 0
                                  /\ t.remaining + Total(t.counters) = NumCores}
           start == [remaining |-> NumCores - Total(counters), counters |-> counters]
<1>1. \A t \in Todos : mu[t] \in Nat
  BY DEF Todos
<1>2. \A t \in Todos \ done : next[t] \in Todos /\ mu[next[t]] < mu[t]
  <2> SUFFICES ASSUME NEW t \in Todos \ done
               PROVE  next[t] \in Todos /\ mu[next[t]] < mu[t]
    OBVIOUS
  <2>1. /\ next[t] \in Todos /\ next[t].remaining = t.remaining - 1
        /\ t.remaining \in Int /\ t.remaining > 0
    BY OneThreadGiven DEF Todos
  <2>2. /\ mu[next[t]] = IF next[t].remaining <= 0 THEN 0 ELSE next[t].remaining
        /\ mu[t] = t.remaining
    BY <2>1
  <2> HIDE DEF mu, next, done
  <2> QED
    BY <2>1, <2>2
<1>3. \A h : IsLoop(h, Todos, done, out, next) <=> IsDispatch(h)
  <2> TAKE h
  <2>1. [x \in Todos |-> IF x \in done THEN out[x] ELSE h[next[x]]]
        = [todo \in Todos |->
           IF todo.remaining <= 0 THEN todo.counters
           ELSE h[[remaining |-> todo.remaining - 1,
                   counters  |-> GiveOneThread(todo.counters)]]]
    OBVIOUS
  <2> HIDE DEF done, out, next
  <2> QED
    BY <2>1 DEF IsLoop, IsDispatch
<1>4. start \in Todos /\ Total(counters) \in Int /\ NumCores \in Int
  <2>1. Total(counters) \in Int /\ NumCores \in Int
    BY TotalInt, CoresPositive
  <2>2. NumCores - Total(counters) \in Int
    BY <2>1
  <2> QED
    BY <2>1, <2>2 DEF Todos
<1>5. out[start] = counters /\ (Total(counters) >= NumCores => start \in done)
  BY <1>4
<1>6. I \in SUBSET Todos /\ \A t \in I \ done : next[t] \in I
  <2> SUFFICES ASSUME NEW t \in I \ done PROVE next[t] \in I
    OBVIOUS
  <2>1. /\ t.counters \in J /\ t.counters \in Counters
        /\ t.remaining \in Int /\ t.remaining > 0
        /\ t.remaining + Total(t.counters) = NumCores
        /\ next[t].remaining = t.remaining - 1
        /\ next[t].counters = GiveOneThread(t.counters)
    BY DEF Todos
  <2>2. Total(t.counters) \in Int /\ NumCores \in Int
        /\ Total(GiveOneThread(t.counters)) = Total(t.counters) + 1
    <3> DEFINE c == t.counters
    <3>1. c \in Counters
      BY <2>1
    <3> HIDE DEF c
    <3>2. Total(c) \in Int /\ Total(GiveOneThread(c)) = Total(c) + 1
      BY <3>1, TotalInt, OneThreadGiven
    <3> QED
      BY <3>2, CoresPositive DEF c
  <2>3. GiveOneThread(t.counters) \in J
    BY <2>1, <2>2
  <2>4. next[t] \in Todos
    BY <2>1, <2>3 DEF Todos
  <2>5. next[t].remaining >= 0
        /\ next[t].remaining + Total(next[t].counters) = NumCores
    <3> HIDE DEF next, done
    <3> QED
      BY <2>1, <2>2
  <2> QED
    BY <2>1, <2>3, <2>4, <2>5
<1>7. Total(counters) < NumCores => start \in I
  BY <1>4
<1>8. \A t \in I \cap done : out[t] \in J /\ Total(out[t]) = NumCores
  <2> SUFFICES ASSUME NEW t \in I \cap done
               PROVE  out[t] \in J /\ Total(out[t]) = NumCores
    OBVIOUS
  <2>1. /\ t.counters \in J /\ t.remaining = 0 /\ out[t] = t.counters
        /\ t.remaining + Total(t.counters) = NumCores
    BY DEF Todos
  <2>2. Total(t.counters) \in Int
    BY <2>1, TotalInt
  <2> QED
    BY <2>1, <2>2
<1>9. DispatchRemaining[counters] = DispatchUnusedCores[start]
  BY DEF DispatchRemaining
<1> HIDE DEF done, out, next, mu, I, start
<1>10. \E h : IsLoop(h, Todos, done, out, next)
  BY <1>1, <1>2, LoopExists
<1> DEFINE g == DispatchUnusedCores
<1>11. IsLoop(g, Todos, done, out, next)
  BY <1>3, <1>10, DispatchUnfolded
<1> HIDE DEF g
<1>12. CASE Total(counters) >= NumCores
  <2>1. g[start] = out[start]
    BY <1>4, <1>5, <1>11, <1>12 DEF IsLoop
  <2> QED
    BY <1>4, <1>5, <1>9, <1>12, <2>1 DEF g
<1>13. CASE Total(counters) < NumCores
  <2>1. PICK y \in I \cap done : g[start] = out[y]
    BY <1>1, <1>2, <1>6, <1>7, <1>11, <1>13, LoopInvariant
  <2> QED
    BY <1>4, <1>8, <1>9, <1>13, <2>1 DEF g
<1> QED
  BY <1>4, <1>12, <1>13

\* Shares a round can go on with: a thread at least, no more than the node.
Proper == {c \in Counters : \A p \in Ranks : 1 <= c[p].threads /\ c[p].threads <= NumCores}

\* A thread given while some core has none keeps the shares proper.
LEMMA GivingKeepsProper ==
    ASSUME NEW c \in Proper, Total(c) < NumCores
    PROVE  GiveOneThread(c) \in Proper
<1> DEFINE p == MaxDelta(c)
           f == [q \in Ranks |-> c[q].threads]
           given == GiveOneThread(c)
<1>1. c \in Counters /\ \A q \in Ranks : /\ 1 <= c[q].threads /\ c[q].threads <= NumCores
                                         /\ c[q].threads \in Int
  BY DEF Proper, Counters
<1>2. \A q \in Ranks : f[q] = c[q].threads /\ f[q] \in Nat
  BY <1>1
<1>3. p \in Ranks
  BY <1>1, MaxDeltaIsARank
<1>4. Total(c) = SumFunctionOnSet(f, Ranks) /\ Total(c) \in Int
  BY <1>1, TotalIsASum
<1>5. given \in Counters /\ given[p].threads = c[p].threads + 1
      /\ \A q \in Ranks \ {p} : given[q] = c[q]
  BY <1>1, OneThreadGiven
<1> HIDE DEF p, f, given
<1>6. f[p] <= SumFunctionOnSet(f, Ranks)
  BY <1>2, <1>3, RanksFinite, SumElement
<1>7. c[p].threads + 1 <= NumCores
  <2>1. c[p].threads \in Int /\ c[p].threads <= Total(c) /\ NumCores \in Int
    BY <1>1, <1>2, <1>3, <1>4, <1>6, CoresPositive
  <2> QED
    BY <1>4, <2>1
<1>8. \A q \in Ranks : 1 <= given[q].threads /\ given[q].threads <= NumCores
  BY <1>1, <1>3, <1>5, <1>7
<1> QED
  BY <1>5, <1>8 DEF Proper, given

\* So the dispatch returns proper shares that cover the node.
LEMMA DispatchKeepsProper ==
    ASSUME NEW c \in Proper
    PROVE  /\ DispatchRemaining[c] \in Proper
           /\ Total(c) >= NumCores => DispatchRemaining[c] = c
           /\ Total(c) < NumCores => Total(DispatchRemaining[c]) = NumCores
<1>1. Proper \in SUBSET Counters /\ c \in Counters
  BY DEF Proper
<1> QED
  BY <1>1, GivingKeepsProper, DispatchResult

\* Products keep the order, and give it back.
LEMMA ProductMonotone ==
    ASSUME NEW a \in Nat, NEW x \in Int, NEW y \in Int, x <= y
    PROVE  a * x <= a * y
<1> DEFINE u == a * (y - x)
           v == a * y
           w == a * x
<1>1. u \in Int /\ v \in Int /\ w \in Int /\ u >= 0
  OBVIOUS
<1>2. v = u + w
  OBVIOUS
<1> HIDE DEF u, v, w
<1>3. w <= v
  BY <1>1, <1>2
<1> QED
  BY <1>3 DEF v, w

\* A positive factor can be dropped from both sides.
LEMMA ProductCancel ==
    ASSUME NEW a \in Nat \ {0}, NEW x \in Int, NEW y \in Int, a * x <= a * y
    PROVE  x <= y
<1> SUFFICES ASSUME y + 1 <= x PROVE FALSE
  OBVIOUS
<1>1. a * (y + 1) <= a * x /\ a * (y + 1) = a * y + a
  BY ProductMonotone
<1> DEFINE v == a * y
           w == a * x
<1>2. v \in Int /\ w \in Int /\ v + a <= w /\ w <= v
  BY <1>1
<1> HIDE DEF v, w
<1> QED
  BY <1>2

\* A quotient, as the largest integer below a fraction.
LEMMA Quotient ==
    ASSUME NEW a \in Nat, NEW b \in Nat \ {0}
    PROVE  /\ a \div b \in Nat /\ a % b \in 0 .. b - 1
           /\ a = b * (a \div b) + (a % b)
OBVIOUS

\* What a process is given for a step somebody worked in.
LEMMA StepCounterFacts ==
    ASSUME NEW time \in Nat, NEW sum \in Nat \ {0}
    PROVE  LET counter == StepCounter(time, sum)
           IN  /\ counter \in [threads : Int, delta : Int]
               /\ 1 <= counter.threads /\ counter.threads <= CoresPerSocket
               /\ time * NumCores < sum => counter.threads = 1
               /\ time * NumCores >= sum => sum * counter.threads <= time * NumCores
<1> DEFINE scaled == time * NumCores
           q == scaled \div sum
           r == scaled % sum
           c == StepCounter(time, sum)
<1>1. scaled \in Nat
  BY CoresPositive
<1>2. c = IF q = 0 THEN [threads |-> 1, delta |-> 0]
          ELSE IF q > CoresPerSocket THEN [threads |-> CoresPerSocket, delta |-> -1]
          ELSE [threads |-> q, delta |-> r]
  BY DEF StepCounter
<1> HIDE DEF scaled, c
<1>3. q \in Nat /\ r \in 0 .. sum - 1 /\ scaled = sum * q + r
  BY <1>1, Quotient
<1> HIDE DEF q, r
<1>4. c \in [threads : Int, delta : Int] /\ 1 <= c.threads /\ c.threads <= CoresPerSocket
  BY <1>2, <1>3, TopologyAssumption
<1>5. scaled < sum => q = 0
  <2> SUFFICES ASSUME scaled < sum, q >= 1 PROVE FALSE
    BY <1>3
  <2>1. sum * (q - 1) >= 0 /\ sum * q = sum * (q - 1) + sum
    BY <1>3
  <2> QED
    BY <1>1, <1>3, <2>1
<1>6. scaled >= sum => c.threads <= q
  <2> SUFFICES ASSUME scaled >= sum, q = 0 PROVE FALSE
    BY <1>2, <1>3, TopologyAssumption
  <2>1. sum * q = 0
    BY <1>3
  <2> QED
    BY <1>1, <1>3, <2>1
<1>7. scaled >= sum => sum * c.threads <= scaled
  <2> SUFFICES ASSUME scaled >= sum PROVE sum * c.threads <= scaled
    OBVIOUS
  <2> DEFINE n == c.threads
  <2>1. n \in Nat /\ n <= q
    BY <1>4, <1>6
  <2> HIDE DEF n
  <2>2. sum * n <= sum * q /\ sum * n \in Int /\ sum * q \in Int
    BY <1>3, <2>1, ProductMonotone
  <2> DEFINE a == sum * n
             b == sum * q
  <2>3. a <= b /\ a \in Int /\ b \in Int /\ scaled = b + r
    BY <1>3, <2>2
  <2> HIDE DEF a, b
  <2>4. a <= scaled
    BY <1>3, <2>3
  <2> QED
    BY <2>4 DEF n, a
<1>8. scaled < sum => c.threads = 1
  BY <1>2, <1>5
<1> QED
  BY <1>4, <1>7, <1>8 DEF scaled, c

\* The time of a step is a sum over the processes.
LEMMA StepSumIsASum ==
    ASSUME NEW table \in Tables, NEW i \in Steps
    PROVE  /\ StepSum(table, i) = SumFunctionOnSet([p \in Ranks |-> table[p][i]], Ranks)
           /\ StepSum(table, i) \in Nat
<1> DEFINE f == [p \in Ranks |-> table[p][i]]
<1>1. \A p \in Ranks : f[p] \in Nat
  BY DEF Tables
<1>2. StepSum(table, i) = SumFunctionOnSet(f, Ranks)
  BY DEF StepSum, SumFunction
<1> HIDE DEF f
<1> QED
  BY <1>1, <1>2, RanksFinite, SumNat DEF f

\* The processes raised to a thread: they worked for less than a core's share.
Raised(table, i) == {p \in Ranks : table[p][i] * NumCores < StepSum(table, i)}

\* What the processes are given before the threads that are missing are.
FirstCounters(table, i) ==
    [p \in Ranks |-> StepCounter(table[p][i], StepSum(table, i))]

\* The floors of a step, raised to one and capped, are proper shares.
LEMMA FirstCountersProper ==
    ASSUME NEW table \in Tables, NEW i \in Steps, StepSum(table, i) # 0
    PROVE  FirstCounters(table, i) \in Proper
<1> DEFINE sum == StepSum(table, i)
           c == FirstCounters(table, i)
<1>1. sum \in Nat \ {0} /\ \A p \in Ranks : table[p][i] \in Nat
  BY StepSumIsASum DEF Tables
<1>2. c = [p \in Ranks |-> StepCounter(table[p][i], sum)]
  BY DEF FirstCounters
<1> HIDE DEF sum, c
<1>3. \A p \in Ranks : /\ StepCounter(table[p][i], sum) \in [threads : Int, delta : Int]
                       /\ 1 <= StepCounter(table[p][i], sum).threads
                       /\ StepCounter(table[p][i], sum).threads <= CoresPerSocket
  BY <1>1, StepCounterFacts
<1>4. \A p \in Ranks : /\ c[p] \in [threads : Int, delta : Int]
                       /\ 1 <= c[p].threads /\ c[p].threads <= CoresPerSocket
  BY <1>2, <1>3
<1>5. \A p \in Ranks : c[p].threads <= NumCores
  <2>1. CoresPerSocket \in Int /\ NumCores \in Int /\ CoresPerSocket <= NumCores
    BY CoresPositive, TopologyAssumption
  <2>2. \A p \in Ranks : c[p].threads \in Int
    BY <1>4
  <2> QED
    BY <1>4, <2>1, <2>2
<1>6. c \in Counters
  BY <1>2, <1>3 DEF Counters
<1> QED
  BY <1>4, <1>5, <1>6 DEF Proper, c

\* The shares of a step are what the dispatch makes of its floors.
LEMMA StepCountersUnfolded ==
    ASSUME NEW table, NEW i
    PROVE  StepCounters(table, i) = DispatchRemaining[FirstCounters(table, i)]
BY DEF StepCounters, FirstCounters

\* Before the dispatch, the node is over-allocated by the raised processes only.
LEMMA FirstTotal ==
    ASSUME NEW table \in Tables, NEW i \in Steps, StepSum(table, i) # 0
    PROVE  Total(FirstCounters(table, i)) <= NumCores + Cardinality(Raised(table, i))
<1> DEFINE sum == StepSum(table, i)
           c == FirstCounters(table, i)
           up == Raised(table, i)
           rest == Ranks \ up
           f == [p \in Ranks |-> c[p].threads]
           t == [p \in Ranks |-> table[p][i]]
           sf == [p \in Ranks |-> sum * f[p]]
           nt == [p \in Ranks |-> NumCores * t[p]]
<1>1. sum \in Nat \ {0} /\ NumCores \in Nat \ {0}
  BY StepSumIsASum, CoresPositive
<1>2. \A p \in Ranks : t[p] \in Nat /\ t[p] = table[p][i]
  BY DEF Tables
<1>3. c \in Counters
  BY FirstCountersProper DEF Proper
<1>4. ASSUME NEW p \in Ranks
      PROVE  /\ f[p] \in Int
             /\ p \in up => f[p] = 1
             /\ p \notin up => sum * f[p] <= NumCores * t[p]
  <2>1. c[p] = StepCounter(t[p], sum)
    BY DEF FirstCounters
  <2> DEFINE k == StepCounter(t[p], sum)
  <2>2. /\ k \in [threads : Int, delta : Int]
        /\ t[p] * NumCores < sum => k.threads = 1
        /\ t[p] * NumCores >= sum => sum * k.threads <= t[p] * NumCores
    BY <1>1, <1>2, StepCounterFacts
  <2>3. p \in up <=> t[p] * NumCores < sum
    BY DEF Raised
  <2>4. f[p] = k.threads
    BY <2>1
  <2>5. t[p] * NumCores = NumCores * t[p] /\ t[p] * NumCores \in Int
    BY <1>1, <1>2
  <2> HIDE DEF k, up, sum, t, f, c
  <2> QED
    BY <1>1, <2>2, <2>3, <2>4, <2>5
<1>5. /\ \A p \in Ranks : sf[p] = sum * f[p] /\ nt[p] = NumCores * t[p]
      /\ Total(c) = SumFunctionOnSet(f, Ranks)
      /\ sum = SumFunctionOnSet(t, Ranks)
  BY <1>3, TotalIsASum, StepSumIsASum
<1>6. up \in SUBSET Ranks /\ rest \in SUBSET Ranks /\ up \cap rest = {}
      /\ up \cup rest = Ranks /\ \A p \in rest : p \in Ranks /\ p \notin up
  BY DEF Raised
<1> HIDE DEF sum, c, up, rest, f, t, sf, nt
<1>7. IsFiniteSet(up) /\ IsFiniteSet(rest)
  BY <1>6, RanksFinite
<1>8. SumFunctionOnSet(f, up \cup rest)
        = SumFunctionOnSet(f, up) + SumFunctionOnSet(f, rest)
  <2>1. \A p \in up \cup rest : f[p] \in Int
    BY <1>4, <1>6
  <2> QED
    BY <1>6, <1>7, <2>1, SumDisjoint
<1>9. SumFunctionOnSet(f, up) = Cardinality(up)
  <2>1. \A p \in up : f[p] = 1
    BY <1>4, <1>6
  <2> QED
    BY <1>7, <2>1, SumOfOnes
<1>10. sum * SumFunctionOnSet(f, rest) <= NumCores * sum
  <2>1. \A p \in rest : /\ f[p] \in Int /\ sf[p] = sum * f[p]
                        /\ t[p] \in Int /\ t[p] \in Nat /\ nt[p] = NumCores * t[p]
                        /\ sf[p] \in Int /\ nt[p] \in Int /\ sf[p] <= nt[p]
    BY <1>1, <1>2, <1>4, <1>5, <1>6
  <2>2. SumFunctionOnSet(sf, rest) = sum * SumFunctionOnSet(f, rest)
    <3>1. sum \in Int /\ \A p \in rest : f[p] \in Int /\ sf[p] = sum * f[p]
      BY <1>1, <2>1
    <3> QED
      BY <1>7, <3>1, SumScale
  <2>3. SumFunctionOnSet(nt, rest) = NumCores * SumFunctionOnSet(t, rest)
    <3>1. NumCores \in Int /\ \A p \in rest : t[p] \in Int /\ nt[p] = NumCores * t[p]
      BY <1>1, <2>1
    <3> QED
      BY <1>7, <3>1, SumScale
  <2>4. SumFunctionOnSet(sf, rest) <= SumFunctionOnSet(nt, rest)
    BY <1>7, <2>1, SumMonotone
  <2>5. SumFunctionOnSet(t, rest) <= SumFunctionOnSet(t, Ranks)
    BY <1>2, <1>6, RanksFinite, SumSubset
  <2>6. SumFunctionOnSet(t, rest) \in Nat
    BY <1>7, <2>1, SumNat
  <2> DEFINE part == SumFunctionOnSet(t, rest)
  <2>7. part \in Nat /\ part <= sum
    BY <1>5, <2>5, <2>6
  <2> HIDE DEF part
  <2>9. NumCores * part <= NumCores * sum
    BY <1>1, <2>7, ProductMonotone
  <2>10. SumFunctionOnSet(sf, rest) \in Int /\ SumFunctionOnSet(nt, rest) \in Int
    BY <1>7, <2>1, SumInt
  <2>11. NumCores * sum \in Int
    BY <1>1
  <2> QED
    BY <2>2, <2>3, <2>4, <2>9, <2>10, <2>11 DEF part
<1>11. SumFunctionOnSet(f, rest) \in Int
  <2>1. \A p \in rest : f[p] \in Int
    BY <1>4, <1>6
  <2> QED
    BY <1>7, <2>1, SumInt
<1>12. SumFunctionOnSet(f, rest) <= NumCores
  <2> DEFINE a == SumFunctionOnSet(f, rest)
  <2>1. a \in Int /\ sum * a <= NumCores * sum
    BY <1>10, <1>11
  <2> HIDE DEF a
  <2>2. a <= NumCores
    <3>1. sum * a <= sum * NumCores
      BY <1>1, <2>1
    <3> QED
      BY <1>1, <2>1, <3>1, ProductCancel
  <2> QED
    BY <2>2 DEF a
<1>13. Cardinality(up) \in Nat
  BY <1>7, FS_CardinalityType
<1>14. Total(c) = Cardinality(up) + SumFunctionOnSet(f, rest)
  BY <1>5, <1>6, <1>8, <1>9
<1>15. Total(c) <= NumCores + Cardinality(up)
  BY <1>1, <1>11, <1>12, <1>13, <1>14
<1> QED
  BY <1>15 DEF c, up

\* A step hands out every core, and too many by the raised processes at most.
LEMMA StepCountersFacts ==
    ASSUME NEW table \in Tables, NEW i \in Steps, StepSum(table, i) # 0
    PROVE  /\ StepCounters(table, i) \in Proper
           /\ Total(StepCounters(table, i)) >= NumCores
           /\ Total(StepCounters(table, i)) <= NumCores + Cardinality(Raised(table, i))
<1> DEFINE c == FirstCounters(table, i)
           d == DispatchRemaining[c]
<1>1. c \in Proper /\ Total(c) <= NumCores + Cardinality(Raised(table, i))
  BY FirstCountersProper, FirstTotal
<1>2. Total(c) \in Int /\ NumCores \in Int /\ Cardinality(Raised(table, i)) \in Nat
  <2>1. c \in Counters
    BY <1>1 DEF Proper
  <2>2. IsFiniteSet(Raised(table, i))
    BY RanksFinite, FS_Subset DEF Raised
  <2> QED
    BY <2>1, <2>2, TotalInt, CoresPositive, FS_CardinalityType
<1>3. StepCounters(table, i) = d
  BY StepCountersUnfolded
<1>4. d \in Proper /\ (Total(c) >= NumCores => d = c)
                   /\ (Total(c) < NumCores => Total(d) = NumCores)
  <2> HIDE DEF c
  <2> QED
    BY <1>1, DispatchKeepsProper
<1> HIDE DEF c, d
<1> QED
  BY <1>1, <1>2, <1>3, <1>4
-----------------------------------------------------------------------------
(* The window *)

\* What a process gets on average: a quotient, and its remainder.
LEMMA AverageCounterFacts ==
    ASSUME NEW th \in [Steps -> Int],
           \A i \in Steps : 1 <= th[i] /\ th[i] <= NumCores
    PROVE  LET c == AverageCounter(th)
           IN  /\ c \in [threads : Int, delta : Int]
               /\ 1 <= c.threads /\ c.threads <= NumCores
               /\ SumFunctionOnSet(th, Steps) \in Int
               /\ \E r \in 0 .. Window - 1 :
                     /\ SumFunctionOnSet(th, Steps) = Window * c.threads + r
                     /\ c.delta = IF c.threads = CoresPerSocket THEN -1 ELSE r
<1> DEFINE sum == SumFunctionOnSet(th, Steps)
           q == sum \div Window
           r == sum % Window
           c == AverageCounter(th)
           one == [i \in Steps |-> 1]
<1>1. \A i \in Steps : /\ th[i] \in Int /\ th[i] \in Nat /\ th[i] <= NumCores
                       /\ one[i] = 1 /\ one[i] \in Int /\ one[i] <= th[i]
  OBVIOUS
<1>2. Window \in Nat \ {0} /\ CoresPerSocket \in Nat \ {0} /\ NumCores \in Nat \ {0}
  BY TopologyAssumption, WindowAssumption, CoresPositive
<1>3. SumFunction(th) = sum
  BY DEF SumFunction
<1>4. c = [threads |-> q, delta |-> IF q = CoresPerSocket THEN -1 ELSE r]
  BY <1>3 DEF AverageCounter
<1> HIDE DEF one
<1>5. sum \in Nat
  BY <1>1, RanksFinite, SumNat
<1>6. sum <= NumCores * Window
  <2>1. SumFunctionOnSet(th, Steps) <= NumCores * Cardinality(Steps)
    BY <1>1, <1>2, RanksFinite, SumBounded
  <2> QED
    BY <2>1, RanksFinite
<1>7. Window <= sum
  <2>1. SumFunctionOnSet(one, Steps) <= SumFunctionOnSet(th, Steps)
    BY <1>1, RanksFinite, SumMonotone
  <2>2. SumFunctionOnSet(one, Steps) = Cardinality(Steps)
    BY <1>1, RanksFinite, SumOfOnes
  <2> QED
    BY <2>1, <2>2, RanksFinite
<1> HIDE DEF sum, c
<1>8. q \in Nat /\ r \in 0 .. Window - 1 /\ sum = Window * q + r
  BY <1>2, <1>5, Quotient
<1> HIDE DEF q, r
<1>9. 1 <= q
  <2> SUFFICES ASSUME q = 0 PROVE FALSE
    BY <1>8
  <2>1. sum = r
    BY <1>2, <1>8
  <2> QED
    BY <1>2, <1>7, <1>8, <2>1
<1>10. q <= NumCores
  <2> DEFINE a == Window * q
             b == Window * NumCores
  <2>1. a \in Int /\ b \in Int /\ b = NumCores * Window /\ sum = a + r
    BY <1>2, <1>8
  <2> HIDE DEF a, b
  <2>2. a <= b
    BY <1>2, <1>5, <1>6, <1>8, <2>1
  <2> QED
    BY <1>2, <1>8, <2>2, ProductCancel DEF a, b
<1> QED
  BY <1>4, <1>5, <1>8, <1>9, <1>10 DEF sum, c

\* The threads of a process in every step.
ThreadsOf(steps, p) == [i \in Steps |-> steps[i][p].threads]

FirstAverages(steps) == [p \in Ranks |-> AverageCounter(ThreadsOf(steps, p))]

\* The shares of a window are what the dispatch makes of its averages.
LEMMA AverageUnfolded ==
    ASSUME NEW steps \in StepTables
    PROVE  AverageCounters[steps] = DispatchRemaining[FirstAverages(steps)]
BY DEF AverageCounters, FirstAverages, ThreadsOf

ProperSteps == [Steps -> Proper]

\* The averages of proper shares are proper shares.
LEMMA FirstAveragesProper ==
    ASSUME NEW steps \in ProperSteps
    PROVE  FirstAverages(steps) \in Proper
<1> DEFINE c == FirstAverages(steps)
<1>1. ASSUME NEW p \in Ranks
      PROVE  /\ ThreadsOf(steps, p) \in [Steps -> Int]
             /\ \A i \in Steps : /\ 1 <= ThreadsOf(steps, p)[i]
                                 /\ ThreadsOf(steps, p)[i] <= NumCores
  BY DEF ProperSteps, Proper, Counters, ThreadsOf
<1>2. \A p \in Ranks : /\ c[p] \in [threads : Int, delta : Int]
                       /\ 1 <= c[p].threads /\ c[p].threads <= NumCores
  <2> SUFFICES ASSUME NEW p \in Ranks
               PROVE  /\ c[p] \in [threads : Int, delta : Int]
                      /\ 1 <= c[p].threads /\ c[p].threads <= NumCores
    OBVIOUS
  <2> DEFINE th == ThreadsOf(steps, p)
  <2>1. c[p] = AverageCounter(th)
    BY DEF FirstAverages
  <2>2. th \in [Steps -> Int] /\ \A i \in Steps : 1 <= th[i] /\ th[i] <= NumCores
    BY <1>1
  <2> HIDE DEF th, c
  <2> QED
    BY <2>1, <2>2, AverageCounterFacts
<1>3. c \in Counters
  <2>1. c = [p \in Ranks |-> c[p]]
    BY DEF FirstAverages
  <2> HIDE DEF c
  <2> QED
    BY <1>2, <2>1 DEF Counters
<1> QED
  BY <1>2, <1>3 DEF Proper

\* On average, nobody gets more than some step handed out.
LEMMA AverageTotal ==
    ASSUME NEW steps \in ProperSteps, NEW K \in Int,
           \A i \in Steps : Total(steps[i]) <= K
    PROVE  Total(FirstAverages(steps)) <= K
<1> DEFINE c == FirstAverages(steps)
           a == [p \in Ranks |-> c[p].threads]
           wa == [p \in Ranks |-> Window * a[p]]
           f == [p \in Ranks |-> ThreadsOf(steps, p)]
           rows == [p \in Ranks |-> SumFunctionOnSet(f[p], Steps)]
           column == [i \in Steps |-> [p \in Ranks |-> steps[i][p].threads]]
           columns == [i \in Steps |-> SumFunctionOnSet(column[i], Ranks)]
<1>1. \A i \in Steps : steps[i] \in Counters
  BY DEF ProperSteps, Proper
<1>2. \A p \in Ranks : \A i \in Steps : f[p][i] \in Int /\ column[i][p] = f[p][i]
  BY <1>1 DEF ThreadsOf, Counters
<1>3. ASSUME NEW i \in Steps PROVE columns[i] \in Int /\ columns[i] <= K
  <2>1. columns[i] = SumFunctionOnSet([p \in Ranks |-> steps[i][p].threads], Ranks)
    OBVIOUS
  <2> DEFINE s == steps[i]
  <2>2. s \in Counters /\ columns[i] = SumFunctionOnSet([p \in Ranks |-> s[p].threads], Ranks)
        /\ Total(s) <= K
    BY <1>1, <2>1
  <2> HIDE DEF s, columns
  <2>3. columns[i] = Total(s) /\ Total(s) \in Int
    BY <2>2, TotalIsASum
  <2> QED
    BY <2>2, <2>3
<1>4. ASSUME NEW p \in Ranks
      PROVE  a[p] \in Int /\ wa[p] = Window * a[p] /\ wa[p] \in Int
             /\ rows[p] \in Int /\ wa[p] <= rows[p]
  <2> DEFINE th == ThreadsOf(steps, p)
             d == AverageCounter(th)
  <2>1. th \in [Steps -> Int] /\ \A i \in Steps : 1 <= th[i] /\ th[i] <= NumCores
    BY DEF ProperSteps, Proper, Counters, ThreadsOf
  <2>2. rows[p] = SumFunctionOnSet(th, Steps) /\ a[p] = d.threads
        /\ wa[p] = Window * a[p]
    BY DEF FirstAverages
  <2> HIDE DEF th
  <2>3. /\ d \in [threads : Int, delta : Int] /\ SumFunctionOnSet(th, Steps) \in Int
        /\ \E r \in 0 .. Window - 1 :
              SumFunctionOnSet(th, Steps) = Window * d.threads + r
    BY <2>1, AverageCounterFacts
  <2> HIDE DEF d, rows, a, wa
  <2>4. PICK r \in 0 .. Window - 1 : rows[p] = wa[p] + r
    BY <2>2, <2>3
  <2>5. a[p] \in Int /\ wa[p] \in Int /\ rows[p] \in Int
    BY <2>2, <2>3, TopologyAssumption, WindowAssumption
  <2>6. wa[p] <= rows[p]
    BY <2>4, <2>5, TopologyAssumption, WindowAssumption
  <2> QED
    BY <2>2, <2>5, <2>6
<1>5. Total(c) = SumFunctionOnSet(a, Ranks)
  <2>1. c \in Counters
    BY FirstAveragesProper DEF Proper
  <2> HIDE DEF c
  <2> QED
    BY <2>1, TotalIsASum
<1>6. \A p \in Ranks : rows[p] = SumFunctionOnSet(f[p], Steps)
  OBVIOUS
<1>7. \A i \in Steps : columns[i] = SumFunctionOnSet(column[i], Ranks)
  OBVIOUS
<1>8. Window \in Nat \ {0} /\ Window \in Int
  BY TopologyAssumption, WindowAssumption
<1> HIDE DEF c, a, wa, f, rows, column, columns
<1>9. SumFunctionOnSet(rows, Ranks) = SumFunctionOnSet(columns, Steps)
  <2>1. /\ IsTable(f, Ranks, Steps) /\ AreColumns(column, f, Ranks, Steps)
        /\ AreSums(rows, f, Ranks, Steps) /\ AreSums(columns, column, Steps, Ranks)
    BY <1>2, <1>6, <1>7 DEF IsTable, AreColumns, AreSums
  <2> QED
    BY <2>1, RanksFinite, SumExchange
<1>10. SumFunctionOnSet(columns, Steps) <= K * Window
  <2>1. SumFunctionOnSet(columns, Steps) <= K * Cardinality(Steps)
    BY <1>3, RanksFinite, SumBounded
  <2> QED
    BY <2>1, RanksFinite
<1>11. SumFunctionOnSet(wa, Ranks) = Window * SumFunctionOnSet(a, Ranks)
  BY <1>4, <1>8, RanksFinite, SumScale
<1>12. SumFunctionOnSet(wa, Ranks) <= SumFunctionOnSet(rows, Ranks)
  BY <1>4, RanksFinite, SumMonotone
<1>13. /\ SumFunctionOnSet(a, Ranks) \in Int /\ SumFunctionOnSet(wa, Ranks) \in Int
       /\ SumFunctionOnSet(rows, Ranks) \in Int
  BY <1>4, RanksFinite, SumInt
<1>14. Window * SumFunctionOnSet(a, Ranks) <= Window * K
  <2> DEFINE x == Window * SumFunctionOnSet(a, Ranks)
             y == Window * K
  <2>1. y = K * Window /\ y \in Int
    BY <1>8
  <2>2. x <= SumFunctionOnSet(rows, Ranks) /\ SumFunctionOnSet(rows, Ranks) <= y
        /\ x \in Int
    BY <1>9, <1>10, <1>11, <1>12, <1>13, <2>1
  <2> HIDE DEF x, y
  <2>3. x <= y
    BY <1>13, <2>1, <2>2
  <2> QED
    BY <2>3 DEF x, y
<1>15. SumFunctionOnSet(a, Ranks) <= K
  BY <1>8, <1>13, <1>14, ProductCancel
<1> QED
  BY <1>5, <1>15 DEF c

-----------------------------------------------------------------------------
(* The distribution *)

\* Every step of a window somebody worked in gives proper shares.
LEMMA StepsOfProper ==
    ASSUME NEW table \in Tables, ~Undefined(table)
    PROVE  /\ StepsOf(table) \in ProperSteps
           /\ StepsOf(table) \in StepTables
           /\ \A i \in Steps : /\ StepsOf(table)[i] = StepCounters(table, i)
                               /\ StepSum(table, i) # 0
<1>1. \A i \in Steps : StepSum(table, i) # 0
  BY DEF Undefined
<1>2. \A i \in Steps : StepCounters(table, i) \in Proper
  BY <1>1, StepCountersFacts
<1> QED
  BY <1>1, <1>2 DEF StepsOf, ProperSteps, StepTables, Proper

\* The shares are those of the averages, after a last dispatch.
LEMMA DistributionFacts ==
    ASSUME NEW table \in Tables, ~Undefined(table)
    PROVE  LET c == FirstAverages(StepsOf(table))
               d == DispatchRemaining[c]
           IN  /\ c \in Proper /\ d \in Proper
               /\ Distribution(table) = [p \in Ranks |-> d[p].threads]
               /\ SumFunction(Distribution(table)) = Total(d)
               /\ Total(c) >= NumCores => d = c
               /\ Total(c) < NumCores => Total(d) = NumCores
<1> DEFINE c == FirstAverages(StepsOf(table))
           d == DispatchRemaining[c]
<1>1. c \in Proper
  BY StepsOfProper, FirstAveragesProper
<1>2. AverageCounters[StepsOf(table)] = d
  BY StepsOfProper, AverageUnfolded
<1> HIDE DEF c
<1>3. /\ d \in Proper /\ (Total(c) >= NumCores => d = c)
      /\ (Total(c) < NumCores => Total(d) = NumCores)
  BY <1>1, DispatchKeepsProper
<1> HIDE DEF d
<1>4. d \in Counters
  BY <1>3 DEF Proper
<1>5. Distribution(table) = [p \in Ranks |-> d[p].threads]
  BY <1>2, <1>4 DEF Distribution, Threads
<1>6. SumFunction(Distribution(table)) = Total(d)
  BY <1>5 DEF Total
<1> QED
  BY <1>1, <1>3, <1>5, <1>6 DEF c, d

\* Everybody gets a thread at least and the whole node at most; the node is covered.
LEMMA DistributionType ==
    ASSUME NEW table \in Tables, ~Undefined(table)
    PROVE  /\ Distribution(table) \in [Ranks -> 1 .. NumCores]
           /\ SumFunction(Distribution(table)) >= NumCores
<1> DEFINE c == FirstAverages(StepsOf(table))
           d == DispatchRemaining[c]
<1>1. /\ c \in Proper /\ d \in Proper
      /\ Distribution(table) = [p \in Ranks |-> d[p].threads]
      /\ SumFunction(Distribution(table)) = Total(d)
      /\ Total(c) >= NumCores => d = c
      /\ Total(c) < NumCores => Total(d) = NumCores
  BY DistributionFacts
<1> HIDE DEF c, d
<1>2. /\ Total(c) \in Int /\ NumCores \in Nat
      /\ \A p \in Ranks : d[p].threads \in Int /\ 1 <= d[p].threads
                                              /\ d[p].threads <= NumCores
  BY <1>1, TotalInt, CoresPositive DEF Proper, Counters
<1>3. \A p \in Ranks : d[p].threads \in 1 .. NumCores
  BY <1>2
<1> QED
  BY <1>1, <1>2, <1>3
-----------------------------------------------------------------------------
(* Over-allocation *)

\* The largest number of processes raised to a thread in a step exists.
LEMMA MostRaised ==
    ASSUME NEW table \in Tables
    PROVE  LET most == Max({Cardinality({p \in Ranks :
                          table[p][i] * NumCores < StepSum(table, i)}) : i \in Steps})
           IN  most \in Nat /\ \A i \in Steps : Cardinality(Raised(table, i)) <= most
<1> DEFINE f == [i \in Steps |-> Cardinality(Raised(table, i))]
           values == {Cardinality({p \in Ranks :
                          table[p][i] * NumCores < StepSum(table, i)}) : i \in Steps}
<1>1. \A i \in Steps : f[i] = Cardinality(Raised(table, i)) /\ f[i] \in Nat
  <2> TAKE i \in Steps
  <2>1. IsFiniteSet(Raised(table, i))
    BY RanksFinite DEF Raised
  <2> QED
    BY <2>1, FS_CardinalityType
<1>2. values = {f[i] : i \in Steps}
  BY DEF Raised
<1> HIDE DEF f, values
<1>3. PICK i \in Steps : \A j \in Steps : f[j] <= f[i]
  <2>1. 1 \in Steps
    BY TopologyAssumption, WindowAssumption DEF Steps
  <2> QED
    BY <1>1, <2>1, RanksFinite, LargestExists
<1>4. f[i] \in values /\ \A y \in values : f[i] >= y
  BY <1>1, <1>2, <1>3
<1>5. Max(values) \in values /\ \A y \in values : Max(values) >= y
  BY <1>4 DEF Max
<1>6. Max(values) \in Nat /\ \A j \in Steps : f[j] <= Max(values)
  BY <1>1, <1>2, <1>5
<1> QED
  BY <1>1, <1>6 DEF values

\* The node gets too many threads by the processes raised to one, at most.
LEMMA OverAllocation ==
    ASSUME NEW table \in Tables, ~Undefined(table), NEW most \in Nat,
           \A i \in Steps : Cardinality(Raised(table, i)) <= most
    PROVE  SumFunction(Distribution(table)) - NumCores <= most
<1> DEFINE steps == StepsOf(table)
           c == FirstAverages(steps)
           d == DispatchRemaining[c]
           K == NumCores + most
<1>1. /\ SumFunction(Distribution(table)) = Total(d)
      /\ c \in Proper /\ d \in Proper
      /\ Total(c) >= NumCores => d = c
      /\ Total(c) < NumCores => Total(d) = NumCores
  BY DistributionFacts
<1>2. K \in Int /\ NumCores \in Nat
  BY CoresPositive
<1>3. \A i \in Steps : Total(steps[i]) <= K
  <2> SUFFICES ASSUME NEW i \in Steps PROVE Total(steps[i]) <= K
    OBVIOUS
  <2> DEFINE s == StepCounters(table, i)
  <2>1. steps[i] = s /\ s \in Proper /\ Total(s) <= NumCores + Cardinality(Raised(table, i))
    BY StepsOfProper, StepCountersFacts
  <2>2. Total(s) \in Int /\ Cardinality(Raised(table, i)) \in Nat
    <3>1. IsFiniteSet(Raised(table, i))
      BY RanksFinite DEF Raised
    <3>2. s \in Counters
      BY <2>1 DEF Proper
    <3> QED
      BY <3>1, <3>2, TotalInt, FS_CardinalityType
  <2>3. Total(s) <= K
    BY <1>2, <2>1, <2>2
  <2> QED
    BY <2>1, <2>3
<1>4. steps \in ProperSteps
  BY StepsOfProper
<1> HIDE DEF steps, K
<1>5. Total(c) <= K
  BY <1>2, <1>3, <1>4, AverageTotal
<1>6. Total(c) \in Int /\ Total(d) \in Int
  <2>1. c \in Counters /\ d \in Counters
    BY <1>1 DEF Proper
  <2> QED
    BY <2>1, TotalInt
<1>7. Total(d) <= K
  BY <1>1, <1>2, <1>5, <1>6 DEF K
<1> QED
  BY <1>1, <1>2, <1>6, <1>7 DEF K

-----------------------------------------------------------------------------
(* Who worked more gets more *)

\* A remainder that was taken shows in the threads.
SoundDelta(c, p) == /\ c[p].delta >= -1
                    /\ c[p].delta = -1 => c[p].threads >= CoresPerSocket

\* q is at most one thread ahead of p, and then after it in the next scan.
Follows(c, p, q) ==
    \/ c[q].threads <= c[p].threads
    \/ c[q].threads = c[p].threads + 1 /\ c[q].delta <= c[p].delta

\* A thread given to whoever the scan finds keeps q behind p as it was.
LEMMA GivingKeepsFollows ==
    ASSUME NEW c \in Counters, NEW p \in Ranks, NEW q \in Ranks,
           SoundDelta(c, p), SoundDelta(c, q),
           Follows(c, p, q)
    PROVE  LET given == GiveOneThread(c)
           IN  SoundDelta(given, p) /\ SoundDelta(given, q) /\ Follows(given, p, q)
<1> DEFINE given == GiveOneThread(c)
           m == MaxDelta(c)
<1>1. m \in Ranks /\ \A r \in Ranks \ {m} : Beaten(c, r, m)
  BY MaxDeltaIsARank
<1>2. /\ given[m] = [threads |-> c[m].threads + 1,
                     delta |-> IF c[m].threads + 1 > CoresPerSocket THEN -1 ELSE 0]
      /\ \A r \in Ranks \ {m} : given[r] = c[r]
  BY <1>1 DEF GiveOneThread, Counters
<1>3. \A r \in Ranks : c[r].threads \in Int /\ c[r].delta \in Int
  BY DEF Counters
<1> HIDE DEF given, m
<1>4. CoresPerSocket \in Nat \ {0}
  BY TopologyAssumption
<1>5. CASE q = p
  BY <1>1, <1>2, <1>3, <1>4, <1>5 DEF SoundDelta, Follows, given
<1>6. CASE q # p /\ m = p
  <2>1. given[q] = c[q] /\ given[p].threads = c[p].threads + 1
    BY <1>2, <1>6
  <2>2. SoundDelta(given, p) /\ SoundDelta(given, q)
    BY <1>2, <1>3, <1>4, <1>6, <2>1 DEF SoundDelta
  <2>3. given[q].threads <= given[p].threads
    BY <1>3, <2>1 DEF Follows
  <2> QED
    BY <2>2, <2>3 DEF Follows, given
<1>7. CASE q # p /\ m = q
  <2>1. given[p] = c[p] /\ given[q].threads = c[q].threads + 1
        /\ given[q].delta = IF c[q].threads + 1 > CoresPerSocket THEN -1 ELSE 0
    BY <1>2, <1>7
  <2>2. SoundDelta(given, p) /\ SoundDelta(given, q)
    BY <1>3, <1>4, <2>1 DEF SoundDelta
  <2>3. Beaten(c, p, q)
    BY <1>1, <1>7
  <2>4. c[q].threads <= c[p].threads
    <3> SUFFICES ASSUME c[q].threads = c[p].threads + 1, c[q].delta <= c[p].delta
                 PROVE  FALSE
      BY DEF Follows
    <3> QED
      BY <1>3, <2>3 DEF Beaten
  <2>5. Follows(given, p, q)
    BY <1>3, <1>4, <2>1, <2>4 DEF Follows, SoundDelta
  <2> QED
    BY <2>2, <2>5 DEF given
<1>8. CASE m # p /\ m # q
  <2>1. given[p] = c[p] /\ given[q] = c[q]
    BY <1>2, <1>8
  <2> QED
    BY <2>1 DEF SoundDelta, Follows, given
<1> QED
  BY <1>5, <1>6, <1>7, <1>8

\* Threads are only ever given.
LEMMA GivingAdds ==
    ASSUME NEW c \in Counters, NEW p \in Ranks
    PROVE  GiveOneThread(c)[p].threads >= c[p].threads
<1> DEFINE given == GiveOneThread(c)
           m == MaxDelta(c)
<1>1. /\ given[m].threads = c[m].threads + 1
      /\ \A q \in Ranks \ {m} : given[q] = c[q]
  BY OneThreadGiven
<1>2. c[p].threads \in Int
  BY DEF Counters
<1> HIDE DEF given, m
<1>3. given[p].threads >= c[p].threads
  BY <1>1, <1>2
<1> QED
  BY <1>3 DEF given

\* In a step: who worked as long is one thread behind at most.
LEMMA StepFollows ==
    ASSUME NEW table \in Tables, NEW i \in Steps, StepSum(table, i) # 0,
           NEW p \in Ranks, NEW q \in Ranks, table[p][i] >= table[q][i]
    PROVE  StepCounters(table, i)[q].threads <= StepCounters(table, i)[p].threads + 1
<1> DEFINE sum == StepSum(table, i)
           c == FirstCounters(table, i)
           J == {k \in Counters : SoundDelta(k, p) /\ SoundDelta(k, q) /\ Follows(k, p, q)}
           scaled(r) == table[r][i] * NumCores
<1>1. sum \in Nat \ {0} /\ \A r \in Ranks : table[r][i] \in Nat
  BY StepSumIsASum DEF Tables
<1>2. c \in Counters
  BY FirstCountersProper DEF Proper
<1>3. NumCores \in Nat \ {0} /\ CoresPerSocket \in Nat \ {0}
  BY CoresPositive, TopologyAssumption
<1>4. \A r \in Ranks : scaled(r) \in Nat
  BY <1>1, <1>3
<1>5. scaled(q) <= scaled(p)
  <2>1. NumCores * table[q][i] <= NumCores * table[p][i]
    BY <1>1, <1>3, ProductMonotone
  <2>2. \A r \in Ranks : scaled(r) = NumCores * table[r][i]
    BY <1>1, <1>3
  <2> QED
    BY <2>1, <2>2
<1>6. \A r \in Ranks :
         c[r] = IF scaled(r) \div sum = 0 THEN [threads |-> 1, delta |-> 0]
                ELSE IF scaled(r) \div sum > CoresPerSocket
                THEN [threads |-> CoresPerSocket, delta |-> -1]
                ELSE [threads |-> scaled(r) \div sum, delta |-> scaled(r) % sum]
  BY DEF FirstCounters, StepCounter
<1> HIDE DEF sum, c, scaled
<1>7. \A r \in Ranks : /\ scaled(r) \div sum \in Nat /\ scaled(r) % sum \in Nat
                       /\ scaled(r) = sum * (scaled(r) \div sum) + (scaled(r) % sum)
                       /\ scaled(r) % sum < sum
  <2> TAKE r \in Ranks
  <2> DEFINE w == scaled(r)
  <2>1. w \in Nat
    BY <1>4
  <2> HIDE DEF w
  <2>2. w \div sum \in Nat /\ w % sum \in 0 .. sum - 1
        /\ w = sum * (w \div sum) + (w % sum)
    BY <1>1, <2>1, Quotient
  <2>3. w % sum \in Nat /\ w % sum < sum
    BY <1>1, <2>2
  <2> QED
    BY <2>2, <2>3 DEF w
<1>8. scaled(q) \div sum <= scaled(p) \div sum
  <2> DEFINE x == scaled(q) \div sum
             y == scaled(p) \div sum
             rx == scaled(q) % sum
             ry == scaled(p) % sum
  <2>1. /\ x \in Nat /\ y \in Nat /\ rx \in Nat /\ ry \in Nat /\ ry < sum
        /\ scaled(q) = sum * x + rx /\ scaled(p) = sum * y + ry
    BY <1>7
  <2> HIDE DEF x, y, rx, ry
  <2> SUFFICES ASSUME y + 1 <= x PROVE FALSE
    BY <2>1 DEF x, y
  <2>2. sum * (y + 1) <= sum * x /\ sum * (y + 1) = sum * y + sum
    BY <1>1, <2>1, ProductMonotone
  <2> DEFINE a == sum * x
             b == sum * y
  <2>3. a \in Int /\ b \in Int /\ b + sum <= a /\ a + rx <= b + ry
    BY <1>1, <1>5, <2>1, <2>2
  <2> HIDE DEF a, b
  <2> QED
    BY <1>1, <2>1, <2>3
<1>9. SoundDelta(c, p) /\ SoundDelta(c, q)
  <2>1. ASSUME NEW r \in Ranks PROVE SoundDelta(c, r)
    <3> DEFINE x == scaled(r) \div sum
               z == scaled(r) % sum
    <3>1. /\ x \in Nat /\ z \in Nat
          /\ c[r] = IF x = 0 THEN [threads |-> 1, delta |-> 0]
                    ELSE IF x > CoresPerSocket THEN [threads |-> CoresPerSocket, delta |-> -1]
                    ELSE [threads |-> x, delta |-> z]
      BY <1>6, <1>7
    <3> HIDE DEF x, z
    <3> QED
      BY <1>3, <3>1 DEF SoundDelta
  <2> QED
    BY <2>1
<1>10. c[q].threads <= c[p].threads
  <2> DEFINE x == scaled(q) \div sum
             y == scaled(p) \div sum
             rx == scaled(q) % sum
             ry == scaled(p) % sum
  <2>1. x \in Nat /\ y \in Nat /\ x <= y
    BY <1>7, <1>8
  <2>2. /\ c[q] = IF x = 0 THEN [threads |-> 1, delta |-> 0]
                  ELSE IF x > CoresPerSocket THEN [threads |-> CoresPerSocket, delta |-> -1]
                  ELSE [threads |-> x, delta |-> rx]
        /\ c[p] = IF y = 0 THEN [threads |-> 1, delta |-> 0]
                  ELSE IF y > CoresPerSocket THEN [threads |-> CoresPerSocket, delta |-> -1]
                  ELSE [threads |-> y, delta |-> ry]
    BY <1>6
  <2> HIDE DEF x, y, rx, ry
  <2>3. /\ c[q].threads = IF x = 0 THEN 1 ELSE IF x > CoresPerSocket THEN CoresPerSocket ELSE x
        /\ c[p].threads = IF y = 0 THEN 1 ELSE IF y > CoresPerSocket THEN CoresPerSocket ELSE y
    BY <2>2
  <2> QED
    BY <1>3, <2>1, <2>3
<1>11. c \in J /\ J \in SUBSET Counters
  BY <1>2, <1>9, <1>10 DEF Follows
<1>12. \A k \in J : GiveOneThread(k) \in J
  BY GivingKeepsFollows, OneThreadGiven
<1>13. DispatchRemaining[c] \in J
  <2> HIDE DEF J
  <2> QED
    BY <1>2, <1>11, <1>12, DispatchResult
<1>14. StepCounters(table, i) = DispatchRemaining[c]
  BY StepCountersUnfolded DEF c
<1>15. \A k \in J : k[q].threads <= k[p].threads + 1
  BY DEF Follows, Counters
<1> QED
  BY <1>13, <1>14, <1>15

\* Over the window: the average of who worked as long is one thread behind at
\* most, and then before the other in the last scan, unless it has a socket.
LEMMA AverageFollows ==
    ASSUME NEW steps \in ProperSteps, NEW p \in Ranks, NEW q \in Ranks,
           \A i \in Steps : steps[i][q].threads <= steps[i][p].threads + 1
    PROVE  LET c == FirstAverages(steps)
           IN  /\ c \in Counters /\ SoundDelta(c, p) /\ SoundDelta(c, q)
               /\ c[p].threads >= CoresPerSocket \/ Follows(c, p, q)
<1> DEFINE c == FirstAverages(steps)
           tp == ThreadsOf(steps, p)
           tq == ThreadsOf(steps, q)
           tp1 == [i \in Steps |-> tp[i] + 1]
<1>1. /\ tp \in [Steps -> Int] /\ \A i \in Steps : 1 <= tp[i] /\ tp[i] <= NumCores
      /\ tq \in [Steps -> Int] /\ \A i \in Steps : 1 <= tq[i] /\ tq[i] <= NumCores
  BY DEF ProperSteps, Proper, Counters, ThreadsOf
<1>2. \A i \in Steps : tq[i] <= tp[i] + 1
  BY DEF ThreadsOf
<1>3. c[p] = AverageCounter(tp) /\ c[q] = AverageCounter(tq)
  BY DEF FirstAverages
<1>4. c \in Counters
  BY FirstAveragesProper DEF Proper
<1> HIDE DEF c, tp, tq
<1>5. \A i \in Steps : /\ tp[i] \in Int /\ tq[i] \in Int /\ tp1[i] = tp[i] + 1
                       /\ tp1[i] \in Int /\ tq[i] <= tp1[i]
  BY <1>1, <1>2
<1> HIDE DEF tp1
<1>6. SumFunctionOnSet(tq, Steps) <= SumFunctionOnSet(tp, Steps) + Window
  <2>1. SumFunctionOnSet(tq, Steps) <= SumFunctionOnSet(tp1, Steps)
    BY <1>5, RanksFinite, SumMonotone
  <2>2. SumFunctionOnSet(tp1, Steps) = SumFunctionOnSet(tp, Steps) + Cardinality(Steps)
    BY <1>5, RanksFinite, SumPlusOne
  <2> QED
    BY <2>1, <2>2, RanksFinite
<1>7. PICK rp \in 0 .. Window - 1 :
         /\ SumFunctionOnSet(tp, Steps) = Window * c[p].threads + rp
         /\ c[p].delta = IF c[p].threads = CoresPerSocket THEN -1 ELSE rp
         /\ c[p].threads \in Int
  BY <1>1, <1>3, AverageCounterFacts
<1>8. PICK rq \in 0 .. Window - 1 :
         /\ SumFunctionOnSet(tq, Steps) = Window * c[q].threads + rq
         /\ c[q].delta = IF c[q].threads = CoresPerSocket THEN -1 ELSE rq
         /\ c[q].threads \in Int
  BY <1>1, <1>3, AverageCounterFacts
<1>9. CoresPerSocket \in Nat \ {0} /\ Window \in Nat \ {0}
  BY TopologyAssumption, WindowAssumption
<1> DEFINE x == c[q].threads
           y == c[p].threads
           a == Window * x
           b == Window * y
<1>10. x \in Int /\ y \in Int /\ a \in Int /\ b \in Int /\ a + rq <= b + rp + Window
  BY <1>6, <1>7, <1>8, <1>9
<1>11. x >= y + 2 => b + Window + Window <= a
  <2> SUFFICES ASSUME y + 2 <= x PROVE b + Window + Window <= a
    BY <1>10
  <2>1. Window * (y + 2) <= Window * x
    BY <1>9, <1>10, ProductMonotone
  <2>2. Window * (y + 2) = b + Window + Window
    BY <1>9, <1>10
  <2> QED
    BY <2>1, <2>2
<1>12. x = y + 1 => a = b + Window
  BY <1>9, <1>10
<1> HIDE DEF a, b
<1>13. x <= y + 1 /\ (x = y + 1 => rq <= rp)
  BY <1>7, <1>8, <1>9, <1>10, <1>11, <1>12
<1>14. SoundDelta(c, p) /\ SoundDelta(c, q)
  BY <1>7, <1>8, <1>9 DEF SoundDelta
<1>15. y >= CoresPerSocket \/ Follows(c, p, q)
  BY <1>7, <1>8, <1>9, <1>10, <1>13 DEF Follows
<1> QED
  BY <1>4, <1>14, <1>15 DEF c

\* Shares follow the load.
LEMMA DistributionFollows ==
    ASSUME NEW table \in Tables, ~Undefined(table),
           NEW p \in Ranks, NEW q \in Ranks,
           \A i \in Steps : table[p][i] >= table[q][i]
    PROVE  \/ Distribution(table)[p] + 1 >= Distribution(table)[q]
           \/ Distribution(table)[p] >= CoresPerSocket
<1> DEFINE steps == StepsOf(table)
           c == FirstAverages(steps)
           d == DispatchRemaining[c]
           J == {k \in Counters : /\ SoundDelta(k, p) /\ SoundDelta(k, q)
                                  /\ k[p].threads >= CoresPerSocket \/ Follows(k, p, q)}
<1>1. steps \in ProperSteps
      /\ \A i \in Steps : steps[i] = StepCounters(table, i) /\ StepSum(table, i) # 0
  BY StepsOfProper
<1>2. \A i \in Steps : steps[i][q].threads <= steps[i][p].threads + 1
  BY <1>1, StepFollows
<1>3. Distribution(table) = [r \in Ranks |-> d[r].threads]
  BY DistributionFacts
<1> HIDE DEF steps
<1>4. c \in J /\ c \in Counters
  BY <1>1, <1>2, AverageFollows
<1>5. ASSUME NEW k \in J PROVE GiveOneThread(k) \in J
  <2> DEFINE g == GiveOneThread(k)
  <2>1. k \in Counters /\ g \in Counters /\ SoundDelta(k, p) /\ SoundDelta(k, q)
    BY OneThreadGiven
  <2>2. SoundDelta(g, p) /\ SoundDelta(g, q)
    <3>1. \A r \in Ranks : SoundDelta(k, r) => SoundDelta(g, r)
      <4> TAKE r \in Ranks
      <4>1. Follows(k, r, r)
        BY <2>1 DEF Follows, Counters
      <4> HIDE DEF g
      <4> QED
        BY <2>1, <4>1, GivingKeepsFollows DEF g
    <3> QED
      BY <2>1, <3>1
  <2>3. CASE k[p].threads >= CoresPerSocket
    <3>1. g[p].threads >= k[p].threads
      BY <2>1, GivingAdds
    <3>2. g[p].threads \in Int /\ k[p].threads \in Int /\ CoresPerSocket \in Int
      BY <2>1, TopologyAssumption, WindowAssumption DEF Counters
    <3> HIDE DEF g
    <3> QED
      BY <2>1, <2>2, <2>3, <3>1, <3>2 DEF g
  <2>4. CASE Follows(k, p, q)
    <3>1. Follows(g, p, q)
      BY <2>1, <2>4, GivingKeepsFollows
    <3> HIDE DEF g
    <3> QED
      BY <2>1, <2>2, <3>1 DEF g
  <2> QED
    BY <2>3, <2>4
<1>6. d \in J
  <2>1. J \in SUBSET Counters /\ \A k \in J : GiveOneThread(k) \in J
    BY <1>5
  <2> HIDE DEF J, c
  <2> QED
    BY <1>4, <2>1, DispatchResult
<1>7. \A k \in J : k[p].threads + 1 >= k[q].threads \/ k[p].threads >= CoresPerSocket
  BY DEF Follows, Counters
<1> QED
  BY <1>3, <1>6, <1>7

-----------------------------------------------------------------------------
(* Every table of times *)

FeedInv == /\ measured \in [Ranks -> [Steps -> 0 .. MaxTime]]
           /\ ~Undefined(measured)

\* What is fed to the computation is a table of times.
LEMMA FedTables == FeedInv => measured \in Tables
BY FeedAssumption DEF FeedInv, Tables

\* It stays one, and no step of it is without any time.
LEMMA FeedInvariant == FeedSpec => []FeedInv
<1>1. FeedInit => FeedInv
  <2> SUFFICES ASSUME FeedInit PROVE FeedInv
    OBVIOUS
  <2>1. measured \in [Ranks -> [Steps -> 0 .. MaxTime]] /\ measured \in Tables
        /\ \A p \in Ranks : \A i \in Steps : measured[p][i] = 1
    BY FeedAssumption DEF FeedInit, FirstTimes, Tables
  <2>2. ASSUME NEW i \in Steps PROVE StepSum(measured, i) # 0
    <3> DEFINE f == [p \in Ranks |-> measured[p][i]]
    <3>1. StepSum(measured, i) = SumFunctionOnSet(f, Ranks) /\ StepSum(measured, i) \in Nat
      BY <2>1, StepSumIsASum
    <3>2. 0 \in Ranks
      BY TopologyAssumption DEF Ranks
    <3>3. \A p \in Ranks : f[p] = 1 /\ f[p] \in Nat
      BY <2>1
    <3> HIDE DEF f
    <3>4. f[0] <= SumFunctionOnSet(f, Ranks)
      BY <3>2, <3>3, RanksFinite, SumElement
    <3> QED
      BY <3>1, <3>2, <3>3, <3>4
  <2> QED
    BY <2>1, <2>2 DEF FeedInv, Undefined
<1>2. FeedInv /\ [FeedNext]_inputs => FeedInv'
  <2> SUFFICES ASSUME FeedInv, [FeedNext]_inputs PROVE FeedInv'
    OBVIOUS
  <2>1. CASE Measure
    BY <2>1 DEF Measure, FeedInv
  <2>2. CASE UNCHANGED measured
    BY <2>2 DEF FeedInv, Undefined, StepSum
  <2>3. UNCHANGED measured \/ Measure
    BY DEF FeedNext, AskThreads, RunFrom, inputs
  <2> QED
    BY <2>1, <2>2, <2>3
<1> QED
  BY <1>1, <1>2, PTL DEF FeedSpec

\* Everybody has a thread, however little it worked, for every node, window and
\* table of times (core_compute_new_threads_distribution, sabo.c:392-576).
THEOREM SharesTyped == FeedSpec => []SharesTypeOK
<1>1. FeedInv => SharesTypeOK
  BY FedTables, DistributionType DEF FeedInv, SharesTypeOK
<1> QED
  BY <1>1, FeedInvariant, PTL

\* No core is left without a thread, for every node, window and table of times
\* (core_dispatch_unused_cores, sabo.c:476).
THEOREM NodeAlwaysCovered == FeedSpec => []NodeIsCovered
<1>1. FeedInv => NodeIsCovered
  BY FedTables, DistributionType DEF FeedInv, NodeIsCovered
<1> QED
  BY <1>1, FeedInvariant, PTL

\* The node gets too many threads by the processes raised to one thread in the
\* worst step, at most (sabo.c:440).
THEOREM OverAllocationBounded == FeedSpec => []OverAllocationIsBounded
<1>1. FeedInv => OverAllocationIsBounded
  BY FedTables, MostRaised, OverAllocation DEF FeedInv, OverAllocationIsBounded
<1> QED
  BY <1>1, FeedInvariant, PTL

\* Who worked as long in every step is one thread behind at most, or has a
\* socket, through floors, caps, remainders, ties and averages (sabo.c:392-576).
THEOREM SharesFollow == FeedSpec => []SharesFollowLoad
<1>1. FeedInv => SharesFollowLoad
  <2> SUFFICES ASSUME FeedInv, NEW p \in Ranks, NEW q \in Ranks,
                      \A i \in Steps : measured[p][i] >= measured[q][i]
               PROVE  \/ Distribution(measured)[p] + 1 >= Distribution(measured)[q]
                      \/ Distribution(measured)[p] >= CoresPerSocket
    BY DEF SharesFollowLoad
  <2> QED
    BY FedTables, DistributionFollows DEF FeedInv
<1> QED
  BY <1>1, FeedInvariant, PTL
-----------------------------------------------------------------------------
(* Adjusting a placement to the cores *)

\* A function from thread counts to thread counts that satisfies the shrinking
\* loop's definition.
IsShrinking(g, order, members) ==
    g = [threads \in ThreadCounts |->
            IF \/ FreeCores(threads, members) >= 0
               \/ Shrinkable(threads, order, members) = {}
            THEN threads
            ELSE g[Shrunk(threads, order, members)]]

IsGrowing(g, members) ==
    g = [threads \in ThreadCounts |->
            IF FreeCores(threads, members) <= 0 \/ members = {} THEN threads
            ELSE g[Grown(threads, members)]]

\* The shrinking loop of a socket is some function with that definition.
LEMMA ShrinkUnfolded ==
    ASSUME NEW order, NEW members
    PROVE  ShrinkSocket(order, members)
             = (CHOOSE g : IsShrinking(g, order, members))[order]
BY DEF ShrinkSocket, IsShrinking

\* The growing loop of a socket is some function with its own.
LEMMA GrowUnfolded ==
    ASSUME NEW start, NEW members
    PROVE  GrowSocket(start, members) = (CHOOSE g : IsGrowing(g, members))[start]
BY DEF GrowSocket, IsGrowing

\* The cores left are an integer.
LEMMA FreeCoresInt ==
    ASSUME NEW threads \in ThreadCounts, NEW members \in SUBSET Ranks
    PROVE  FreeCores(threads, members) \in Int
<1>1. SumFunctionOnSet(threads, members) \in Int
  BY RanksFinite, SumInt DEF ThreadCounts
<1> QED
  BY <1>1, TopologyAssumption DEF FreeCores

\* A pass of the shrinking loop frees a core at least.
LEMMA ShrunkFrees ==
    ASSUME NEW threads \in ThreadCounts, NEW order, NEW members \in SUBSET Ranks
    PROVE  /\ Shrunk(threads, order, members) \in ThreadCounts
           /\ Shrinkable(threads, order, members) # {} =>
                FreeCores(Shrunk(threads, order, members), members)
                  > FreeCores(threads, members)
<1> DEFINE T == Shrinkable(threads, order, members)
           s == Shrunk(threads, order, members)
           R == members \ T
<1>1. s \in ThreadCounts
  BY DEF Shrunk, ThreadCounts
<1>2. T \in SUBSET members /\ T \in SUBSET Ranks /\ R \in SUBSET Ranks
      /\ T \cup R = members /\ T \cap R = {}
  BY DEF Shrinkable
<1>3. /\ \A p \in T : threads[p] = s[p] + 1
      /\ \A p \in R : threads[p] = s[p]
      /\ \A p \in Ranks : threads[p] \in Int /\ s[p] \in Int
  BY <1>1, <1>2 DEF Shrunk, ThreadCounts
<1> HIDE DEF T, s, R
<1>4. IsFiniteSet(T) /\ IsFiniteSet(R)
  BY <1>2, RanksFinite
<1>5. SumFunctionOnSet(threads, T) = SumFunctionOnSet(s, T) + Cardinality(T)
  <2>1. \A p \in T : s[p] \in Int /\ threads[p] = s[p] + 1
    BY <1>2, <1>3
  <2> QED
    BY <1>4, <2>1, SumPlusOne
<1>6. SumFunctionOnSet(threads, R) = SumFunctionOnSet(s, R)
  <2>1. \A p \in R : threads[p] \in Int /\ threads[p] = s[p]
    BY <1>2, <1>3
  <2> QED
    BY <1>4, <2>1, SumCongruence
<1>7. /\ SumFunctionOnSet(threads, T \cup R)
           = SumFunctionOnSet(threads, T) + SumFunctionOnSet(threads, R)
      /\ SumFunctionOnSet(s, T \cup R)
           = SumFunctionOnSet(s, T) + SumFunctionOnSet(s, R)
  BY <1>2, <1>3, <1>4, SumDisjoint
<1>8. SumFunctionOnSet(s, T) \in Int /\ SumFunctionOnSet(s, R) \in Int
  BY <1>2, <1>3, <1>4, SumInt
<1>9. T # {} => Cardinality(T) \in Nat /\ Cardinality(T) # 0
  BY <1>4, FS_EmptySet, FS_CardinalityType
<1>10. T # {} => SumFunctionOnSet(s, members) < SumFunctionOnSet(threads, members)
                 /\ SumFunctionOnSet(s, members) \in Int
                 /\ SumFunctionOnSet(threads, members) \in Int
  <2>1. T # {} => SumFunctionOnSet(s, T \cup R) < SumFunctionOnSet(threads, T \cup R)
                 /\ SumFunctionOnSet(s, T \cup R) \in Int
                 /\ SumFunctionOnSet(threads, T \cup R) \in Int
    BY <1>5, <1>6, <1>7, <1>8, <1>9
  <2> QED
    BY <1>2, <2>1
<1>11. T # {} => FreeCores(s, members) > FreeCores(threads, members)
  BY <1>10, TopologyAssumption DEF FreeCores
<1> QED
  BY <1>1, <1>11 DEF T, s

\* It takes a thread from nobody who has one only.
LEMMA ShrunkLeavesOne ==
    ASSUME NEW threads \in ThreadCounts, NEW order, NEW members \in SUBSET Ranks,
           \A p \in Ranks : threads[p] >= 1
    PROVE  \A p \in Ranks : Shrunk(threads, order, members)[p] >= 1
<1> SUFFICES ASSUME NEW p \in Ranks
             PROVE  Shrunk(threads, order, members)[p] >= 1
  OBVIOUS
<1>1. p \in Shrinkable(threads, order, members) => threads[p] # 1
  BY DEF Shrinkable
<1>2. threads[p] \in Int /\ threads[p] >= 1
  BY DEF ThreadCounts
<1> HIDE DEF Shrinkable
<1> QED
  BY <1>1, <1>2 DEF Shrunk

\* What the shrinking loop keeps from one pass to the next holds when it ends.
LEMMA ShrinkRule ==
    ASSUME NEW order \in ThreadCounts, NEW members \in SUBSET Ranks,
           NEW I \in SUBSET ThreadCounts, order \in I,
           \A t \in I : (FreeCores(t, members) < 0 /\ Shrinkable(t, order, members) # {})
                           => Shrunk(t, order, members) \in I
    PROVE  LET result == ShrinkSocket(order, members)
           IN  /\ result \in I
               /\ FreeCores(result, members) >= 0 \/ Shrinkable(result, order, members) = {}
<1> DEFINE done == {t \in ThreadCounts : FreeCores(t, members) >= 0
                                           \/ Shrinkable(t, order, members) = {}}
           out  == [t \in ThreadCounts |-> t]
           next == [t \in ThreadCounts |-> Shrunk(t, order, members)]
           mu   == [t \in ThreadCounts |->
                      IF FreeCores(t, members) >= 0 THEN 0 ELSE - FreeCores(t, members)]
           g    == CHOOSE g : IsShrinking(g, order, members)
<1>1. \A t \in ThreadCounts : mu[t] \in Nat
  BY FreeCoresInt
<1>2. \A t \in ThreadCounts \ done : next[t] \in ThreadCounts /\ mu[next[t]] < mu[t]
  <2> SUFFICES ASSUME NEW t \in ThreadCounts \ done
               PROVE  next[t] \in ThreadCounts /\ mu[next[t]] < mu[t]
    OBVIOUS
  <2>1. /\ next[t] \in ThreadCounts
        /\ FreeCores(next[t], members) > FreeCores(t, members)
    BY ShrunkFrees
  <2>2. FreeCores(t, members) < 0 /\ FreeCores(t, members) \in Int
        /\ FreeCores(next[t], members) \in Int
    BY <2>1, FreeCoresInt
  <2>3. /\ mu[next[t]] = IF FreeCores(next[t], members) >= 0 THEN 0
                         ELSE - FreeCores(next[t], members)
        /\ mu[t] = - FreeCores(t, members)
    BY <2>1, <2>2
  <2> HIDE DEF mu, next, done
  <2> QED
    BY <2>1, <2>2, <2>3
<1>3. \A h : IsLoop(h, ThreadCounts, done, out, next) <=> IsShrinking(h, order, members)
  <2> TAKE h
  <2>1. [x \in ThreadCounts |-> IF x \in done THEN out[x] ELSE h[next[x]]]
        = [threads \in ThreadCounts |->
            IF \/ FreeCores(threads, members) >= 0
               \/ Shrinkable(threads, order, members) = {}
            THEN threads
            ELSE h[Shrunk(threads, order, members)]]
    OBVIOUS
  <2> HIDE DEF done, out, next
  <2> QED
    BY <2>1 DEF IsLoop, IsShrinking
<1>4. \A t \in ThreadCounts : out[t] = t
  OBVIOUS
<1>5. I \in SUBSET ThreadCounts /\ \A t \in I \ done : next[t] \in I
  BY FreeCoresInt
<1>6. \A t \in done : FreeCores(t, members) >= 0 \/ Shrinkable(t, order, members) = {}
  OBVIOUS
<1>7. ShrinkSocket(order, members) = g[order]
  BY ShrinkUnfolded
<1> HIDE DEF done, out, next, mu, g
<1>8. \E h : IsLoop(h, ThreadCounts, done, out, next)
  BY <1>1, <1>2, LoopExists
<1>9. IsLoop(g, ThreadCounts, done, out, next)
  BY <1>3, <1>8 DEF g
<1>10. \E y \in I \cap done : g[order] = out[y]
  BY <1>1, <1>2, <1>5, <1>9, LoopInvariant
<1> QED
  BY <1>4, <1>5, <1>6, <1>7, <1>10

\* The shrinking loop ends, with a count of threads for everybody, and nobody
\* left without a thread.
LEMMA ShrinkResult ==
    ASSUME NEW order \in ThreadCounts, NEW members \in SUBSET Ranks,
           \A p \in Ranks : order[p] >= 1
    PROVE  LET result == ShrinkSocket(order, members)
           IN  result \in ThreadCounts /\ \A p \in Ranks : result[p] >= 1
<1> DEFINE I == {t \in ThreadCounts : \A p \in Ranks : t[p] >= 1}
<1>1. order \in I /\ I \in SUBSET ThreadCounts
  OBVIOUS
<1>2. \A t \in I : Shrunk(t, order, members) \in I
  BY ShrunkFrees, ShrunkLeavesOne
<1>3. ShrinkSocket(order, members) \in I
  <2> HIDE DEF I
  <2> QED
    BY <1>1, <1>2, ShrinkRule
<1> QED
  BY <1>3

\* A pass of the growing loop gives a thread to everybody on the socket.
LEMMA GrownTakes ==
    ASSUME NEW threads \in ThreadCounts, NEW members \in SUBSET Ranks
    PROVE  /\ Grown(threads, members) \in ThreadCounts
           /\ \A p \in Ranks : Grown(threads, members)[p] >= threads[p]
           /\ FreeCores(Grown(threads, members), members)
                = FreeCores(threads, members) - Cardinality(members)
<1> DEFINE t == Grown(threads, members)
<1>1. t \in ThreadCounts /\ \A p \in Ranks : t[p] >= threads[p]
  BY DEF Grown, ThreadCounts
<1>2. \A p \in members : threads[p] \in Int /\ t[p] = threads[p] + 1
  BY DEF Grown, ThreadCounts
<1> HIDE DEF t
<1>3. SumFunctionOnSet(t, members) = SumFunctionOnSet(threads, members)
                                       + Cardinality(members)
  BY <1>2, RanksFinite, SumPlusOne
<1>4. SumFunctionOnSet(threads, members) \in Int /\ Cardinality(members) \in Nat
  BY <1>2, RanksFinite, SumInt, FS_CardinalityType
<1>5. FreeCores(t, members) = FreeCores(threads, members) - Cardinality(members)
  BY <1>3, <1>4, TopologyAssumption DEF FreeCores
<1> QED
  BY <1>1, <1>5 DEF t

\* The growing loop ends.  When it is started with no core missing, it leaves
\* none free, and is short of less than one core per process.
LEMMA GrowResult ==
    ASSUME NEW start \in ThreadCounts, NEW members \in SUBSET Ranks,
           \A p \in Ranks : start[p] >= 1
    PROVE  LET result == GrowSocket(start, members)
           IN  /\ result \in ThreadCounts
               /\ \A p \in Ranks : result[p] >= 1
               /\ FreeCores(start, members) >= 0 /\ members # {} =>
                    /\ FreeCores(result, members) <= 0
                    /\ FreeCores(result, members) > - Cardinality(members)
<1> DEFINE done == {t \in ThreadCounts : FreeCores(t, members) <= 0 \/ members = {}}
           out  == [t \in ThreadCounts |-> t]
           next == [t \in ThreadCounts |-> Grown(t, members)]
           mu   == [t \in ThreadCounts |->
                      IF FreeCores(t, members) <= 0 THEN 0 ELSE FreeCores(t, members)]
           I    == {t \in ThreadCounts :
                      /\ \A p \in Ranks : t[p] >= 1
                      /\ FreeCores(start, members) >= 0 /\ members # {} =>
                           FreeCores(t, members) > - Cardinality(members)}
           g    == CHOOSE g : IsGrowing(g, members)
<1>0. /\ Cardinality(members) \in Nat
      /\ members # {} => Cardinality(members) # 0
  BY RanksFinite, FS_CardinalityType, FS_EmptySet
<1>1. \A t \in ThreadCounts : mu[t] \in Nat
  BY FreeCoresInt
<1>2. \A t \in ThreadCounts \ done : next[t] \in ThreadCounts /\ mu[next[t]] < mu[t]
  <2> SUFFICES ASSUME NEW t \in ThreadCounts \ done
               PROVE  next[t] \in ThreadCounts /\ mu[next[t]] < mu[t]
    OBVIOUS
  <2>1. /\ next[t] \in ThreadCounts
        /\ FreeCores(next[t], members) = FreeCores(t, members) - Cardinality(members)
    BY GrownTakes
  <2>2. FreeCores(t, members) > 0 /\ FreeCores(t, members) \in Int /\ members # {}
    BY FreeCoresInt
  <2>3. /\ mu[next[t]] = IF FreeCores(next[t], members) <= 0 THEN 0
                         ELSE FreeCores(next[t], members)
        /\ mu[t] = FreeCores(t, members)
    BY <2>1, <2>2
  <2> HIDE DEF mu, next, done
  <2> QED
    BY <1>0, <2>1, <2>2, <2>3
<1>3. \A h : IsLoop(h, ThreadCounts, done, out, next) <=> IsGrowing(h, members)
  <2> TAKE h
  <2>1. [x \in ThreadCounts |-> IF x \in done THEN out[x] ELSE h[next[x]]]
        = [threads \in ThreadCounts |->
            IF FreeCores(threads, members) <= 0 \/ members = {} THEN threads
            ELSE h[Grown(threads, members)]]
    OBVIOUS
  <2> HIDE DEF done, out, next
  <2> QED
    BY <2>1 DEF IsLoop, IsGrowing
<1>4. \A t \in ThreadCounts : out[t] = t
  OBVIOUS
<1>5. I \in SUBSET ThreadCounts /\ \A t \in I \ done : next[t] \in I
  <2> SUFFICES ASSUME NEW t \in I \ done PROVE next[t] \in I
    OBVIOUS
  <2>1. /\ next[t] \in ThreadCounts
        /\ \A p \in Ranks : next[t][p] >= t[p] /\ t[p] >= 1
        /\ FreeCores(next[t], members) = FreeCores(t, members) - Cardinality(members)
    BY GrownTakes
  <2>2. FreeCores(t, members) > 0 /\ FreeCores(t, members) \in Int
    BY FreeCoresInt
  <2>3. FreeCores(next[t], members) > - Cardinality(members)
    BY <1>0, <2>1, <2>2
  <2>4. \A p \in Ranks : next[t][p] >= 1
    <3>1. \A p \in Ranks : next[t][p] \in Int /\ t[p] \in Int
      BY <2>1 DEF ThreadCounts
    <3> HIDE DEF next
    <3> QED
      BY <2>1, <3>1
  <2> QED
    BY <2>1, <2>3, <2>4
<1>6. start \in I
  BY <1>0, FreeCoresInt
<1>7. GrowSocket(start, members) = g[start]
  BY GrowUnfolded
<1>8. \A t \in I \cap done : members # {} => FreeCores(t, members) <= 0
  OBVIOUS
<1> HIDE DEF done, out, next, mu, g
<1>9. \E h : IsLoop(h, ThreadCounts, done, out, next)
  BY <1>1, <1>2, LoopExists
<1>10. IsLoop(g, ThreadCounts, done, out, next)
  BY <1>3, <1>9 DEF g
<1>11. PICK y \in I \cap done : g[start] = out[y]
  <2> HIDE DEF I
  <2> QED
    BY <1>1, <1>2, <1>5, <1>6, <1>10, LoopInvariant
<1>12. GrowSocket(start, members) = y
  BY <1>4, <1>7, <1>11
<1> QED
  BY <1>8, <1>11, <1>12

\* No socket has a core free, nor as many threads too many as it has processes.
Tight(members) ==
    \A s \in Sockets :
        LET here == {q \in Ranks : members[q].socket = s}
        IN  SocketLoad(members, s) - CoresPerSocket \in 0 .. Cardinality(here) - 1

\* What the adjustment leaves on a socket when it ends: no core free, since the
\* growing loop ended, and less than a pass of it too many.  It does not end if
\* a socket has nobody.
LEMMA AdjustFillsSocket ==
    ASSUME NEW threads \in ThreadCounts, \A p \in Ranks : threads[p] >= 1,
           NEW socket, ~Adjust(threads, socket).spins,
           NEW s \in Sockets
    PROVE  LET here == {p \in Ranks : socket[p] = s}
               left == Adjust(threads, socket).threads
           IN  /\ SumFunctionOnSet(left, here) - CoresPerSocket
                    \in 0 .. Cardinality(here) - 1
               /\ \A p \in here : left[p] \in Nat \ {0}
<1> DEFINE here == {p \in Ranks : socket[p] = s}
           left == Adjust(threads, socket).threads
           small == ShrinkSocket(threads, here)
           grown == GrowSocket(small, here)
<1>1. here \in SUBSET Ranks /\ IsFiniteSet(here)
  BY RanksFinite
<1>2. /\ ~(FreeCores(small, here) < 0)
      /\ ~(FreeCores(grown, here) > 0)
      /\ \A p \in here : left[p] = grown[p]
  BY DEF Adjust
<1> HIDE DEF left, grown, small, here
<1>3. small \in ThreadCounts /\ \A p \in Ranks : small[p] >= 1
  BY <1>1, ShrinkResult DEF small
<1>4. FreeCores(small, here) \in Int /\ FreeCores(small, here) >= 0
  BY <1>1, <1>2, <1>3, FreeCoresInt
<1>5. /\ grown \in ThreadCounts
      /\ \A p \in Ranks : grown[p] >= 1
      /\ here # {} => FreeCores(grown, here) > - Cardinality(here)
  BY <1>1, <1>3, <1>4, GrowResult DEF grown
<1>6. FreeCores(grown, here) \in Int /\ FreeCores(grown, here) <= 0
  BY <1>1, <1>2, <1>5, FreeCoresInt
<1>7. here # {}
  <2> SUFFICES ASSUME here = {} PROVE FALSE
    OBVIOUS
  <2>1. SumFunctionOnSet(grown, here) = 0
    BY SumEmpty
  <2> QED
    BY <1>6, <2>1, TopologyAssumption DEF FreeCores
<1>8. \A p \in here : left[p] = grown[p] /\ grown[p] \in Int /\ grown[p] >= 1
  BY <1>1, <1>2, <1>5 DEF ThreadCounts
<1>9. SumFunctionOnSet(grown, here) \in Int
      /\ SumFunctionOnSet(left, here) = SumFunctionOnSet(grown, here)
  BY <1>1, <1>8, SumInt, SumCongruence
<1>10. Cardinality(here) \in Nat
  BY <1>1, FS_CardinalityType
<1>11. SumFunctionOnSet(left, here) - CoresPerSocket \in 0 .. Cardinality(here) - 1
  BY <1>5, <1>6, <1>7, <1>9, <1>10, TopologyAssumption DEF FreeCores
<1> QED
  BY <1>8, <1>11 DEF left, here

\* A round that ends well leaves every socket tight, whatever the search found.
LEMMA RoundIsTight ==
    ASSUME NEW members, NEW table \in Tables, Round(members, table).end = "app"
    PROVE  Tight(Round(members, table).team)
<1> DEFINE shares == Distribution(table)
           solution == Solve(shares, [q \in Ranks |-> members[q].prevSocket])
           socket == solution.socket
           left == Adjust(shares, socket).threads
           new == NewTeam(members, left, socket)
<1>1. /\ ~Undefined(table)
      /\ ~Adjust(shares, socket).spins
      /\ Round(members, table).team = new
  BY DEF Round
<1> HIDE DEF socket
<1>2. shares \in ThreadCounts /\ \A p \in Ranks : shares[p] >= 1
  <2>1. shares \in [Ranks -> 1 .. NumCores]
    BY <1>1, DistributionType
  <2> HIDE DEF shares
  <2> QED
    BY <2>1, CoresPositive DEF ThreadCounts
<1> HIDE DEF shares
<1> SUFFICES ASSUME NEW s \in Sockets
             PROVE  SocketLoad(new, s) - CoresPerSocket
                      \in 0 .. Cardinality({q \in Ranks : new[q].socket = s}) - 1
  BY <1>1 DEF Tight
<1> DEFINE here == {q \in Ranks : socket[q] = s}
           loads == [q \in Ranks |-> new[q].threads]
<1>3. {q \in Ranks : new[q].socket = s} = here
  BY DEF NewTeam
<1>4. \A q \in Ranks : loads[q] = left[q]
  BY DEF NewTeam
<1>5. /\ SumFunctionOnSet(left, here) - CoresPerSocket \in 0 .. Cardinality(here) - 1
      /\ \A p \in here : left[p] \in Nat \ {0}
  BY <1>1, <1>2, AdjustFillsSocket
<1>6. here \in SUBSET Ranks /\ IsFiniteSet(here)
  BY RanksFinite
<1>7. SocketLoad(new, s) = SumFunctionOnSet(loads, here)
  BY <1>3 DEF SocketLoad
<1> HIDE DEF left, here, loads, new
<1>8. SumFunctionOnSet(left, here) = SumFunctionOnSet(loads, here)
  <2>1. \A q \in here : left[q] \in Int /\ left[q] = loads[q]
    BY <1>4, <1>5, <1>6
  <2> QED
    BY <1>6, <2>1, SumCongruence
<1> QED
  BY <1>3, <1>5, <1>7, <1>8

\* Every team a process ever moved to was tight.
TightInv == \A p \in Ranks : \A k \in 1 .. Rounds(p) :
                hist[p][k].moved => Tight(hist[p][k].team)

\* A rebalancing moves to what the adjustment leaves; nothing else moves.
LEMMA TightStep == TypeInv /\ TightInv /\ [Next]_vars => TightInv'
<1> SUFFICES ASSUME TypeInv, TightInv, [Next]_vars PROVE TightInv'
  OBVIOUS
<1>1. ASSUME NEW p \in Ranks, NEW entry, hist' = [hist EXCEPT ![p] = Append(hist[p], entry)],
             entry.moved => Tight(entry.team)
      PROVE  TightInv'
  <2>1. \A q \in Ranks \ {p} : hist'[q] = hist[q]
    BY <1>1 DEF TypeInv, Inv, Shape
  <2>2. hist'[p] = Append(hist[p], entry)
    BY <1>1 DEF TypeInv, Inv, Shape
  <2>3. /\ Len(hist[p]) \in Nat
        /\ Len(hist'[p]) = Len(hist[p]) + 1
        /\ hist'[p][Len(hist[p]) + 1] = entry
        /\ \A k \in 1 .. Len(hist[p]) : hist'[p][k] = hist[p][k]
    <3>1. PICK S : hist[p] \in Seq(S)
      BY DEF TypeInv, Inv, Shape
    <3>2. /\ Len(hist[p]) \in Nat
          /\ Len(Append(hist[p], entry)) = Len(hist[p]) + 1
          /\ Append(hist[p], entry)[Len(hist[p]) + 1] = entry
          /\ \A k \in 1 .. Len(hist[p]) : Append(hist[p], entry)[k] = hist[p][k]
      BY <3>1, AppendFacts, ZenonT(30)
    <3> QED
      BY <2>2, <3>2, Zenon
  <2>4. ASSUME NEW k \in 1 .. Len(hist'[p]), hist'[p][k].moved
        PROVE  Tight(hist'[p][k].team)
    <3>1. CASE k = Len(hist[p]) + 1
      BY <1>1, <2>3, <2>4, <3>1
    <3>2. CASE k # Len(hist[p]) + 1
      BY <2>3, <2>4, <3>2 DEF TightInv
    <3> QED
      BY <3>1, <3>2
  <2> QED
    BY <2>1, <2>4 DEF TightInv
<1>2. CASE UNCHANGED hist
  BY <1>2 DEF TightInv
<1>3. ASSUME NEW p \in Ranks, Cancel(p) PROVE TightInv'
  <2> DEFINE entry == [moved |-> FALSE, team |-> team[p]]
  <2>1. hist' = [hist EXCEPT ![p] = Append(hist[p], entry)] /\ ~entry.moved
    BY <1>3 DEF Cancel
  <2> HIDE DEF entry
  <2> QED
    BY <1>1, <2>1
<1>4. ASSUME NEW p \in Ranks, Rebalance(p) PROVE TightInv'
  <2> DEFINE new == Round(team[p], elapsed[p]).team
             entry == [moved |-> TRUE, team |-> new]
  <2>1. hist' = [hist EXCEPT ![p] = Append(hist[p], entry)] /\ entry.team = new
    BY <1>4 DEF Rebalance
  <2>2. Round(team[p], elapsed[p]).end = "app"
    BY <1>4 DEF Rebalance, Outcome
  <2>3. Tight(new)
    BY <2>2, RoundIsTight DEF TypeInv, ControlOK
  <2> HIDE DEF entry, new
  <2> QED
    BY <1>1, <2>1, <2>3
<1> QED
  BY <1>2, <1>3, <1>4 DEF Next, Stop, Call, Work, SkipCall, EnterRound, GatherElapsed,
                        GatherThreads, Fail, vars

\* After a rebalancing every socket is full, and over-committed by less than one
\* thread per process on it, for every node, window and history of times
\* (core_adjust_list_num_threads, sabo.c:672-694).
THEOREM AdaptationTight == Spec => []AdaptationIsTight
<1>1. Init => TightInv
  BY DEF Init, TightInv
<1>2. TypeInv /\ TightInv => AdaptationIsTight
  <2> SUFFICES ASSUME TypeInv, TightInv, NEW p \in Ranks, Rounds(p) > 0,
                      hist[p][Rounds(p)].moved
               PROVE  Tight(team[p])
    BY DEF AdaptationIsTight, Tight
  <2>1. Rounds(p) \in 1 .. Rounds(p) /\ team[p] = View(hist[p], Rounds(p))
    BY DEF TypeInv, Inv, Shape, Replay
  <2> QED
    BY <2>1 DEF TightInv, View
<1> QED
  BY <1>1, <1>2, InitTypeInv, TypeStep, TightStep, PTL DEF Spec
-----------------------------------------------------------------------------
(* Every demand *)

DemandInv == /\ wanted \in [Ranks -> Nat \ {0}]
             /\ \A p \in Ranks : wanted[p] <= MaxThreads + 1 \/ (p = 0 /\ wanted[p] <= NumCores)
             /\ CoversNode(wanted)

\* What processes ask for is added up over all of them.
LEMMA DemandSum ==
    ASSUME NEW demand \in [Ranks -> Nat \ {0}]
    PROVE  /\ CoversNode(demand) <=> SumFunctionOnSet(demand, Ranks) >= NumCores
           /\ demand \in Requests
           /\ \A p \in Ranks : demand[p] <= SumFunctionOnSet(demand, Ranks)
<1>1. DOMAIN demand = Ranks /\ demand \in Requests
      /\ \A p \in Ranks : demand[p] \in Nat
  BY DEF Requests
<1>2. \A p \in Ranks : demand[p] <= SumFunctionOnSet(demand, Ranks)
  BY <1>1, RanksFinite, SumElement
<1> QED
  BY <1>1, <1>2 DEF CoversNode, SumFunction

\* What is fed to the search is a demand.
LEMMA FedDemand == DemandInv => IsDemand(wanted)
<1> SUFFICES ASSUME DemandInv PROVE IsDemand(wanted)
  OBVIOUS
<1> DEFINE others == Ranks \ {0}
           rest   == SumFunctionOnSet(wanted, others)
           M      == MaxThreads + 1
           n      == NumProcs - 1
<1>1. /\ wanted \in [Ranks -> Nat \ {0}] /\ wanted \in Requests /\ 0 \in Ranks
      /\ \A p \in Ranks : wanted[p] \in Int
      /\ SumFunctionOnSet(wanted, Ranks) >= NumCores
  BY DemandSum, TopologyAssumption DEF DemandInv, Ranks
<1>2. IsFiniteSet(others) /\ Cardinality(others) = n
  <2>1. 0 \in Int /\ NumProcs - 1 \in Int /\ NumProcs \in Nat \ {0}
    BY TopologyAssumption
  <2>2. IsFiniteSet(Ranks) /\ Cardinality(Ranks) = NumProcs
    BY <2>1, FS_Interval DEF Ranks
  <2> QED
    BY <1>1, <2>2, FS_RemoveElement
<1>3. SumFunctionOnSet(wanted, Ranks) = wanted[0] + rest
  BY <1>1, RanksFinite, SumRemove
<1>4. M \in Nat /\ MaxThreads \in Nat /\ n \in Nat /\ NumCores \in Nat
  BY FeedAssumption, TopologyAssumption, CoresPositive
<1>5. rest <= M * n
  <2>1. \A p \in others : wanted[p] \in Int /\ wanted[p] <= M
    BY <1>1 DEF DemandInv
  <2>2. M \in Int
    BY <1>4
  <2> HIDE DEF others, M, n
  <2>3. rest <= M * Cardinality(others)
    BY <1>2, <2>1, <2>2, SumBounded
  <2> QED
    BY <1>2, <2>3
<1>6. wanted[0] <= M + NumCores
  BY <1>1, <1>4 DEF DemandInv
<1>7. M * n + M = NumProcs * MaxThreads + NumProcs
  BY <1>4, TopologyAssumption
<1>8. rest \in Int /\ wanted[0] \in Int
  BY <1>1, <1>2, SumInt
<1> DEFINE x == NumProcs * MaxThreads
           y == M * n
<1>9. x + NumCores + NumProcs <= Int32Max /\ x \in Int /\ y \in Int /\ NumProcs \in Int
  BY <1>4, WidthAssumption, TopologyAssumption DEF Int32Max
<1>10. SumFunctionOnSet(wanted, Ranks) <= Int32Max
  <2>1. rest <= y /\ y + M = x + NumProcs
    BY <1>5, <1>7
  <2> HIDE DEF rest, x, y, M, n
  <2> QED
    BY <1>3, <1>4, <1>6, <1>8, <1>9, <2>1 DEF Int32Max
<1> QED
  BY <1>1, <1>10 DEF IsDemand

\* It stays one.
LEMMA DemandInvariant == FeedSpec => []DemandInv
<1>1. FeedInit => DemandInv
  <2> SUFFICES ASSUME FeedInit PROVE DemandInv
    OBVIOUS
  <2>1. 0 \in Ranks /\ NumCores \in Nat \ {0} /\ MaxThreads \in Nat
    BY TopologyAssumption, CoresPositive, FeedAssumption DEF Ranks
  <2>2. wanted \in [Ranks -> Nat \ {0}] /\ wanted[0] = NumCores
        /\ \A p \in Ranks : wanted[p] <= MaxThreads + 1 \/ (p = 0 /\ wanted[p] <= NumCores)
    BY <2>1 DEF FeedInit, FirstDemand
  <2>3. CoversNode(wanted)
    BY <2>1, <2>2, DemandSum
  <2> QED
    BY <2>2, <2>3 DEF DemandInv
<1>2. DemandInv /\ [FeedNext]_inputs => DemandInv'
  <2> SUFFICES ASSUME DemandInv, [FeedNext]_inputs PROVE DemandInv'
    OBVIOUS
  <2>1. CASE AskThreads
    <3>1. PICK p \in Ranks, n \in 1 .. MaxThreads :
              wanted' = [wanted EXCEPT ![p] = n] /\ CoversNode(wanted')
      BY <2>1 DEF AskThreads
    <3> QED
      BY <3>1, FeedAssumption DEF DemandInv, CoversNode
  <2>2. CASE UNCHANGED wanted
    BY <2>2 DEF DemandInv, CoversNode
  <2> QED
    BY <2>1, <2>2 DEF FeedNext, Measure, RunFrom, inputs
<1> QED
  BY <1>1, <1>2, PTL DEF FeedSpec

\* The search finds a placement exactly when there is one, for every node, every
\* demand that covers it, and wherever the processes come from: pruning, and the
\* strict comparison with the father, never lose the last candidate
\* (tree_build_tree_recursive, decision_tree.c:299-350).
THEOREM SearchFinds == FeedSpec => []FindsWheneverPossible
<1>1. DemandInv => FindsWheneverPossible
  BY FedDemand, SolveComplete DEF FindsWheneverPossible
<1> QED
  BY <1>1, DemandInvariant, PTL
\* No admissible placement over-commits the sockets less than the one the search
\* keeps, for every node, every demand that covers it, and wherever the processes
\* come from -- though a node keeps the first leaf it accepts
\* (decision_tree.c:319-339).
THEOREM SearchIsOptimal == FeedSpec => []LeastOverCommitment
<1>1. DemandInv => LeastOverCommitment
  BY FedDemand, SolveBest DEF LeastOverCommitment
<1> QED
  BY <1>1, DemandInvariant, PTL
-----------------------------------------------------------------------------
(* When nobody is lost *)

\* The first process of a socket, in order.
IsFirst(m, order, members) ==
    m \in members /\ \A q \in members : ~Before(order, q, m)

\* A core is freed for every thread the first process of the socket loses, so
\* that enough are when it has more threads than cores are missing.
LEMMA ShrinkSuffices ==
    ASSUME NEW order \in ThreadCounts, NEW members \in SUBSET Ranks,
           \A p \in Ranks : order[p] >= 1,
           NEW m, IsFirst(m, order, members), FreeCores(order, members) + order[m] > 0
    PROVE  FreeCores(ShrinkSocket(order, members), members) >= 0
<1> DEFINE base == FreeCores(order, members) + order[m]
           I == {t \in ThreadCounts : FreeCores(t, members) + t[m] >= base}
           result == ShrinkSocket(order, members)
<1>1. m \in Ranks /\ m \in members /\ \A q \in members : ~Before(order, q, m)
  BY DEF IsFirst
<1>2. \A t \in ThreadCounts : FreeCores(t, members) \in Int /\ t[m] \in Int
  BY <1>1, FreeCoresInt DEF ThreadCounts
<1>3. base \in Int /\ base > 0
  BY <1>2
<1> HIDE DEF base
<1>4. order \in I /\ I \in SUBSET ThreadCounts
  BY <1>2, <1>3 DEF base
<1>5. ASSUME NEW t \in I, Shrinkable(t, order, members) # {}
      PROVE  Shrunk(t, order, members) \in I
  <2> DEFINE u == Shrunk(t, order, members)
  <2>1. u \in ThreadCounts /\ FreeCores(u, members) > FreeCores(t, members)
    BY <1>5, ShrunkFrees
  <2>2. t[m] \in Int /\ u[m] >= t[m] - 1
    BY <1>1, <1>2 DEF Shrunk
  <2> HIDE DEF u
  <2>3. FreeCores(u, members) + u[m] >= base
    BY <1>2, <1>3, <1>5, <2>1, <2>2
  <2> QED
    BY <2>1, <2>3 DEF u
<1>6. result \in I
      /\ (FreeCores(result, members) >= 0 \/ Shrinkable(result, order, members) = {})
  <2> HIDE DEF I
  <2> QED
    BY <1>4, <1>5, ShrinkRule
<1> HIDE DEF result
<1>7. ASSUME Shrinkable(result, order, members) = {} PROVE result[m] = 1
  <2>1. m \notin Shrinkable(result, order, members)
    BY <1>7
  <2> QED
    BY <1>1, <2>1 DEF Shrinkable
<1>8. FreeCores(result, members) >= 0
  <2>1. CASE Shrinkable(result, order, members) = {}
    BY <1>2, <1>3, <1>6, <1>7, <2>1
  <2> QED
    BY <1>6, <2>1
<1> QED
  BY <1>8 DEF result

\* The processes of a part that are on a socket.
PartOn(part, f, s) == {p \in part : f[p] = s}

\* What the sockets have of a part adds up to the part.
LEMMA PartsAddUp ==
    ASSUME NEW threads \in Requests, NEW f \in [Ranks -> Sockets], NEW part \in SUBSET Ranks
    PROVE  SumFunctionOnSet([s \in Sockets |-> SumFunctionOnSet(threads, PartOn(part, f, s))],
                            Sockets)
             = SumFunctionOnSet(threads, part)
<1> DEFINE loads(T) == [s \in Sockets |-> SumFunctionOnSet(threads, PartOn(T, f, s))]
           sum(T) == SumFunctionOnSet(loads(T), Sockets)
           P == {T \in SUBSET Ranks : sum(T) = SumFunctionOnSet(threads, T)}
<1>1. {} \in P
  <2>1. \A s \in Sockets : loads({})[s] = 0
    <3>1. \A s \in Sockets : PartOn({}, f, s) = {}
      BY DEF PartOn
    <3> QED
      BY <3>1, SumEmpty
  <2> HIDE DEF loads
  <2>2. sum({}) = 0
    BY <2>1, SocketsFinite, SumZero
  <2>3. SumFunctionOnSet(threads, {}) = 0
    BY SumEmpty
  <2> QED
    BY <2>2, <2>3
<1>2. ASSUME NEW T \in SUBSET Ranks, NEW p \in T, T \ {p} \in P PROVE T \in P
  <2> DEFINE R == T \ {p}
             a == f[p]
             x == loads(T)
             y == loads(R)
             S == Sockets \ {a}
  <2>1. /\ a \in Sockets /\ R \in SUBSET Ranks /\ p \in Ranks /\ p \notin R
        /\ threads[p] \in Nat /\ T = R \cup {p}
    BY DEF Requests
  <2>2. PartOn(T, f, a) = PartOn(R, f, a) \cup {p} /\ p \notin PartOn(R, f, a)
    BY DEF PartOn
  <2>3. \A s \in S : PartOn(T, f, s) = PartOn(R, f, s)
    BY DEF PartOn
  <2> HIDE DEF a
  <2>4. \A s \in Sockets : x[s] \in Int /\ y[s] \in Int
    <3>1. ASSUME NEW s \in Sockets
          PROVE  /\ SumFunctionOnSet(threads, PartOn(T, f, s)) \in Int
                 /\ SumFunctionOnSet(threads, PartOn(R, f, s)) \in Int
      <4>1. PartOn(T, f, s) \in SUBSET Ranks /\ PartOn(R, f, s) \in SUBSET Ranks
        BY DEF PartOn
      <4> HIDE DEF R
      <4> QED
        BY <4>1, PartSums
    <3> QED
      BY <3>1
  <2>5. x[a] = threads[p] + y[a]
    <3>1. PartOn(R, f, a) \in SUBSET Ranks
      BY DEF PartOn
    <3>2. /\ IsFiniteSet(PartOn(R, f, a))
          /\ \A q \in PartOn(R, f, a) : threads[q] \in Int
          /\ threads[p] \in Int
      BY <2>1, <3>1, PartSums
    <3>3. SumFunctionOnSet(threads, PartOn(R, f, a) \cup {p})
            = threads[p] + SumFunctionOnSet(threads, PartOn(R, f, a))
      BY <2>2, <3>2, SumAdd
    <3> QED
      BY <2>1, <2>2, <3>3
  <2>6. \A s \in S : x[s] \in Int /\ x[s] = y[s] /\ y[s] \in Int
    BY <2>3, <2>4
  <2>7. sum(R) = SumFunctionOnSet(threads, R)
    BY <1>2
  <2>8. sum(T) = SumFunctionOnSet(x, Sockets) /\ sum(R) = SumFunctionOnSet(y, Sockets)
    OBVIOUS
  <2> HIDE DEF x, y, sum
  <2>9. IsFiniteSet(Sockets) /\ IsFiniteSet(S)
    BY SocketsFinite, FS_RemoveElement
  <2>10. /\ SumFunctionOnSet(x, Sockets) = x[a] + SumFunctionOnSet(x, S)
         /\ SumFunctionOnSet(y, Sockets) = y[a] + SumFunctionOnSet(y, S)
    BY <2>1, <2>4, <2>9, SumRemove
  <2>11. SumFunctionOnSet(x, S) = SumFunctionOnSet(y, S) /\ SumFunctionOnSet(y, S) \in Int
    <3> HIDE DEF S
    <3> QED
      BY <2>6, <2>9, SumCongruence, SumInt
  <2>12. SumFunctionOnSet(threads, T) = threads[p] + SumFunctionOnSet(threads, R)
    <3>1. IsFiniteSet(T) /\ \A q \in T : threads[q] \in Int
      BY PartSums
    <3> QED
      BY <3>1, SumRemove
  <2>13. sum(T) = SumFunctionOnSet(threads, T)
    BY <2>1, <2>4, <2>5, <2>7, <2>8, <2>10, <2>11, <2>12
  <2> QED
    BY <2>13
<1>3. \A T \in SUBSET Ranks : T \in P
  <2> HIDE DEF P
  <2> QED
    BY <1>1, <1>2, RanksFinite, RemovalInduction
<1> QED
  BY <1>3

\* A table somebody worked in at each step, nobody less than a core's share of
\* it, and whose shares past no socket.
Fair(table) ==
    /\ table \in Tables /\ ~Undefined(table) /\ ~Asserts(table)
    /\ \A i \in Steps : Raised(table, i) = {}

\* Everybody has a thread at least and a socket at most; together, the node.
FillsNode(threads) ==
    /\ threads \in [Ranks -> 1 .. CoresPerSocket]
    /\ SumFunctionOnSet(threads, Ranks) = NumCores

\* Such are the shares of a fair table: nothing is over-allocated.
LEMMA FairSharesFill ==
    ASSUME NEW table, Fair(table)
    PROVE  FillsNode(Distribution(table))
<1> DEFINE shares == Distribution(table)
<1>1. table \in Tables /\ ~Undefined(table)
  BY DEF Fair
<1>2. shares \in [Ranks -> 1 .. NumCores] /\ SumFunction(shares) >= NumCores
  BY <1>1, DistributionType
<1>3. 0 \in Nat /\ \A i \in Steps : Cardinality(Raised(table, i)) <= 0
  <2>1. Cardinality({}) = 0
    BY FS_EmptySet
  <2> QED
    BY <2>1 DEF Fair
<1>4. SumFunction(shares) - NumCores <= 0
  BY <1>1, <1>3, OverAllocation
<1>5. \A p \in Ranks : shares[p] \in Int /\ shares[p] <= CoresPerSocket
  <2> DEFINE c == FirstAverages(StepsOf(table))
             d == DispatchRemaining[c]
  <2>1. d \in Proper /\ shares = [p \in Ranks |-> d[p].threads]
    BY <1>1, DistributionFacts
  <2>2. AverageCounters[StepsOf(table)] = d
    BY <1>1, StepsOfProper, AverageUnfolded
  <2>3. ~TooMany[d]
    BY <2>2 DEF Fair, Asserts
  <2> HIDE DEF shares, d
  <2>4. \A p \in Ranks : shares[p] = d[p].threads /\ d[p].threads \in Int
    BY <2>1 DEF Proper, Counters
  <2>5. d \in Counters
    BY <2>1 DEF Proper
  <2>6. \A p \in Ranks : ~(d[p].threads > CoresPerSocket)
    BY <2>3, <2>5 DEF TooMany
  <2> QED
    BY <2>4, <2>6, TopologyAssumption
<1> HIDE DEF shares
<1>6. shares \in [Ranks -> 1 .. CoresPerSocket]
  BY <1>2, <1>5, CoresPositive, TopologyAssumption
<1>7. SumFunction(shares) = SumFunctionOnSet(shares, Ranks)
  BY <1>2 DEF SumFunction
<1>8. SumFunctionOnSet(shares, Ranks) \in Int
  BY <1>5, RanksFinite, SumInt
<1> QED
  BY <1>2, <1>4, <1>6, <1>7, <1>8, CoresPositive DEF FillsNode, shares

\* Threads that fill the node are a demand, as the search and the adjustment
\* take it.
LEMMA FillingFacts ==
    ASSUME NEW threads, FillsNode(threads)
    PROVE  /\ threads \in Requests /\ threads \in ThreadCounts /\ IsDemand(threads)
           /\ \A p \in Ranks : /\ threads[p] \in Nat /\ threads[p] >= 1
                               /\ threads[p] <= CoresPerSocket
<1>1. threads \in [Ranks -> 1 .. CoresPerSocket]
      /\ SumFunctionOnSet(threads, Ranks) = NumCores
  BY DEF FillsNode
<1>2. threads \in Requests /\ threads \in ThreadCounts
      /\ threads \in [Ranks -> Nat \ {0}]
      /\ \A p \in Ranks : /\ threads[p] \in Nat /\ threads[p] >= 1
                          /\ threads[p] <= CoresPerSocket
  BY <1>1, TopologyAssumption DEF Requests, ThreadCounts
<1>3. NumCores <= Int32Max
  <2> SUFFICES ASSUME NEW a \in Nat, NEW b \in Nat, NEW c \in Nat,
                      a * b + c + a <= 2147483647
               PROVE  c <= 2147483647
    BY WidthAssumption, FeedAssumption, TopologyAssumption, CoresPositive DEF Int32Max
  <2>1. a * b \in Nat
    OBVIOUS
  <2> QED
    BY <2>1
<1> QED
  BY <1>1, <1>2, <1>3, CoresPositive DEF IsDemand

\* Sockets whose loads add up to the node's cores: one has a core left exactly
\* when another is over-committed.
LEMMA Unbalanced ==
    ASSUME NEW load, \A s \in Sockets : load[s] \in Int,
           SumFunctionOnSet(load, Sockets) = NumCores
    PROVE  (\E s \in Sockets : load[s] < CoresPerSocket)
             <=> (\E s \in Sockets : load[s] > CoresPerSocket)
<1>1. CoresPerSocket \in Nat \ {0} /\ NumSockets \in Nat \ {0}
      /\ NumCores = CoresPerSocket * NumSockets
  BY TopologyAssumption DEF NumCores
<1>2. ASSUME NEW x, NEW c \in Int, \A s \in Sockets : x[s] \in Int /\ x[s] <= c,
             SumFunctionOnSet(x, Sockets) = c * NumSockets
      PROVE  \A s \in Sockets : x[s] = c
  <2> SUFFICES ASSUME NEW b \in Sockets PROVE x[b] = c
    OBVIOUS
  <2> DEFINE S == Sockets \ {b}
  <2>1. IsFiniteSet(S) /\ Cardinality(S) = NumSockets - 1
    BY SocketsFinite, FS_RemoveElement
  <2>2. SumFunctionOnSet(x, Sockets) = x[b] + SumFunctionOnSet(x, S)
    BY <1>2, SocketsFinite, SumRemove
  <2>3. \A s \in S : x[s] \in Int /\ x[s] <= c
    BY <1>2
  <2> HIDE DEF S
  <2>4. /\ SumFunctionOnSet(x, S) <= c * Cardinality(S)
        /\ SumFunctionOnSet(x, S) \in Int
    BY <2>1, <2>3, SumBounded, SumInt
  <2>5. c * (NumSockets - 1) = c * NumSockets - c /\ c * NumSockets \in Int
    BY <1>1
  <2> QED
    BY <1>2, <2>1, <2>2, <2>4, <2>5
<1>3. ASSUME NEW b \in Sockets, load[b] < CoresPerSocket,
             \A s \in Sockets : ~(load[s] > CoresPerSocket)
      PROVE  FALSE
  <2>1. \A s \in Sockets : load[s] \in Int /\ load[s] <= CoresPerSocket
    BY <1>1, <1>3
  <2>2. load[b] = CoresPerSocket
    BY <1>1, <1>2, <2>1
  <2> QED
    BY <1>1, <1>3, <2>2
<1>4. ASSUME NEW a \in Sockets, load[a] > CoresPerSocket,
             \A s \in Sockets : ~(load[s] < CoresPerSocket)
      PROVE  FALSE
  <2> DEFINE minus == -1
             x == [s \in Sockets |-> minus * load[s]]
             c == minus * CoresPerSocket
  <2>1. \A s \in Sockets : x[s] \in Int /\ x[s] <= c
    BY <1>1, <1>4
  <2>2. minus \in Int /\ c \in Int /\ c * NumSockets = minus * NumCores
    BY <1>1
  <2>3. \A s \in Sockets : load[s] \in Int /\ x[s] = minus * load[s]
    OBVIOUS
  <2> HIDE DEF x, minus
  <2>4. SumFunctionOnSet(x, Sockets) = minus * SumFunctionOnSet(load, Sockets)
    BY <2>2, <2>3, SocketsFinite, SumScale
  <2> HIDE DEF c
  <2>5. x[a] = c
    BY <1>2, <2>1, <2>2, <2>4
  <2> QED
    BY <1>1, <1>4, <2>3, <2>5 DEF c, minus
<1> QED
  BY <1>3, <1>4

\* The loads of a placement add up to what is placed.
LEMMA LoadsAddUp ==
    ASSUME NEW threads, FillsNode(threads), NEW f \in [Ranks -> Sockets]
    PROVE  /\ \A s \in Sockets : Load(threads, f, s) \in Nat
           /\ (\E s \in Sockets : Load(threads, f, s) < CoresPerSocket)
                <=> (\E s \in Sockets : Load(threads, f, s) > CoresPerSocket)
<1> DEFINE load == [s \in Sockets |-> Load(threads, f, s)]
           parts == [s \in Sockets |-> SumFunctionOnSet(threads, PartOn(Ranks, f, s))]
<1>1. threads \in Requests
  BY FillingFacts
<1>2. \A s \in Sockets : Load(threads, f, s) \in Nat
  BY <1>1, ExcessFacts
<1>3. SumFunctionOnSet(parts, Sockets) = SumFunctionOnSet(threads, Ranks)
  BY <1>1, PartsAddUp
<1>4. parts = load
  BY DEF PartOn, Load
<1>5. \A s \in Sockets : load[s] \in Int /\ load[s] = Load(threads, f, s)
  BY <1>2
<1>6. SumFunctionOnSet(load, Sockets) = NumCores
  BY <1>3, <1>4 DEF FillsNode
<1> HIDE DEF load
<1>7. (\E s \in Sockets : load[s] < CoresPerSocket)
        <=> (\E s \in Sockets : load[s] > CoresPerSocket)
  BY <1>5, <1>6, Unbalanced
<1> QED
  BY <1>2, <1>5, <1>7

\* A placement of the first k processes in order.
PlacesFirst(threads, f, k) ==
    /\ f \in [Ranks -> Sockets]
    /\ \A s \in Sockets : \A p \in Ranks :
          (Position(threads, p) <= k /\ f[p] = s) =>
            SumFunctionOnSet(threads, {q \in Ranks : f[q] = s /\ Before(threads, q, p)})
              <= CoresPerSocket

\* One more process can be placed: what comes before it does not fill the node.
LEMMA OnePlacedMore ==
    ASSUME NEW threads, FillsNode(threads), NEW k \in Nat, k + 1 <= NumProcs,
           NEW f, PlacesFirst(threads, f, k)
    PROVE  \E g : PlacesFirst(threads, g, k + 1)
<1>1. /\ threads \in Requests
      /\ \A p \in Ranks : threads[p] \in Nat /\ threads[p] >= 1
  BY FillingFacts
<1>2. PICK p \in Ranks : Position(threads, p) = k + 1
  <2>1. k + 1 \in 1 .. NumProcs
    BY TopologyAssumption
  <2> QED
    BY <1>1, <2>1, Positions
<1>3. \A q, r \in Ranks : /\ Position(threads, q) \in Nat
                          /\ Before(threads, q, r)
                               <=> Position(threads, q) < Position(threads, r)
                          /\ Position(threads, q) = Position(threads, r) => q = r
  BY <1>1, Positions
<1> DEFINE T == {q \in Ranks : Before(threads, q, p)}
           x == [s \in Sockets |-> SumFunctionOnSet(threads, PartOn(T, f, s))]
<1>4. f \in [Ranks -> Sockets]
  BY DEF PlacesFirst
<1>5. T \in SUBSET Ranks /\ p \notin T
  BY <1>2, <1>3
<1>6. SumFunctionOnSet(threads, T) < NumCores
  <2> DEFINE U == T \cup {p}
  <2>1. U \in SUBSET Ranks /\ \A q \in Ranks : threads[q] \in Nat
    BY <1>1, <1>5
  <2>2. SumFunctionOnSet(threads, U) <= SumFunctionOnSet(threads, Ranks)
    <3> HIDE DEF U
    <3> QED
      BY <2>1, RanksFinite, SumSubset
  <2>3. IsFiniteSet(T) /\ \A q \in T : threads[q] \in Int
    BY <1>1, <1>5, RanksFinite
  <2>4. threads[p] \in Int
    BY <1>1
  <2> HIDE DEF T
  <2>5. SumFunctionOnSet(threads, T \cup {p}) = threads[p] + SumFunctionOnSet(threads, T)
    BY <1>5, <2>3, <2>4, SumAdd
  <2>6. SumFunctionOnSet(threads, T) \in Int
    BY <2>3, SumInt
  <2>7. SumFunctionOnSet(threads, Ranks) = NumCores
    BY DEF FillsNode
  <2> QED
    BY <1>1, <2>2, <2>5, <2>6, <2>7, CoresPositive
<1>7. SumFunctionOnSet(x, Sockets) = SumFunctionOnSet(threads, T)
  <2> HIDE DEF T
  <2> QED
    BY <1>1, <1>4, <1>5, PartsAddUp
<1>8. \A s \in Sockets : x[s] \in Int /\ x[s] = SumFunctionOnSet(threads, PartOn(T, f, s))
  <2> SUFFICES ASSUME NEW s \in Sockets
               PROVE  SumFunctionOnSet(threads, PartOn(T, f, s)) \in Int
    OBVIOUS
  <2>1. PartOn(T, f, s) \in SUBSET Ranks
    BY <1>5 DEF PartOn
  <2> HIDE DEF T
  <2> QED
    BY <1>1, <2>1, PartSums
<1> HIDE DEF x
<1>9. PICK b \in Sockets : x[b] < CoresPerSocket
  <2> SUFFICES ASSUME \A s \in Sockets : ~(x[s] < CoresPerSocket) PROVE FALSE
    OBVIOUS
  <2> DEFINE full == [s \in Sockets |-> CoresPerSocket]
             one == [s \in Sockets |-> 1]
  <2>1. CoresPerSocket \in Int /\ CoresPerSocket * 1 = CoresPerSocket
    BY TopologyAssumption
  <2>2. /\ \A s \in Sockets : one[s] = 1 /\ one[s] \in Int
        /\ \A s \in Sockets : full[s] = CoresPerSocket * one[s]
        /\ \A s \in Sockets : full[s] \in Int /\ x[s] \in Int /\ full[s] <= x[s]
    <3>1. \A s \in Sockets : full[s] = CoresPerSocket /\ one[s] = 1
      OBVIOUS
    <3>2. \A s \in Sockets : x[s] \in Int /\ ~(x[s] < CoresPerSocket)
      BY <1>8
    <3> HIDE DEF full, one
    <3> QED
      BY <2>1, <3>1, <3>2
  <2> HIDE DEF full, one
  <2>3. SumFunctionOnSet(full, Sockets) <= SumFunctionOnSet(x, Sockets)
    BY <2>2, SocketsFinite, SumMonotone
  <2>4. SumFunctionOnSet(full, Sockets) = CoresPerSocket * SumFunctionOnSet(one, Sockets)
    BY <2>1, <2>2, SocketsFinite, SumScale
  <2>5. SumFunctionOnSet(one, Sockets) = NumSockets
    BY <2>2, SocketsFinite, SumOfOnes
  <2>6. CoresPerSocket * NumSockets = NumCores
    BY TopologyAssumption DEF NumCores
  <2>7. SumFunctionOnSet(x, Sockets) \in Int
    BY <1>8, SocketsFinite, SumInt
  <2> QED
    BY <1>6, <1>7, <2>3, <2>4, <2>5, <2>6, <2>7, CoresPositive
<1> DEFINE g == [f EXCEPT ![p] = b]
<1>10. g \in [Ranks -> Sockets] /\ g[p] = b /\ \A q \in Ranks \ {p} : g[q] = f[q]
  BY <1>4
<1> HIDE DEF g
<1>11. ASSUME NEW s \in Sockets, NEW q \in Ranks, Position(threads, q) <= k + 1, g[q] = s
       PROVE  SumFunctionOnSet(threads, {r \in Ranks : g[r] = s /\ Before(threads, r, q)})
                <= CoresPerSocket
  <2>1. CASE q = p
    <3>1. {r \in Ranks : g[r] = s /\ Before(threads, r, q)} = PartOn(T, f, b)
      BY <1>5, <1>10, <1>11, <2>1 DEF PartOn
    <3>2. SumFunctionOnSet(threads, PartOn(T, f, b)) <= CoresPerSocket
      BY <1>8, <1>9, TopologyAssumption
    <3> QED
      BY <3>1, <3>2, Zenon
  <2>2. CASE q # p
    <3>1. Position(threads, q) <= k /\ f[q] = s
      BY <1>2, <1>3, <1>10, <1>11, <2>2
    <3>2. ~Before(threads, p, q)
      BY <1>2, <1>3, <3>1
    <3>3. {r \in Ranks : g[r] = s /\ Before(threads, r, q)}
            = {r \in Ranks : f[r] = s /\ Before(threads, r, q)}
      BY <1>10, <3>2
    <3> QED
      BY <3>1, <3>3 DEF PlacesFirst
  <2> QED
    BY <2>1, <2>2
<1>12. PlacesFirst(threads, g, k + 1)
  BY <1>10, <1>11 DEF PlacesFirst
<1> QED
  BY <1>12

\* So threads that fill the node can be placed.
LEMMA PlacementExists ==
    ASSUME NEW threads, FillsNode(threads)
    PROVE  Placements(threads) # {}
<1> DEFINE P == {k \in Nat : k <= NumProcs => \E f : PlacesFirst(threads, f, k)}
<1>1. threads \in Requests
  BY FillingFacts
<1>2. \A p \in Ranks : Position(threads, p) \in 1 .. NumProcs
  BY <1>1, Positions
<1>3. 0 \in P
  <2> DEFINE f == [p \in Ranks |-> 0]
  <2>1. f \in [Ranks -> Sockets] /\ \A p \in Ranks : ~(Position(threads, p) <= 0)
    BY <1>2, SocketsFinite
  <2>2. PlacesFirst(threads, f, 0)
    BY <2>1 DEF PlacesFirst
  <2> QED
    BY <2>2
<1>4. ASSUME NEW k \in Nat, k \in P PROVE k + 1 \in P
  <2> SUFFICES ASSUME k + 1 <= NumProcs PROVE \E g : PlacesFirst(threads, g, k + 1)
    OBVIOUS
  <2>1. k <= NumProcs
    BY TopologyAssumption
  <2>2. PICK f : PlacesFirst(threads, f, k)
    BY <1>4, <2>1
  <2> QED
    BY <2>2, OnePlacedMore
<1>5. \A k \in Nat : k \in P
  <2> HIDE DEF P
  <2> QED
    BY <1>3, <1>4, NaturalInduction
<1>6. NumProcs \in P
  BY <1>5, TopologyAssumption
<1>7. PICK f : PlacesFirst(threads, f, NumProcs)
  BY <1>6, TopologyAssumption
<1>8. f \in Placements(threads)
  BY <1>2, <1>7 DEF PlacesFirst, Placements, Admissible
<1> QED
  BY <1>8

\* A process moves to another socket.
Moved(f, m, b) == [f EXCEPT ![m] = b]

\* It takes its threads along.
LEMMA MoveLoads ==
    ASSUME NEW threads \in Requests, NEW f \in [Ranks -> Sockets],
           NEW m \in Ranks, NEW b \in Sockets, f[m] # b
    PROVE  LET a == f[m]
               g == Moved(f, m, b)
           IN  /\ g \in [Ranks -> Sockets]
               /\ Load(threads, g, a) = Load(threads, f, a) - threads[m]
               /\ Load(threads, g, b) = Load(threads, f, b) + threads[m]
               /\ \A s \in Sockets \ {a, b} : Load(threads, g, s) = Load(threads, f, s)
<1> DEFINE a == f[m]
           g == Moved(f, m, b)
           A == {p \in Ranks : g[p] = a}
           B == {p \in Ranks : f[p] = b}
<1>1. /\ g \in [Ranks -> Sockets] /\ g[m] = b /\ a \in Sockets
      /\ \A p \in Ranks \ {m} : g[p] = f[p]
  BY DEF Moved
<1> HIDE DEF g
<1>2. {p \in Ranks : f[p] = a} = A \cup {m} /\ m \notin A
  BY <1>1
<1>3. {p \in Ranks : g[p] = b} = B \cup {m} /\ m \notin B
  BY <1>1
<1>4. A \in SUBSET Ranks /\ B \in SUBSET Ranks
  OBVIOUS
<1> HIDE DEF A, B
<1>5. /\ IsFiniteSet(A) /\ IsFiniteSet(B) /\ threads[m] \in Int
      /\ \A p \in A : threads[p] \in Int
      /\ \A p \in B : threads[p] \in Int
      /\ SumFunctionOnSet(threads, A) \in Nat /\ SumFunctionOnSet(threads, B) \in Nat
  <2>1. threads[m] \in Int
    BY DEF Requests
  <2> QED
    BY <1>4, <2>1, PartSums
<1>6. SumFunctionOnSet(threads, A \cup {m}) = threads[m] + SumFunctionOnSet(threads, A)
  BY <1>2, <1>5, SumAdd
<1>7. SumFunctionOnSet(threads, B \cup {m}) = threads[m] + SumFunctionOnSet(threads, B)
  BY <1>3, <1>5, SumAdd
<1>8. Load(threads, f, a) = threads[m] + SumFunctionOnSet(threads, A)
      /\ Load(threads, g, a) = SumFunctionOnSet(threads, A)
  BY <1>2, <1>6 DEF Load, A
<1>9. Load(threads, g, b) = threads[m] + SumFunctionOnSet(threads, B)
      /\ Load(threads, f, b) = SumFunctionOnSet(threads, B)
  BY <1>3, <1>7 DEF Load, B
<1>10. \A s \in Sockets \ {a, b} : Load(threads, g, s) = Load(threads, f, s)
  <2> SUFFICES ASSUME NEW s \in Sockets \ {a, b}
               PROVE  Load(threads, g, s) = Load(threads, f, s)
    OBVIOUS
  <2>1. {p \in Ranks : g[p] = s} = {p \in Ranks : f[p] = s}
    BY <1>1
  <2> QED
    BY <2>1 DEF Load
<1>11. Load(threads, g, a) = Load(threads, f, a) - threads[m]
       /\ Load(threads, g, b) = Load(threads, f, b) + threads[m]
  BY <1>5, <1>8, <1>9
<1> QED
  BY <1>1, <1>10, <1>11 DEF g

\* From a socket with too many threads to one with cores left, it over-commits
\* less when either stays on its side.
LEMMA MoveHelps ==
    ASSUME NEW threads \in Requests, NEW f \in [Ranks -> Sockets],
           NEW m \in Ranks, NEW b \in Sockets, f[m] # b, threads[m] >= 1,
           Load(threads, f, f[m]) > CoresPerSocket, Load(threads, f, b) < CoresPerSocket,
           \/ threads[m] <= Load(threads, f, f[m]) - CoresPerSocket
           \/ Load(threads, f, b) + threads[m] <= CoresPerSocket
    PROVE  OverCommitment(threads, Moved(f, m, b)) < OverCommitment(threads, f)
<1> DEFINE a == f[m]
           g == Moved(f, m, b)
           d == threads[m]
           S == Sockets \ {a}
           T == S \ {b}
           x == Excess(threads, f)
           y == Excess(threads, g)
<1>1. /\ g \in [Ranks -> Sockets]
      /\ Load(threads, g, a) = Load(threads, f, a) - d
      /\ Load(threads, g, b) = Load(threads, f, b) + d
      /\ \A s \in Sockets \ {a, b} : Load(threads, g, s) = Load(threads, f, s)
  BY MoveLoads
<1> HIDE DEF g
<1>2. /\ \A s \in Sockets :
            /\ Load(threads, f, s) \in Nat /\ x[s] \in Int
            /\ x[s] = IF Load(threads, f, s) > CoresPerSocket
                      THEN Load(threads, f, s) - CoresPerSocket ELSE 0
      /\ OverCommitment(threads, f) = SumFunctionOnSet(x, Sockets)
  BY ExcessFacts
<1>3. /\ \A s \in Sockets :
            /\ Load(threads, g, s) \in Nat /\ y[s] \in Int
            /\ y[s] = IF Load(threads, g, s) > CoresPerSocket
                      THEN Load(threads, g, s) - CoresPerSocket ELSE 0
      /\ OverCommitment(threads, g) = SumFunctionOnSet(y, Sockets)
  BY <1>1, ExcessFacts
<1>4. a \in Sockets /\ a # b /\ d \in Nat /\ d >= 1 /\ CoresPerSocket \in Nat
  BY TopologyAssumption DEF Requests
<1> HIDE DEF x, y
<1>5. y[a] + y[b] < x[a] + x[b]
  <2> DEFINE la == Load(threads, f, a)
             lb == Load(threads, f, b)
             ga == Load(threads, g, a)
             gb == Load(threads, g, b)
  <2>1. /\ x[a] = la - CoresPerSocket /\ x[b] = 0
        /\ la \in Nat /\ lb \in Nat /\ la > CoresPerSocket /\ lb < CoresPerSocket
        /\ d <= la - CoresPerSocket \/ lb + d <= CoresPerSocket
    BY <1>2, <1>4
  <2>2. /\ ga = la - d /\ gb = lb + d
        /\ y[a] = IF ga > CoresPerSocket THEN ga - CoresPerSocket ELSE 0
        /\ y[b] = IF gb > CoresPerSocket THEN gb - CoresPerSocket ELSE 0
    BY <1>1, <1>3, <1>4
  <2> HIDE DEF la, lb, ga, gb, d, a
  <2> QED
    BY <1>4, <2>1, <2>2
<1>6. \A s \in T : x[s] = y[s] /\ x[s] \in Int /\ y[s] \in Int
  BY <1>1, <1>2, <1>3
<1>7. /\ IsFiniteSet(Sockets) /\ IsFiniteSet(S) /\ IsFiniteSet(T) /\ b \in S
      /\ S \subseteq Sockets /\ T \subseteq Sockets
  BY <1>4, SocketsFinite, FS_RemoveElement
<1>8. ASSUME NEW z, \A s \in Sockets : z[s] \in Int
      PROVE  SumFunctionOnSet(z, Sockets) = z[a] + (z[b] + SumFunctionOnSet(z, T))
  <2>1. SumFunctionOnSet(z, Sockets) = z[a] + SumFunctionOnSet(z, S)
    BY <1>4, <1>7, <1>8, SumRemove
  <2>2. \A s \in S : z[s] \in Int
    BY <1>7, <1>8
  <2>3. SumFunctionOnSet(z, S) = z[b] + SumFunctionOnSet(z, T)
    <3> HIDE DEF S
    <3> QED
      BY <1>7, <2>2, SumRemove
  <2> QED
    BY <2>1, <2>3
<1>9. SumFunctionOnSet(x, T) = SumFunctionOnSet(y, T)
      /\ SumFunctionOnSet(y, T) \in Int
  <2> HIDE DEF T
  <2> QED
    BY <1>6, <1>7, SumCongruence, SumInt
<1>10. /\ SumFunctionOnSet(x, Sockets) = x[a] + (x[b] + SumFunctionOnSet(x, T))
       /\ SumFunctionOnSet(y, Sockets) = y[a] + (y[b] + SumFunctionOnSet(y, T))
  <2>1. (\A s \in Sockets : x[s] \in Int) /\ \A s \in Sockets : y[s] \in Int
    BY <1>2, <1>3
  <2> QED
    BY <1>8, <2>1
<1>11. x[a] \in Int /\ x[b] \in Int /\ y[a] \in Int /\ y[b] \in Int
  BY <1>2, <1>3, <1>4
<1>12. SumFunctionOnSet(y, Sockets) < SumFunctionOnSet(x, Sockets)
  <2> HIDE DEF T, a
  <2> QED
    BY <1>5, <1>9, <1>10, <1>11
<1> QED
  BY <1>2, <1>3, <1>12 DEF g

\* A socket with a core left can take anybody: after the newcomer, in order, come
\* only processes that have as many threads at least, within the cores.
LEMMA MoveAdmissible ==
    ASSUME NEW threads \in Requests, NEW f \in Placements(threads),
           NEW m \in Ranks, NEW b \in Sockets, f[m] # b,
           Load(threads, f, b) < CoresPerSocket
    PROVE  Moved(f, m, b) \in Placements(threads)
<1> DEFINE g == Moved(f, m, b)
           before(h, s, p) == {q \in Ranks : h[q] = s /\ Before(threads, q, p)}
<1>1. f \in [Ranks -> Sockets] /\ Admissible(threads, f)
  BY DEF Placements
<1>2. /\ g \in [Ranks -> Sockets] /\ g[m] = b
      /\ \A p \in Ranks \ {m} : g[p] = f[p]
  BY <1>1 DEF Moved
<1> HIDE DEF g
<1>3. \A h, s, p : before(h, s, p) \in SUBSET Ranks
  OBVIOUS
<1>4. \A p \in Ranks : SumFunctionOnSet(threads, before(f, f[p], p)) <= CoresPerSocket
  BY <1>1 DEF Admissible
<1>5. ASSUME NEW p \in Ranks
      PROVE  SumFunctionOnSet(threads, before(g, g[p], p)) <= CoresPerSocket
  <2>1. threads[p] \in Int /\ threads[m] \in Int /\ CoresPerSocket \in Nat
    BY TopologyAssumption DEF Requests
  <2>2. CASE g[p] # b
    <3>1. /\ p # m /\ f[p] = g[p]
          /\ before(g, g[p], p) \in SUBSET before(f, f[p], p)
      BY <1>2, <2>2
    <3> HIDE DEF before
    <3>2. /\ IsFiniteSet(before(f, f[p], p))
          /\ \A q \in before(f, f[p], p) : threads[q] \in Nat
          /\ SumFunctionOnSet(threads, before(f, f[p], p)) \in Nat
          /\ SumFunctionOnSet(threads, before(g, g[p], p)) \in Nat
      BY <1>3, PartSums
    <3>3. SumFunctionOnSet(threads, before(g, g[p], p))
            <= SumFunctionOnSet(threads, before(f, f[p], p))
      BY <3>1, <3>2, SumSubset
    <3> QED
      BY <1>4, <2>1, <3>2, <3>3
  <2>3. CASE g[p] = b
    <3> DEFINE old == {q \in Ranks : f[q] = b}
               early == before(f, b, p)
    <3>1. /\ SumFunctionOnSet(threads, old) < CoresPerSocket
          /\ old \in SUBSET Ranks /\ early \in SUBSET old /\ early \in SUBSET Ranks
          /\ p \notin early /\ m \notin early
      <4>1. ~Before(threads, p, p)
        BY <2>1 DEF Before, Ranks
      <4> QED
        BY <1>1, <4>1 DEF Load
    <3>2. CASE p = m \/ ~Before(threads, m, p)
      <4>1. before(g, g[p], p) = early
        <5>1. ~Before(threads, m, p)
          BY <2>1, <3>2 DEF Before, Ranks
        <5> QED
          BY <1>2, <2>3, <5>1
      <4> HIDE DEF early, old
      <4>2. /\ IsFiniteSet(old) /\ \A q \in old : threads[q] \in Nat
            /\ SumFunctionOnSet(threads, old) \in Nat
            /\ SumFunctionOnSet(threads, early) \in Nat
        BY <3>1, PartSums
      <4>3. SumFunctionOnSet(threads, early) <= SumFunctionOnSet(threads, old)
        BY <3>1, <4>2, SumSubset
      <4>4. SumFunctionOnSet(threads, early) <= CoresPerSocket
        BY <2>1, <3>1, <4>2, <4>3
      <4> HIDE DEF before
      <4> QED
        BY <4>1, <4>4
    <3>3. CASE p # m /\ Before(threads, m, p)
      <4>1. before(g, g[p], p) = early \cup {m}
        BY <1>2, <2>3, <3>3
      <4>2. threads[m] <= threads[p] /\ p \in old /\ (early \cup {p}) \in SUBSET old
        BY <1>2, <2>1, <2>3, <3>1, <3>3 DEF Before
      <4> HIDE DEF early, old
      <4>3. /\ IsFiniteSet(old) /\ \A q \in old : threads[q] \in Nat
            /\ IsFiniteSet(early) /\ \A q \in early : threads[q] \in Int
            /\ SumFunctionOnSet(threads, old) \in Nat
            /\ SumFunctionOnSet(threads, early) \in Nat
        BY <3>1, PartSums
      <4>4. SumFunctionOnSet(threads, early \cup {m})
              = threads[m] + SumFunctionOnSet(threads, early)
        BY <2>1, <3>1, <4>3, SumAdd
      <4>5. SumFunctionOnSet(threads, early \cup {p})
              = threads[p] + SumFunctionOnSet(threads, early)
        BY <2>1, <3>1, <4>3, SumAdd
      <4>6. SumFunctionOnSet(threads, early \cup {p}) <= SumFunctionOnSet(threads, old)
        BY <4>2, <4>3, SumSubset
      <4>7. SumFunctionOnSet(threads, early \cup {m}) <= CoresPerSocket
        BY <2>1, <3>1, <4>2, <4>3, <4>4, <4>5, <4>6
      <4> HIDE DEF before
      <4> QED
        BY <4>1, <4>7
    <3> QED
      BY <3>2, <3>3
  <2> QED
    BY <2>2, <2>3
<1>6. Admissible(threads, g)
  BY <1>5 DEF Admissible
<1> QED
  BY <1>2, <1>6 DEF Placements, g

\* So no such move is left in a best placement.
LEMMA NoMoveLeft ==
    ASSUME NEW threads \in Requests, NEW f \in BestPlacements(threads),
           NEW m \in Ranks, NEW b \in Sockets, threads[m] >= 1,
           Load(threads, f, f[m]) > CoresPerSocket, Load(threads, f, b) < CoresPerSocket
    PROVE  /\ threads[m] > Load(threads, f, f[m]) - CoresPerSocket
           /\ Load(threads, f, b) + threads[m] > CoresPerSocket
<1>1. /\ f \in Placements(threads)
      /\ \A g \in Placements(threads) :
            OverCommitment(threads, f) <= OverCommitment(threads, g)
  BY DEF BestPlacements
<1>2. f \in [Ranks -> Sockets] /\ f[m] \in Sockets
  BY <1>1 DEF Placements
<1>3. Load(threads, f, b) \in Nat /\ Load(threads, f, f[m]) \in Nat
      /\ threads[m] \in Nat /\ CoresPerSocket \in Nat
  BY <1>2, ExcessFacts, TopologyAssumption DEF Requests
<1>4. f[m] # b
  BY <1>3
<1> DEFINE g == Moved(f, m, b)
<1>5. g \in Placements(threads)
  BY <1>1, <1>4, MoveAdmissible
<1>6. /\ OverCommitment(threads, f) <= OverCommitment(threads, g)
      /\ OverCommitment(threads, f) \in Int /\ OverCommitment(threads, g) \in Int
  <2>1. g \in [Ranks -> Sockets]
    BY <1>5 DEF Placements
  <2> HIDE DEF g
  <2> QED
    BY <1>1, <1>2, <1>5, <2>1, ExcessFacts
<1>7. ~(OverCommitment(threads, g) < OverCommitment(threads, f))
  BY <1>6
<1>8. ~(\/ threads[m] <= Load(threads, f, f[m]) - CoresPerSocket
        \/ Load(threads, f, b) + threads[m] <= CoresPerSocket)
  BY <1>2, <1>4, <1>7, MoveHelps
<1> QED
  BY <1>3, <1>8

\* A best placement of threads that fill the node leaves no socket empty: if one
\* were, another would be over-committed, and any of its processes would fit there.
LEMMA NobodyAlone ==
    ASSUME NEW threads, FillsNode(threads), NEW f \in BestPlacements(threads),
           NEW s \in Sockets
    PROVE  {p \in Ranks : f[p] = s} # {}
<1> SUFFICES ASSUME {p \in Ranks : f[p] = s} = {} PROVE FALSE
  OBVIOUS
<1>1. /\ threads \in Requests
      /\ \A p \in Ranks : /\ threads[p] \in Nat /\ threads[p] >= 1
                          /\ threads[p] <= CoresPerSocket
  BY FillingFacts
<1>2. f \in [Ranks -> Sockets]
  BY DEF BestPlacements, Placements
<1>3. Load(threads, f, s) = 0
  BY SumEmpty DEF Load
<1>4. PICK a \in Sockets : Load(threads, f, a) > CoresPerSocket
  <2>1. Load(threads, f, s) < CoresPerSocket
    BY <1>3, TopologyAssumption
  <2> QED
    BY <1>2, <2>1, LoadsAddUp
<1>5. PICK m \in Ranks : f[m] = a
  <2> SUFFICES ASSUME {p \in Ranks : f[p] = a} = {} PROVE FALSE
    OBVIOUS
  <2>1. Load(threads, f, a) = 0
    BY SumEmpty DEF Load
  <2> QED
    BY <1>4, <2>1, TopologyAssumption
<1>6. Load(threads, f, s) + threads[m] > CoresPerSocket
  <2>1. Load(threads, f, s) < CoresPerSocket /\ Load(threads, f, f[m]) > CoresPerSocket
    BY <1>3, <1>4, <1>5, TopologyAssumption
  <2> QED
    BY <1>1, <2>1, NoMoveLeft
<1> QED
  BY <1>1, <1>3, <1>6, TopologyAssumption

\* Somebody is first on a socket that has processes.
LEMMA FirstExists ==
    ASSUME NEW threads \in Requests, NEW members \in SUBSET Ranks, members # {}
    PROVE  \E m : IsFirst(m, threads, members)
<1> DEFINE T == {Position(threads, p) : p \in members}
<1>1. \A p, q \in Ranks : /\ Position(threads, p) \in Nat
                          /\ Before(threads, p, q)
                               <=> Position(threads, p) < Position(threads, q)
  BY Positions
<1>2. T \in SUBSET Nat /\ T # {}
  BY <1>1
<1>3. PICK n \in T : \A k \in T : n <= k
  <2> HIDE DEF T
  <2> QED
    BY <1>2, LeastNatural
<1>4. PICK m \in members : Position(threads, m) = n
  BY <1>3
<1>5. \A q \in members : ~Before(threads, q, m)
  BY <1>1, <1>3, <1>4
<1> QED
  BY <1>5 DEF IsFirst

\* The shrinking loop ends on every socket of a best placement: the first
\* process of one that is over-committed has more threads than cores are
\* missing, or it would be better off where a core is left.
LEMMA ShrinkingEnds ==
    ASSUME NEW threads, FillsNode(threads), NEW f \in BestPlacements(threads),
           NEW s \in Sockets
    PROVE  LET here == {p \in Ranks : f[p] = s}
           IN  FreeCores(ShrinkSocket(threads, here), here) >= 0
<1> DEFINE here == {p \in Ranks : f[p] = s}
           free == FreeCores(threads, here)
<1>1. /\ threads \in Requests /\ threads \in ThreadCounts
      /\ \A p \in Ranks : /\ threads[p] \in Nat /\ threads[p] >= 1
  BY FillingFacts
<1>2. f \in [Ranks -> Sockets] /\ here \in SUBSET Ranks
  BY DEF BestPlacements, Placements
<1>3. free = CoresPerSocket - Load(threads, f, s) /\ free \in Int
      /\ Load(threads, f, s) \in Nat
  BY <1>1, <1>2, FreeCoresInt, ExcessFacts DEF FreeCores, Load
<1>4. CASE free >= 0
  <2> DEFINE I == {threads}
  <2>1. /\ I \in SUBSET ThreadCounts /\ threads \in I
        /\ \A t \in I : (FreeCores(t, here) < 0 /\ Shrinkable(t, threads, here) # {})
                          => Shrunk(t, threads, here) \in I
    BY <1>1, <1>3, <1>4
  <2>2. ShrinkSocket(threads, here) \in I
    <3> HIDE DEF I, here
    <3> QED
      BY <1>1, <1>2, <2>1, ShrinkRule
  <2> QED
    BY <1>4, <2>2
<1>5. CASE ~(free >= 0)
  <2>1. Load(threads, f, s) > CoresPerSocket
    BY <1>3, <1>5, TopologyAssumption
  <2>2. PICK b \in Sockets : Load(threads, f, b) < CoresPerSocket
    BY <1>2, <2>1, LoadsAddUp
  <2>3. here # {}
    <3> SUFFICES ASSUME here = {} PROVE FALSE
      OBVIOUS
    <3>1. Load(threads, f, s) = 0
      BY SumEmpty DEF Load
    <3> QED
      BY <2>1, <3>1, TopologyAssumption
  <2>4. PICK m : IsFirst(m, threads, here)
    <3> HIDE DEF here
    <3> QED
      BY <1>1, <1>2, <2>3, FirstExists
  <2>5. m \in Ranks /\ f[m] = s
    BY <2>4 DEF IsFirst
  <2>6. threads[m] > Load(threads, f, s) - CoresPerSocket
    BY <1>1, <2>1, <2>2, <2>5, NoMoveLeft
  <2>7. free + threads[m] > 0
    BY <1>1, <1>3, <2>5, <2>6, TopologyAssumption
  <2>8. FreeCores(ShrinkSocket(threads, here), here) >= 0
    <3>1. threads \in ThreadCounts /\ \A p \in Ranks : threads[p] >= 1
      BY <1>1
    <3> HIDE DEF here
    <3> QED
      BY <1>2, <2>4, <2>7, <3>1, ShrinkSuffices
  <2> QED
    BY <2>8
<1> QED
  BY <1>4, <1>5

\* So the adjustment of threads that fill the node, placed as well as can be, ends.
LEMMA AdjustEnds ==
    ASSUME NEW threads, FillsNode(threads), NEW f \in BestPlacements(threads)
    PROVE  ~Adjust(threads, f).spins
<1> DEFINE here(s) == {p \in Ranks : f[p] = s}
           small(s) == ShrinkSocket(threads, here(s))
           grown(s) == GrowSocket(small(s), here(s))
<1>1. threads \in ThreadCounts /\ \A p \in Ranks : threads[p] >= 1
  BY FillingFacts
<1>2. ASSUME NEW s \in Sockets
      PROVE  ~(FreeCores(small(s), here(s)) < 0) /\ ~(FreeCores(grown(s), here(s)) > 0)
  <2>1. here(s) \in SUBSET Ranks /\ here(s) # {}
    BY NobodyAlone
  <2>2. FreeCores(small(s), here(s)) >= 0
    BY ShrinkingEnds
  <2> HIDE DEF here
  <2>3. small(s) \in ThreadCounts /\ \A p \in Ranks : small(s)[p] >= 1
    BY <1>1, <2>1, ShrinkResult
  <2>4. FreeCores(small(s), here(s)) \in Int
    BY <2>1, <2>3, FreeCoresInt
  <2> HIDE DEF small
  <2>5. grown(s) \in ThreadCounts /\ FreeCores(grown(s), here(s)) <= 0
    BY <2>1, <2>2, <2>3, GrowResult
  <2>6. FreeCores(grown(s), here(s)) \in Int
    BY <2>1, <2>5, FreeCoresInt
  <2> QED
    BY <2>2, <2>4, <2>5, <2>6
<1> QED
  BY <1>2 DEF Adjust

\* In a build without assertions, a round over a fair table ends well.
LEMMA FairRoundEnds ==
    ASSUME NEW members, NEW table, Fair(table), NDebug
    PROVE  Round(members, table).end = "app"
<1> DEFINE shares == Distribution(table)
           from == [q \in Ranks |-> members[q].prevSocket]
           solution == Solve(shares, from)
<1>1. ~Undefined(table) /\ FillsNode(shares)
  BY FairSharesFill DEF Fair
<1> HIDE DEF shares
<1>2. IsDemand(shares) /\ Placements(shares) # {}
  BY <1>1, FillingFacts, PlacementExists
<1>3. solution.found /\ solution.socket \in BestPlacements(shares)
  <2> HIDE DEF from
  <2> QED
    BY <1>2, SolveComplete, SolveBest
<1>4. ~Adjust(shares, solution.socket).spins
  <2> HIDE DEF solution
  <2> QED
    BY <1>1, <1>3, AdjustEnds
<1> QED
  BY <1>1, <1>3, <1>4 DEF Round, shares

\* A lost process still has the table and the team its round was lost with.
LostInv == \A p \in Ranks : NDebug /\ pc[p] \in Lost => Round(team[p], elapsed[p]).end # "app"

\* Who is lost takes no step any more; who gets lost had a round that fails.
LEMMA LostStep == TypeInv /\ LostInv /\ [Next]_vars => LostInv'
<1> SUFFICES ASSUME TypeInv, LostInv, [Next]_vars PROVE LostInv'
  OBVIOUS
<1>1. CASE UNCHANGED vars
  BY <1>1 DEF vars, LostInv
<1>2. ASSUME NEW p \in Ranks, Work(p) \/ Call(p) PROVE LostInv'
  <2> SUFFICES ASSUME NEW q \in Ranks, NDebug, pc'[q] \in Lost
               PROVE  Round(team'[q], elapsed'[q]).end # "app"
    BY DEF LostInv
  <2>1. /\ pc = [r \in Ranks |-> pc[r]] /\ team = [r \in Ranks |-> team[r]]
        /\ elapsed = [r \in Ranks |-> elapsed[r]]
    BY DEF TypeInv, Inv, Shape
  <2>2. CASE q # p
    <3>1. pc'[q] = pc[q] /\ team'[q] = team[q] /\ elapsed'[q] = elapsed[q]
      BY <1>2, <2>1, <2>2 DEF Work, Call, SkipCall, EnterRound, GatherElapsed, GatherThreads,
                              Cancel, Rebalance, Fail, Leave
    <3> QED
      BY <2>2, <3>1 DEF LostInv
  <2>3. CASE q = p /\ Fail(p)
    <3>1. /\ Outcome(p) # "app" /\ team' = team /\ elapsed' = elapsed
      BY <2>3 DEF Fail, Lost
    <3>2. Round(team[p], elapsed[p]).end # "app"
      BY <3>1 DEF Outcome
    <3> QED
      BY <2>3, <3>1, <3>2
  <2>4. CASE q = p /\ ~Fail(p)
    <3>1. pc'[p] \notin Lost
      BY <1>2, <2>1, <2>4 DEF Work, Call, SkipCall, EnterRound, GatherElapsed, GatherThreads,
                              Cancel, Rebalance, Leave, Lost
    <3> QED
      BY <2>4, <3>1
  <2> QED
    BY <2>2, <2>3, <2>4
<1> QED
  BY <1>1, <1>2 DEF Next, Stop

\* Without assertions, a round only loses a process when somebody was raised to
\* one thread or dispatched past a socket: otherwise the shares fill the node, some
\* placement has them, a best one is found, and its adjustment ends
\* (sabo.c:439, 486, 672-694, decision_tree.c:393).
THEOREM NobodyIsLost == Spec => []NobodyLost
<1>1. Init => LostInv
  BY DEF Init, LostInv, Lost
<1>2. TypeInv /\ LostInv => NobodyLost
  <2> SUFFICES ASSUME TypeInv, LostInv, NEW p \in Ranks, NDebug, pc[p] \in Lost,
                      ~\E i \in Steps : \E q \in Ranks :
                           \/ elapsed[p][q][i] * NumCores < StepSum(elapsed[p], i)
                           \/ elapsed[p][q][i] = 0,
                      ~Asserts(elapsed[p])
               PROVE  FALSE
    BY DEF NobodyLost
  <2>1. elapsed[p] \in Tables
    BY DEF TypeInv, ControlOK
  <2>2. \A i \in Steps : Raised(elapsed[p], i) = {}
    BY DEF Raised
  <2>3. ~Undefined(elapsed[p])
    <3> SUFFICES ASSUME NEW i \in Steps, StepSum(elapsed[p], i) = 0 PROVE FALSE
      BY DEF Undefined
    <3> DEFINE column == [q \in Ranks |-> elapsed[p][q][i]]
    <3>1. 0 \in Ranks /\ column[0] # 0
      BY TopologyAssumption DEF Ranks
    <3>2. \A q \in Ranks : column[q] \in Nat
      BY <2>1 DEF Tables
    <3>3. SumFunctionOnSet(column, Ranks) = 0
      BY DEF StepSum, SumFunction
    <3> HIDE DEF column
    <3>4. column[0] <= SumFunctionOnSet(column, Ranks)
      BY <3>1, <3>2, RanksFinite, SumElement
    <3> QED
      BY <3>1, <3>2, <3>3, <3>4
  <2>4. Fair(elapsed[p])
    BY <2>1, <2>2, <2>3 DEF Fair
  <2>5. Round(team[p], elapsed[p]).end = "app"
    BY <2>4, FairRoundEnds
  <2> QED
    BY <2>5 DEF LostInv
<1> QED
  BY <1>1, <1>2, InitTypeInv, TypeStep, LostStep, PTL DEF Spec
-----------------------------------------------------------------------------
(* The teams and the cores *)

\* A team whose processes all have threads and a socket.
Seated(members) ==
    /\ members \in [Ranks -> Member]
    /\ \A q \in Ranks : members[q].threads \in Nat \ {0} /\ members[q].socket \in Sockets

\* A process of a new team keeps in mind where it was.
Follow(new, old) ==
    \A q \in Ranks : /\ new[q].prevThreads = old[q].threads
                     /\ new[q].prevSocket = old[q].socket

\* The shares of a table of times somebody worked in are a demand.
LEMMA SharesAreDemands ==
    ASSUME NEW table \in Tables, ~Undefined(table)
    PROVE  /\ Distribution(table) \in Requests /\ Distribution(table) \in ThreadCounts
           /\ \A p \in Ranks : Distribution(table)[p] >= 1
<1> DEFINE shares == Distribution(table)
<1>1. shares \in [Ranks -> 1 .. NumCores]
  BY DistributionType
<1> HIDE DEF shares
<1>2. shares \in Requests /\ shares \in ThreadCounts /\ \A p \in Ranks : shares[p] >= 1
  BY <1>1, CoresPositive DEF Requests, ThreadCounts
<1> QED
  BY <1>2 DEF shares

\* A round that ends well seats everybody.
LEMMA RoundSeats ==
    ASSUME NEW members \in [Ranks -> Member], NEW table \in Tables,
           Round(members, table).end = "app"
    PROVE  /\ Seated(Round(members, table).team)
           /\ Follow(Round(members, table).team, members)
<1> DEFINE shares == Distribution(table)
           solution == Solve(shares, [q \in Ranks |-> members[q].prevSocket])
           socket == solution.socket
           left == Adjust(shares, socket).threads
           new == NewTeam(members, left, socket)
<1>1. /\ ~Undefined(table) /\ solution.found
      /\ ~Adjust(shares, socket).spins
      /\ Round(members, table).team = new
  BY DEF Round
<1>2. shares \in Requests /\ shares \in ThreadCounts /\ \A p \in Ranks : shares[p] >= 1
  BY <1>1, SharesAreDemands
<1>3. socket \in [Ranks -> Sockets]
  BY <1>1, <1>2, SolveSound
<1> HIDE DEF shares, socket, solution
<1>4. \A p \in Ranks : left[p] \in Nat \ {0}
  <2> SUFFICES ASSUME NEW p \in Ranks PROVE left[p] \in Nat \ {0}
    OBVIOUS
  <2> DEFINE s == socket[p]
  <2>1. s \in Sockets /\ p \in {q \in Ranks : socket[q] = s}
    BY <1>3
  <2> HIDE DEF s
  <2>2. \A q \in {q \in Ranks : socket[q] = s} : left[q] \in Nat \ {0}
    BY <1>1, <1>2, <2>1, AdjustFillsSocket
  <2> QED
    BY <2>1, <2>2
<1> HIDE DEF left
<1>5. \A q \in Ranks : /\ members[q].threads \in Int /\ members[q].socket \in Int
                       /\ left[q] \in Int /\ socket[q] \in Int
                       /\ members[q] \in Member
  BY <1>3, <1>4 DEF Member, Sockets
<1>6. /\ new \in [Ranks -> Member]
      /\ \A q \in Ranks : /\ new[q].threads = left[q] /\ new[q].socket = socket[q]
                          /\ new[q].prevThreads = members[q].threads
                          /\ new[q].prevSocket = members[q].socket
  BY <1>5 DEF NewTeam, Member
<1> QED
  BY <1>1, <1>3, <1>4, <1>6 DEF Seated, Follow

\* The cores a seated process takes.
LEMMA TargetsType ==
    ASSUME NEW members, Seated(members), NEW p \in Ranks,
           bound[p] \in [ThreadIds -> Cores \cup {NoCore}],
           NEW target \in Targets(members, p)
    PROVE  target \in [ThreadIds -> Cores \cup {NoCore}]
<1> DEFINE first == FirstCore(members, p)
           s == members[p].socket
           ids == CoreId[s]
           threads == {t \in ThreadIds : t < members[p].threads}
           past == {t \in threads : first + t >= CoresPerSocket}
<1>1. first \in Nat /\ s \in Sockets
  <2> DEFINE loads == [q \in Ranks |-> members[q].threads]
             lower == {q \in Ranks : members[q].socket = members[p].socket /\ q < p}
  <2>1. loads \in Requests /\ lower \in SUBSET Ranks
    BY DEF Seated, Requests
  <2>2. FirstCore(members, p) = SumFunctionOnSet(loads, lower)
    BY DEF FirstCore
  <2> HIDE DEF loads, lower
  <2>3. SumFunctionOnSet(loads, lower) \in Nat
    BY <2>1, PartSums
  <2> QED
    BY <2>2, <2>3 DEF Seated
<1>2. PICK stray \in [past -> Cores \cup {NoCore}] :
        target = [t \in ThreadIds |->
            IF t \notin threads THEN bound[p][t]
            ELSE IF t \notin past THEN ids[first + t]
            ELSE IF stray[t] = NoCore THEN bound[p][t] ELSE stray[t]]
  BY DEF Targets
<1> HIDE DEF first, s
<1>3. \A t \in threads \ past : first + t \in 0 .. CoresPerSocket - 1
  BY <1>1, TopologyAssumption DEF ThreadIds
<1>4. \A t \in threads \ past : ids[first + t] \in Cores
  BY <1>1, <1>3 DEF Cores
<1> HIDE DEF threads, past, ids
<1> QED
  BY <1>2, <1>4

\* The cores a process starts at are those of the lower ranks of its socket.
LEMMA FirstCoreFacts ==
    ASSUME NEW members, Seated(members), NEW p \in Ranks
    PROVE  /\ FirstCore(members, p) \in Nat
           /\ FirstCore(members, p) + members[p].threads
                <= SocketLoad(members, members[p].socket)
           /\ \A q \in Ranks : (members[q].socket = members[p].socket /\ p < q) =>
                FirstCore(members, p) + members[p].threads <= FirstCore(members, q)
<1> DEFINE loads == [q \in Ranks |-> members[q].threads]
           Lower(q) == {r \in Ranks : members[r].socket = members[q].socket /\ r < q}
           upto == Lower(p) \cup {p}
           Sum(part) == SumFunctionOnSet(loads, part)
<1>1. /\ loads \in Requests /\ \A q \in Ranks : loads[q] \in Nat /\ loads[q] \in Int
      /\ loads[p] = members[p].threads
  BY DEF Seated, Requests
<1>2. \A q \in Ranks : FirstCore(members, q) = Sum(Lower(q))
  BY DEF FirstCore
<1>3. SocketLoad(members, members[p].socket)
        = Sum({q \in Ranks : members[q].socket = members[p].socket})
  BY DEF SocketLoad
<1>4. Lower(p) \in SUBSET Ranks /\ p \notin Lower(p) /\ upto \in SUBSET Ranks
  BY DEF Ranks
<1>5. \A part \in SUBSET Ranks : /\ IsFiniteSet(part) /\ Sum(part) \in Nat
                                 /\ \A q \in part : loads[q] \in Int /\ loads[q] \in Nat
  <2> HIDE DEF loads
  <2> QED
    BY <1>1, PartSums
<1>6. Sum(upto) = loads[p] + Sum(Lower(p))
  <2> DEFINE lower == Lower(p)
  <2>1. /\ IsFiniteSet(lower) /\ \A q \in lower : loads[q] \in Int
        /\ p \notin lower /\ loads[p] \in Int
    BY <1>1, <1>4, <1>5
  <2> HIDE DEF lower, loads
  <2> QED
    BY <2>1, SumAdd DEF lower
<1>7. ASSUME NEW whole \in SUBSET Ranks, upto \in SUBSET whole
      PROVE  FirstCore(members, p) + members[p].threads <= Sum(whole)
  <2>1. IsFiniteSet(whole) /\ \A q \in whole : loads[q] \in Nat
    BY <1>5
  <2> HIDE DEF loads, upto
  <2>2. Sum(upto) <= Sum(whole)
    BY <1>7, <2>1, SumSubset
  <2>3. Sum(Lower(p)) \in Nat /\ loads[p] \in Nat /\ Sum(whole) \in Nat
    BY <1>1, <1>4, <1>5
  <2> HIDE DEF Sum, Lower
  <2> QED
    BY <1>1, <1>2, <1>6, <2>2, <2>3
<1>8. FirstCore(members, p) \in Nat
  BY <1>2, <1>4, <1>5
<1>9. upto \in SUBSET {q \in Ranks : members[q].socket = members[p].socket}
  OBVIOUS
<1>10. ASSUME NEW q \in Ranks, members[q].socket = members[p].socket, p < q
       PROVE  Lower(q) \in SUBSET Ranks /\ upto \in SUBSET Lower(q)
  BY <1>10, TopologyAssumption DEF Ranks
<1>11. {q \in Ranks : members[q].socket = members[p].socket} \in SUBSET Ranks
  OBVIOUS
<1> HIDE DEF upto, Sum, Lower
<1> QED
  BY <1>2, <1>3, <1>7, <1>8, <1>9, <1>10, <1>11

\* The threads of p are on consecutive cores of its socket, from f on.
PlacedAt(members, cores, p, f) ==
    \A t \in ThreadIds : t < members[p].threads =>
        cores[t] = CoreId[members[p].socket][f + t]

Moves(members, p) == \/ members[p].threads # members[p].prevThreads
                     \/ members[p].socket # members[p].prevSocket

Relocated(history) == \E k \in 1 .. Len(history) : history[k].moved

Fitted(history) == \A k \in 1 .. Len(history) : history[k].moved => Fits(history[k].team)

\* Where the threads of a process are: nowhere before it has rebalanced; where its
\* team puts them when the last rebalancing changed its share or its socket and
\* fits; and when all have fitted, on a row of cores of its socket at least, which
\* is the one its team gives it if an index is never somebody else's core.
Bound(members, cores, history, p) ==
    /\ members \in [Ranks -> Member]
    /\ cores \in [ThreadIds -> Cores \cup {NoCore}]
    /\ Relocated(history) \/ (members = InitialTeam /\ \A t \in ThreadIds : cores[t] = NoCore)
    /\ Relocated(history) => Seated(members)
    /\ Relocated(history) /\ Fits(members) /\ Moves(members, p)
         => PlacedAt(members, cores, p, FirstCore(members, p))
    /\ Relocated(history) /\ Fitted(history) =>
         \E f \in Nat : /\ f + members[p].threads <= CoresPerSocket
                        /\ PlacedAt(members, cores, p, f)
                        /\ IndexIsCore => f = FirstCore(members, p)

\* The load of a socket is a number.
LEMMA SocketLoadInt ==
    ASSUME NEW members, Seated(members), NEW p \in Ranks
    PROVE  SocketLoad(members, members[p].socket) \in Int
<1> DEFINE loads == [q \in Ranks |-> members[q].threads]
           here == {q \in Ranks : members[q].socket = members[p].socket}
<1>1. loads \in Requests /\ here \in SUBSET Ranks
  BY DEF Seated, Requests
<1>2. SocketLoad(members, members[p].socket) = SumFunctionOnSet(loads, here)
  BY DEF SocketLoad
<1> HIDE DEF loads, here
<1> QED
  BY <1>1, <1>2, PartSums

\* A process that moves on a socket that fits has its threads placed.
LEMMA TargetsPlaced ==
    ASSUME NEW members, Seated(members), NEW p \in Ranks, Fits(members),
           NEW target \in Targets(members, p)
    PROVE  /\ PlacedAt(members, target, p, FirstCore(members, p))
           /\ FirstCore(members, p) + members[p].threads <= CoresPerSocket
<1> DEFINE first == FirstCore(members, p)
           ids == CoreId[members[p].socket]
           threads == {t \in ThreadIds : t < members[p].threads}
           past == {t \in threads : first + t >= CoresPerSocket}
<1>1. first \in Nat /\ first + members[p].threads <= CoresPerSocket
  <2>1. members[p].socket \in Sockets /\ members[p].threads \in Nat
    BY DEF Seated
  <2>2. SocketLoad(members, members[p].socket) <= CoresPerSocket
    BY <2>1 DEF Fits
  <2>3. SocketLoad(members, members[p].socket) \in Int
    BY SocketLoadInt
  <2> QED
    BY <2>1, <2>2, <2>3, FirstCoreFacts, TopologyAssumption
<1>2. PICK stray \in [past -> Cores \cup {NoCore}] :
        target = [t \in ThreadIds |->
            IF t \notin threads THEN bound[p][t]
            ELSE IF t \notin past THEN ids[first + t]
            ELSE IF stray[t] = NoCore THEN bound[p][t] ELSE stray[t]]
  BY DEF Targets
<1> HIDE DEF first
<1>3. ASSUME NEW t \in ThreadIds, t < members[p].threads PROVE t \in threads /\ t \notin past
  BY <1>1, <1>3, TopologyAssumption DEF Seated, ThreadIds
<1>4. \A t \in ThreadIds : t < members[p].threads => target[t] = ids[first + t]
  <2> HIDE DEF threads, past, ids
  <2> QED
    BY <1>2, <1>3
<1> QED
  BY <1>1, <1>4 DEF PlacedAt, first

\* An entry of a history: a cancelled round, or a rebalancing and its team.
Entry == [moved : BOOLEAN, team : [Ranks -> Member]]

\* What a new entry changes in a history.
LEMMA HistoryGrows ==
    ASSUME NEW history \in Seq(Entry), NEW entry \in Entry
    PROVE  /\ Append(history, entry) \in Seq(Entry)
           /\ Relocated(Append(history, entry)) <=> (Relocated(history) \/ entry.moved)
           /\ Fitted(Append(history, entry))
                <=> (Fitted(history) /\ (entry.moved => Fits(entry.team)))
<1>1. /\ Len(history) \in Nat
      /\ Len(Append(history, entry)) = Len(history) + 1
      /\ Append(history, entry)[Len(history) + 1] = entry
      /\ \A k \in 1 .. Len(history) : Append(history, entry)[k] = history[k]
  BY AppendFacts, ZenonT(30)
<1> DEFINE longer == Append(history, entry)
<1>2. longer \in Seq(Entry)
  OBVIOUS
<1> HIDE DEF longer
<1>3. 1 .. Len(longer) = (1 .. Len(history)) \cup {Len(history) + 1}
  BY <1>1 DEF longer
<1>4. Relocated(longer) <=> (Relocated(history) \/ entry.moved)
  BY <1>1, <1>3 DEF Relocated, longer
<1>5. Fitted(longer) <=> (Fitted(history) /\ (entry.moved => Fits(entry.team)))
  BY <1>1, <1>3 DEF Fitted, longer
<1> QED
  BY <1>2, <1>4, <1>5 DEF longer

\* A first core that the shortcut compares with is the one the threads start on.
LEMMA ShortcutStays ==
    ASSUME NEW p \in Ranks, NEW old, NEW new, NEW history \in Seq(Entry),
           Bound(old, bound[p], history, p), Fitted(history),
           Seated(new), Follow(new, old), NothingToDo(new, p), Fits(new)
    PROVE  \E f \in Nat : /\ f + new[p].threads <= CoresPerSocket
                          /\ PlacedAt(new, bound[p], p, f)
                          /\ IndexIsCore => f = FirstCore(new, p)
<1>1. /\ new[p].threads = old[p].threads /\ new[p].socket = old[p].socket
      /\ bound[p][0] = FirstCore(new, p)
      /\ new[p].threads \in Nat \ {0} /\ new[p].socket \in Sockets
  BY DEF NothingToDo, Follow, Seated
<1>2. Relocated(history)
  <2>1. SUFFICES ASSUME ~Relocated(history) PROVE FALSE
    OBVIOUS
  <2>2. old = InitialTeam
    BY <2>1 DEF Bound
  <2>3. old[p].socket = -1
    BY <2>2 DEF InitialTeam, Unset
  <2> QED
    BY <1>1, <2>3 DEF Sockets
<1>3. PICK f \in Nat : /\ f + old[p].threads <= CoresPerSocket
                       /\ PlacedAt(old, bound[p], p, f)
  BY <1>2 DEF Bound
<1>4. PlacedAt(new, bound[p], p, f)
  BY <1>1, <1>3 DEF PlacedAt
<1>5. ASSUME IndexIsCore PROVE f = FirstCore(new, p)
  <2>1. 0 \in ThreadIds /\ 0 < new[p].threads
    BY <1>1, CoresPositive DEF ThreadIds
  <2>2. bound[p][0] = CoreId[new[p].socket][f + 0]
    BY <1>4, <2>1 DEF PlacedAt
  <2>3. f + 0 = f /\ f \in 0 .. CoresPerSocket - 1
    BY <1>1, <1>3, TopologyAssumption
  <2>4. FirstCore(new, p) \in 0 .. CoresPerSocket - 1
    <3>1. /\ FirstCore(new, p) \in Nat
          /\ FirstCore(new, p) + new[p].threads <= SocketLoad(new, new[p].socket)
      BY FirstCoreFacts
    <3>2. SocketLoad(new, new[p].socket) <= CoresPerSocket
      BY <1>1 DEF Fits
    <3>3. SocketLoad(new, new[p].socket) \in Int
      BY SocketLoadInt
    <3> QED
      BY <1>1, <3>1, <3>2, <3>3, TopologyAssumption
  <2> QED
    BY <1>1, <1>5, <2>2, <2>3, <2>4 DEF IndexIsCore
<1> QED
  BY <1>1, <1>3, <1>4, <1>5

\* A rebalancing leaves the threads of a process where the invariant says.
LEMMA BoundStep ==
    ASSUME NEW p \in Ranks, NEW old, NEW new, NEW cores,
           NEW history \in Seq(Entry), NEW entry \in Entry,
           Bound(old, bound[p], history, p), Seated(new), Follow(new, old),
           entry.moved, entry.team = new,
           \/ NothingToDo(new, p) /\ cores = bound[p]
           \/ ~NothingToDo(new, p) /\ cores \in Targets(new, p)
    PROVE  Bound(new, cores, Append(history, entry), p)
<1> DEFINE longer == Append(history, entry)
<1>1. Relocated(longer) /\ (Fitted(longer) <=> Fitted(history) /\ Fits(new))
  BY HistoryGrows
<1>2. bound[p] \in [ThreadIds -> Cores \cup {NoCore}]
  BY DEF Bound
<1>3. cores \in [ThreadIds -> Cores \cup {NoCore}]
  BY <1>2, TargetsType
<1>4. ASSUME Fits(new), Moves(new, p)
      PROVE  PlacedAt(new, cores, p, FirstCore(new, p))
  <2>1. ~NothingToDo(new, p)
    BY <1>4 DEF Moves, NothingToDo
  <2> QED
    BY <1>4, <2>1, TargetsPlaced
<1>5. ASSUME Fitted(longer)
      PROVE  \E f \in Nat : /\ f + new[p].threads <= CoresPerSocket
                            /\ PlacedAt(new, cores, p, f)
                            /\ IndexIsCore => f = FirstCore(new, p)
  <2>0. Fitted(history) /\ Fits(new)
    BY <1>1, <1>5
  <2>1. CASE NothingToDo(new, p)
    <3>1. \E f \in Nat : /\ f + new[p].threads <= CoresPerSocket
                         /\ PlacedAt(new, bound[p], p, f)
                         /\ IndexIsCore => f = FirstCore(new, p)
      BY <2>0, <2>1, ShortcutStays
    <3> QED
      BY <2>1, <3>1
  <2>2. CASE ~NothingToDo(new, p)
    <3>1. FirstCore(new, p) \in Nat
      BY FirstCoreFacts
    <3>2. cores \in Targets(new, p)
      BY <2>2
    <3>3. /\ PlacedAt(new, cores, p, FirstCore(new, p))
          /\ FirstCore(new, p) + new[p].threads <= CoresPerSocket
      BY <2>0, <3>2, TargetsPlaced
    <3> QED
      BY <3>1, <3>3
  <2> QED
    BY <2>1, <2>2
<1>6. new \in [Ranks -> Member]
  BY DEF Seated
<1> HIDE DEF longer
<1>7. Bound(new, cores, longer, p)
  BY <1>1, <1>3, <1>4, <1>5, <1>6 DEF Bound
<1> QED
  BY <1>7 DEF longer

\* Every process's threads are where its history puts them.
BoundInv ==
    /\ team \in [Ranks -> [Ranks -> Member]]
    /\ bound \in [Ranks -> [ThreadIds -> Cores \cup {NoCore}]]
    /\ hist \in [Ranks -> Seq(Entry)]
    /\ \A p \in Ranks : Bound(team[p], bound[p], hist[p], p)

\* Nobody has threads on a core before the first rebalancing.
LEMMA InitBoundInv == Init => BoundInv
<1> SUFFICES ASSUME Init PROVE BoundInv
  OBVIOUS
<1>1. InitialTeam \in [Ranks -> Member]
  BY RoundAssumption DEF InitialTeam, Member, Unset
<1>2. /\ \A p \in Ranks : team[p] = InitialTeam /\ hist[p] = <<>>
      /\ team = [p \in Ranks |-> InitialTeam]
      /\ hist = [p \in Ranks |-> <<>>]
      /\ bound = [p \in Ranks |-> [t \in ThreadIds |-> NoCore]]
  BY DEF Init, InitialTeam
<1>3. ASSUME NEW p \in Ranks PROVE ~Relocated(hist[p])
  BY <1>2, <1>3 DEF Relocated
<1>4. hist \in [Ranks -> Seq(Entry)]
  BY <1>2
<1>5. bound \in [Ranks -> [ThreadIds -> Cores \cup {NoCore}]]
  BY <1>2
<1>6. ASSUME NEW p \in Ranks PROVE Bound(team[p], bound[p], hist[p], p)
  BY <1>1, <1>2, <1>3, <1>5 DEF Bound
<1> QED
  BY <1>1, <1>2, <1>4, <1>5, <1>6 DEF BoundInv

\* A rebalancing puts the threads where it says, or finds them there; nothing else
\* moves a thread.
LEMMA BoundInvStep == TypeInv /\ BoundInv /\ [Next]_vars => BoundInv'
<1> SUFFICES ASSUME TypeInv, BoundInv, [Next]_vars PROVE BoundInv'
  OBVIOUS
<1>1. ASSUME NEW p \in Ranks, NEW new \in [Ranks -> Member],
             NEW cores \in [ThreadIds -> Cores \cup {NoCore}], NEW entry \in Entry,
             team' = [team EXCEPT ![p] = new],
             bound' = [bound EXCEPT ![p] = cores],
             hist' = [hist EXCEPT ![p] = Append(hist[p], entry)],
             Bound(new, cores, Append(hist[p], entry), p)
      PROVE  BoundInv'
  <2>1. hist[p] \in Seq(Entry)
    BY DEF BoundInv
  <2>2. Append(hist[p], entry) \in Seq(Entry)
    BY <2>1, HistoryGrows
  <2>3. hist' \in [Ranks -> Seq(Entry)]
    BY <1>1, <2>2 DEF BoundInv
  <2>4. /\ team' \in [Ranks -> [Ranks -> Member]]
        /\ bound' \in [Ranks -> [ThreadIds -> Cores \cup {NoCore}]]
    BY <1>1 DEF BoundInv
  <2>5. ASSUME NEW q \in Ranks PROVE Bound(team'[q], bound'[q], hist'[q], q)
    <3>1. CASE q = p
      BY <1>1, <3>1 DEF BoundInv
    <3>2. CASE q # p
      BY <1>1, <3>2 DEF BoundInv
    <3> QED
      BY <3>1, <3>2
  <2>6. \A q \in Ranks : Bound(team[q], bound[q], hist[q], q)'
    BY <2>5 DEF Bound, Relocated, Fitted, Fits, Seated, PlacedAt, Moves, IndexIsCore,
                InitialTeam, FirstCore, SocketLoad
  <2> QED
    BY <2>3, <2>4, <2>6 DEF BoundInv
<1>2. CASE UNCHANGED <<team, bound, hist>>
  <2>1. \A q \in Ranks : Bound(team'[q], bound'[q], hist'[q], q)
    BY <1>2 DEF BoundInv
  <2>2. \A q \in Ranks : Bound(team[q], bound[q], hist[q], q)'
    BY <2>1 DEF Bound, Relocated, Fitted, Fits, Seated, PlacedAt, Moves, IndexIsCore,
                InitialTeam, FirstCore, SocketLoad
  <2> QED
    BY <1>2, <2>2 DEF BoundInv
<1>3. ASSUME NEW p \in Ranks, Cancel(p) PROVE BoundInv'
  <2> DEFINE entry == [moved |-> FALSE, team |-> team[p]]
  <2>1. /\ hist' = [hist EXCEPT ![p] = Append(hist[p], entry)]
        /\ team' = team /\ bound' = bound
    BY <1>3 DEF Cancel
  <2>2. /\ team' = [team EXCEPT ![p] = team[p]]
        /\ bound' = [bound EXCEPT ![p] = bound[p]]
    BY <2>1 DEF BoundInv
  <2>3. /\ team[p] \in [Ranks -> Member] /\ hist[p] \in Seq(Entry)
        /\ bound[p] \in [ThreadIds -> Cores \cup {NoCore}]
        /\ Bound(team[p], bound[p], hist[p], p)
    BY DEF BoundInv
  <2>4. entry \in Entry /\ ~entry.moved
    BY <2>3 DEF Entry
  <2> HIDE DEF entry
  <2> DEFINE longer == Append(hist[p], entry)
  <2>5. /\ Relocated(longer) <=> Relocated(hist[p])
        /\ Fitted(longer) <=> Fitted(hist[p])
    BY <2>3, <2>4, HistoryGrows
  <2>6. Bound(team[p], bound[p], longer, p)
    <3> HIDE DEF longer
    <3> QED
      BY <2>3, <2>5 DEF Bound
  <2> QED
    BY <1>1, <2>1, <2>2, <2>3, <2>4, <2>6
<1>4. ASSUME NEW p \in Ranks, Rebalance(p) PROVE BoundInv'
  <2> DEFINE new == Round(team[p], elapsed[p]).team
             entry == [moved |-> TRUE, team |-> new]
  <2>1. /\ hist' = [hist EXCEPT ![p] = Append(hist[p], entry)]
        /\ entry.team = new /\ entry.moved
        /\ team' = [team EXCEPT ![p] = new]
        /\ \/ NothingToDo(new, p) /\ bound' = bound
           \/ /\ ~NothingToDo(new, p)
              /\ \E target \in Targets(new, p) : bound' = [bound EXCEPT ![p] = target]
    BY <1>4 DEF Rebalance
  <2>2. Round(team[p], elapsed[p]).end = "app"
    BY <1>4 DEF Rebalance, Outcome
  <2>3. /\ team[p] \in [Ranks -> Member] /\ hist[p] \in Seq(Entry)
        /\ bound[p] \in [ThreadIds -> Cores \cup {NoCore}]
        /\ Bound(team[p], bound[p], hist[p], p)
        /\ elapsed[p] \in Tables
    BY DEF BoundInv, TypeInv, ControlOK
  <2>4. Seated(new) /\ Follow(new, team[p])
    BY <2>2, <2>3, RoundSeats
  <2>5. new \in [Ranks -> Member]
    BY <2>4 DEF Seated
  <2>6. entry \in Entry
    BY <2>5 DEF Entry
  <2> HIDE DEF new, entry
  <2>7. \E cores : /\ bound' = [bound EXCEPT ![p] = cores]
                   /\ \/ NothingToDo(new, p) /\ cores = bound[p]
                      \/ ~NothingToDo(new, p) /\ cores \in Targets(new, p)
    <3>1. bound = [bound EXCEPT ![p] = bound[p]]
      BY DEF BoundInv
    <3>2. CASE NothingToDo(new, p) /\ bound' = bound
      BY <3>1, <3>2
    <3>3. CASE /\ ~NothingToDo(new, p)
               /\ \E target \in Targets(new, p) : bound' = [bound EXCEPT ![p] = target]
      BY <3>3
    <3> QED
      BY <2>1, <3>2, <3>3
  <2>8. PICK cores : /\ bound' = [bound EXCEPT ![p] = cores]
                     /\ \/ NothingToDo(new, p) /\ cores = bound[p]
                        \/ ~NothingToDo(new, p) /\ cores \in Targets(new, p)
    BY <2>7
  <2>9. cores \in [ThreadIds -> Cores \cup {NoCore}]
    BY <2>3, <2>4, <2>8, TargetsType
  <2>10. Bound(new, cores, Append(hist[p], entry), p)
    BY <2>1, <2>3, <2>4, <2>6, <2>8, BoundStep
  <2> QED
    BY <1>1, <2>1, <2>5, <2>6, <2>8, <2>9, <2>10
<1> QED
  BY <1>2, <1>3, <1>4 DEF Next, Stop, Call, Work, SkipCall, EnterRound, GatherElapsed,
                        GatherThreads, Fail, vars

\* Every variable keeps its type, for every node: a team is a table of threads
\* and sockets, a thread is on a core that exists or on none, a history is a
\* list of rounds (sabo.c:120-190).
THEOREM NodeTyped == Spec => []TypeOK
<1>1. TypeInv /\ BoundInv => TypeOK
  BY DEF TypeInv, BoundInv, TypeOK, Entry
<1> QED
  BY <1>1, InitTypeInv, TypeStep, InitBoundInv, BoundInvStep, PTL DEF Spec

\* The cores the threads of a relocated process are on, seen from its team.
LEMMA OnARow ==
    ASSUME BoundInv, NEW p \in Ranks, Relocated(hist[p]), Fits(team[p]),
           MustMove(p) \/ AlwaysFitted(p)
    PROVE  \E f \in Nat : /\ f + team[p][p].threads <= CoresPerSocket
                          /\ PlacedAt(team[p], bound[p], p, f)
                          /\ (MustMove(p) \/ IndexIsCore) => f = FirstCore(team[p], p)
<1>1. /\ Bound(team[p], bound[p], hist[p], p) /\ Seated(team[p])
      /\ team[p][p].socket \in Sockets /\ team[p][p].threads \in Nat
  BY DEF BoundInv, Bound, Seated
<1>2. CASE MustMove(p)
  <2>1. PlacedAt(team[p], bound[p], p, FirstCore(team[p], p))
    BY <1>1, <1>2 DEF Bound, MustMove, Moves
  <2>2. /\ FirstCore(team[p], p) \in Nat
        /\ FirstCore(team[p], p) + team[p][p].threads
             <= SocketLoad(team[p], team[p][p].socket)
    BY <1>1, FirstCoreFacts
  <2>3. SocketLoad(team[p], team[p][p].socket) \in Int
    BY <1>1, SocketLoadInt
  <2>4. SocketLoad(team[p], team[p][p].socket) <= CoresPerSocket
    BY <1>1 DEF Fits
  <2>5. FirstCore(team[p], p) + team[p][p].threads <= CoresPerSocket
    BY <1>1, <2>2, <2>3, <2>4, TopologyAssumption
  <2> QED
    BY <2>1, <2>2, <2>5
<1>3. CASE ~MustMove(p) /\ AlwaysFitted(p)
  <2>1. Fitted(hist[p])
    BY <1>3 DEF AlwaysFitted, Fitted
  <2> QED
    BY <1>1, <1>3, <2>1 DEF Bound
<1> QED
  BY <1>2, <1>3

\* The cores of a row are as many as its threads.
LEMMA RowCores ==
    ASSUME NEW p \in Ranks, Seated(team[p]), NEW f \in Nat,
           f + team[p][p].threads <= CoresPerSocket,
           PlacedAt(team[p], bound[p], p, f)
    PROVE  /\ ActiveCores(p) = {CoreId[team[p][p].socket][j] :
                                  j \in f .. f + team[p][p].threads - 1}
           /\ Cardinality(ActiveCores(p)) = team[p][p].threads
<1> DEFINE n == team[p][p].threads
           ids == CoreId[team[p][p].socket]
           row == f .. f + n - 1
           all == {ids[j] : j \in row}
<1>1. n \in Nat \ {0} /\ team[p][p].socket \in Sockets
  BY DEF Seated
<1>2. \A j \in row : j \in 0 .. CoresPerSocket - 1
  BY <1>1, TopologyAssumption
<1>3. /\ \A j \in row : ids[j] \in Nat
      /\ \A j, k \in row : ids[j] = ids[k] => j = k
  <2>1. /\ \A j \in 0 .. CoresPerSocket - 1 : ids[j] \in Nat
        /\ \A j, k \in 0 .. CoresPerSocket - 1 : ids[j] = ids[k] => j = k
    <3> DEFINE s == team[p][p].socket
    <3>1. s \in Sockets
      BY <1>1
    <3> HIDE DEF s
    <3>2. /\ \A j \in 0 .. CoresPerSocket - 1 : CoreId[s][j] \in Nat
          /\ \A j, k \in 0 .. CoresPerSocket - 1 : CoreId[s][j] = CoreId[s][k] => j = k
      <4>1. CoreId[s] \in [0 .. CoresPerSocket - 1 -> Nat]
        BY <3>1, CoreIdAssumption
      <4>2. ASSUME NEW j \in 0 .. CoresPerSocket - 1, NEW k \in 0 .. CoresPerSocket - 1,
                   CoreId[s][j] = CoreId[s][k]
            PROVE  j = k
        BY <3>1, <4>2, CoreIdAssumption
      <4> QED
        BY <4>1, <4>2
    <3> QED
      BY <3>2 DEF s
  <2> HIDE DEF ids, row
  <2> QED
    BY <1>2, <2>1
<1>4. \A t \in ThreadIds : t < n => bound[p][t] = ids[f + t]
  BY DEF PlacedAt
<1>5. ThreadIds = 0 .. NumCores - 1 /\ n <= NumCores /\ NumCores \in Nat
  BY <1>1, CoresPositive, TopologyAssumption DEF ThreadIds
<1>6. ActiveCores(p) = {bound[p][t] : t \in {u \in ThreadIds : u < n}} \ {NoCore}
  BY DEF ActiveCores
<1>7. NoCore \notin all
  BY <1>3 DEF NoCore
<1> HIDE DEF n, ids
<1>8. \A t \in ThreadIds : t < n => f + t \in row
  BY <1>1, <1>5
<1>9. \A j \in row : j - f \in ThreadIds /\ j - f < n /\ f + (j - f) = j
  BY <1>1, <1>5
<1> HIDE DEF row
<1>10. {bound[p][t] : t \in {u \in ThreadIds : u < n}} \subseteq all
  BY <1>4, <1>8
<1>11. all \subseteq {bound[p][t] : t \in {u \in ThreadIds : u < n}}
  <2> SUFFICES ASSUME NEW j \in row
               PROVE  ids[j] \in {bound[p][t] : t \in {u \in ThreadIds : u < n}}
    OBVIOUS
  <2>1. bound[p][j - f] = ids[j]
    BY <1>4, <1>9
  <2> QED
    BY <1>9, <2>1
<1>12. ActiveCores(p) = all
  BY <1>6, <1>7, <1>10, <1>11
<1>13. IsFiniteSet(row) /\ Cardinality(row) = n
  <2>1. f \in Int /\ f + n - 1 \in Int /\ ~(f > f + n - 1) /\ (f + n - 1) - f + 1 = n
    BY <1>1
  <2> DEFINE last == f + n - 1
  <2>2. row = f .. last
    BY DEF row
  <2> HIDE DEF last
  <2>3. f \in Int /\ last \in Int /\ ~(f > last) /\ last - f + 1 = n
    BY <2>1 DEF last
  <2>4. IsFiniteSet(f .. last) /\ Cardinality(f .. last) = n
    BY <2>3, FS_Interval
  <2> QED
    BY <2>2, <2>4
<1>14. [j \in row |-> ids[j]] \in Bijection(row, all)
  <2>1. [j \in row |-> ids[j]] \in [row -> all]
    OBVIOUS
  <2> HIDE DEF all
  <2>2. \A c \in all : \E j \in row : ids[j] = c
    BY DEF all
  <2> QED
    BY <1>3, <2>1, <2>2 DEF Bijection, Injection, IsInjective, Surjection
<1>15. ExistsBijection(row, all)
  BY <1>14 DEF ExistsBijection
<1>16. Cardinality(all) = n
  BY <1>13, <1>15, FS_Bijection
<1> QED
  BY <1>12, <1>16 DEF n, ids, row

\* A process that has rebalanced runs each of its threads on a core of its own,
\* unless a socket is over-committed, or was when the threads were last moved
\* (sabo.c:737-749).
THEOREM OneCoreEach == Spec => []OneCorePerThread
<1>1. BoundInv => OneCorePerThread
  <2> SUFFICES ASSUME BoundInv, NEW p \in Ranks, Fits(team[p]), HasMoved(p),
                      MustMove(p) \/ AlwaysFitted(p)
               PROVE  Cardinality(ActiveCores(p)) = team[p][p].threads
    BY DEF OneCorePerThread
  <2>1. Relocated(hist[p])
    BY DEF HasMoved, Relocated
  <2>2. Seated(team[p])
    BY <2>1 DEF BoundInv, Bound
  <2>3. PICK f \in Nat : /\ f + team[p][p].threads <= CoresPerSocket
                         /\ PlacedAt(team[p], bound[p], p, f)
    BY <2>1, OnARow
  <2> QED
    BY <2>2, <2>3, RowCores
<1> QED
  BY <1>1, InitTypeInv, TypeStep, InitBoundInv, BoundInvStep, PTL DEF Spec

\* The rows of two processes of a team do not meet.
LEMMA RowsApart ==
    ASSUME NEW members, Seated(members), Fits(members),
           NEW p \in Ranks, NEW q \in Ranks, p < q,
           NEW j \in FirstCore(members, p) .. FirstCore(members, p) + members[p].threads - 1,
           NEW k \in FirstCore(members, q) .. FirstCore(members, q) + members[q].threads - 1
    PROVE  CoreId[members[p].socket][j] # CoreId[members[q].socket][k]
<1>1. ASSUME NEW r \in Ranks
      PROVE  /\ FirstCore(members, r) \in Nat /\ members[r].threads \in Nat
             /\ FirstCore(members, r) + members[r].threads <= CoresPerSocket
             /\ members[r].socket \in Sockets
  <2>1. members[r].socket \in Sockets /\ members[r].threads \in Nat
    BY DEF Seated
  <2>2. SocketLoad(members, members[r].socket) <= CoresPerSocket
    BY <2>1 DEF Fits
  <2> QED
    BY <2>1, <2>2, FirstCoreFacts, SocketLoadInt, TopologyAssumption
<1>2. j \in 0 .. CoresPerSocket - 1 /\ k \in 0 .. CoresPerSocket - 1
  BY <1>1, TopologyAssumption
<1>3. SUFFICES ASSUME members[p].socket = members[q].socket, j = k PROVE FALSE
  BY <1>1, <1>2, CoreIdAssumption
<1>4. FirstCore(members, p) + members[p].threads <= FirstCore(members, q)
  BY <1>3, FirstCoreFacts
<1> QED
  BY <1>1, <1>3, <1>4

\* Two processes that took the same decisions run no threads on the same core,
\* unless a socket is over-committed -- or the shortcut was taken on a node
\* where it is wrong, or after an over-commitment (sabo.c:719-753).
THEOREM Disjoint == Spec => []CoresDisjoint
<1>1. TypeInv /\ BoundInv => CoresDisjoint
  <2> SUFFICES ASSUME TypeInv, BoundInv, NEW p \in Ranks, NEW q \in Ranks, p # q,
                      Fits(team[p]), Rounds(p) = Rounds(q),
                      SameDecisions(p, q, Rounds(p)),
                      \A r \in {p, q} : MustMove(r) \/ (IndexIsCore /\ AlwaysFitted(r))
               PROVE  ActiveCores(p) \cap ActiveCores(q) = {}
    BY DEF CoresDisjoint
  <2>1. team[p] = team[q]
    <3>1. /\ team[p] = View(hist[p], Rounds(p)) /\ team[q] = View(hist[q], Rounds(p))
          /\ Rounds(p) \in Nat
      BY DEF TypeInv, Inv, Replay, Shape
    <3>2. CASE Rounds(p) = 0
      BY <3>1, <3>2 DEF View
    <3>3. CASE Rounds(p) # 0
      <4>1. Rounds(p) \in 1 .. Rounds(p) /\ Rounds(p) <= Rounds(q)
        BY <3>1, <3>3
      <4>2. hist[p][Rounds(p)].team = hist[q][Rounds(p)].team
        BY <4>1 DEF TypeInv, Inv, ReplicasAgree
      <4> QED
        BY <3>1, <3>3, <4>2 DEF View
    <3> QED
      BY <3>2, <3>3
  <2>2. ASSUME NEW r \in {p, q}, ~Relocated(hist[r]) PROVE ActiveCores(r) = {}
    <3>1. \A t \in ThreadIds : bound[r][t] = NoCore
      BY <2>2 DEF BoundInv, Bound
    <3> QED
      BY <3>1 DEF ActiveCores
  <2>3. ASSUME NEW r \in {p, q}, Relocated(hist[r])
        PROVE  /\ Seated(team[p])
               /\ ActiveCores(r) = {CoreId[team[p][r].socket][j] :
                      j \in FirstCore(team[p], r)
                            .. FirstCore(team[p], r) + team[p][r].threads - 1}
    <3>1. Seated(team[r]) /\ team[r] = team[p]
      BY <2>1, <2>3 DEF BoundInv, Bound
    <3>2. PICK f \in Nat : /\ f + team[r][r].threads <= CoresPerSocket
                           /\ PlacedAt(team[r], bound[r], r, f)
                           /\ (MustMove(r) \/ IndexIsCore) => f = FirstCore(team[r], r)
      BY <2>3, <3>1, OnARow
    <3>3. f = FirstCore(team[r], r)
      BY <3>2
    <3>4. ActiveCores(r) = {CoreId[team[r][r].socket][j] :
                              j \in f .. f + team[r][r].threads - 1}
      BY <3>1, <3>2, RowCores
    <3> QED
      BY <3>1, <3>3, <3>4
  <2>4. CASE Relocated(hist[p]) /\ Relocated(hist[q])
    <3>1. SUFFICES ASSUME NEW c \in ActiveCores(p), c \in ActiveCores(q) PROVE FALSE
      OBVIOUS
    <3>2. PICK j \in FirstCore(team[p], p)
                     .. FirstCore(team[p], p) + team[p][p].threads - 1 :
                 c = CoreId[team[p][p].socket][j]
      BY <2>3, <2>4, <3>1
    <3>3. PICK k \in FirstCore(team[p], q)
                     .. FirstCore(team[p], q) + team[p][q].threads - 1 :
                 c = CoreId[team[p][q].socket][k]
      BY <2>3, <2>4, <3>1
    <3>4. Seated(team[p])
      BY <2>3, <2>4
    <3>5. p < q \/ q < p
      BY TopologyAssumption DEF Ranks
    <3>6. CASE p < q
      BY <3>2, <3>3, <3>4, <3>6, RowsApart
    <3>7. CASE q < p
      BY <3>2, <3>3, <3>4, <3>7, RowsApart
    <3> QED
      BY <3>5, <3>6, <3>7
  <2> QED
    BY <2>2, <2>4
<1> QED
  BY <1>1, InitTypeInv, TypeStep, InitBoundInv, BoundInvStep, PTL DEF Spec
=============================================================================
