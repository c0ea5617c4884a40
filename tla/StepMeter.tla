------------------------------ MODULE StepMeter ------------------------------
(***************************************************************************)
(* What the counters of a process promise to the balancing, without the    *)
(* callbacks, the threads' times of arrival or the calls: the slots hold   *)
(* the measures of the last steps.  The measure of a step has, for every   *)
(* worker of every parallel region of the application in that step, the    *)
(* part up to its arrival and, if its release is reported, one more; and   *)
(* the master's part of the last of these regions, which has taken the     *)
(* place of those before.  Each is counted from the beginning of its own   *)
(* region, and nothing else is ever in it.  It is less than the time of    *)
(* all threads when a step has several regions, and may be more when       *)
(* releases are reported.                                                  *)
(***************************************************************************)
EXTENDS Integers

VARIABLES
    window,     \* slots in use
    n,          \* steps completed
    region,     \* regions of this step, the one under way included
    team,       \* workers in the region under way
    current,    \* what was measured of this step
    slots       \* slots[i]: the measure of the last step k with k % window = i

vars == <<window, n, region, team, current, slots>>

Part(t, r, e) == [thread |-> t, region |-> r, since |-> r, edge |-> e]

Init == /\ window \in Int /\ n = 0 /\ region = 0
        /\ team = {} /\ current = {}
        /\ slots = [i \in 0 .. window - 1 |-> {}]

Begin == /\ team = {} /\ team' # {} /\ team' \subseteq Nat
         /\ region' = region + 1
         /\ UNCHANGED <<window, n, current, slots>>

\* A worker is released at the beginning of a region, or arrives at its end;
\* both count, each at most once.
Measure(t, e) ==
    /\ t \in team \ {0} /\ e \in {"release", "arrive"}
    /\ Part(t, region, e) \notin current
    /\ current' = current \cup {Part(t, region, e)}
    /\ UNCHANGED <<window, n, region, team, slots>>

\* A region ends when every worker has arrived; the master's part of it takes
\* the place of the master's part of the region before.
End == /\ team # {}
       /\ \A t \in team \ {0} : Part(t, region, "arrive") \in current
       /\ team' = {}
       /\ current' = {c \in current : c.thread # 0} \cup {Part(0, region, "end")}
       /\ UNCHANGED <<window, n, region, slots>>

\* A step is recorded only in a window that has a slot.
EndStep == /\ team = {} /\ window > 0
           /\ slots' = [slots EXCEPT ![n % window] = current]
           /\ n' = n + 1 /\ region' = 0 /\ current' = {}
           /\ UNCHANGED <<window, team>>

Next == \/ Begin \/ End \/ EndStep
        \/ \E t \in team, e \in {"release", "arrive"} : Measure(t, e)

Spec == Init /\ [][Next]_vars
=============================================================================
