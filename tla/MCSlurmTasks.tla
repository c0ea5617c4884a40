---------------------------- MODULE MCSlurmTasks ----------------------------
(***************************************************************************)
(* Gives the tool the list Slurm writes for a job, and what becomes of it  *)
(* after some changes.                                                     *)
(***************************************************************************)
EXTENDS SlurmTasks, SequencesExt

CONSTANTS TaskCounts,       \* tasks a node may have
          MaxNodes,         \* bound: nodes of a job
          MaxEdits          \* bound: tokens changed in the list

\* A node of a job runs at least one of its tasks.
ASSUME TasksAssumption == /\ TaskCounts \subseteq Nat \ {0}
                          /\ MaxNodes \in Nat \ {0} /\ MaxEdits \in Nat

VARIABLES job,              \* job[n]: tasks of node n - 1
          text,             \* SLURM_TASKS_PER_NODE
          edits

Numbers == TaskCounts \cup 0 .. MaxNodes
Tokens  == Numbers \cup {OpenParen, TimesSign, CloseParen, Comma, Stray}
Jobs    == UNION {[1 .. n -> TaskCounts] : n \in 1 .. MaxNodes}

\* A run of k nodes with c tasks each, as Slurm writes it.
Item(c, k) == IF k = 1 THEN <<c>>
              ELSE <<c, OpenParen, TimesSign, k, CloseParen>>

IsRun(tasks, k) == \A i \in 1 .. k : tasks[i] = tasks[1]

\* The list Slurm writes: the longest runs.
Written[tasks \in Seq(Nat)] ==
    IF tasks = <<>> THEN <<>>
    ELSE LET k    == CHOOSE k \in 1 .. Len(tasks) :
                         /\ IsRun(tasks, k)
                         /\ k < Len(tasks) => ~IsRun(tasks, k + 1)
             rest == Written[SubSeq(tasks, k + 1, Len(tasks))]
         IN  Item(tasks[1], k) \o (IF rest = <<>> THEN <<>>
                                   ELSE <<Comma>> \o rest)

\* Every way to write these tasks: any runs, a count of one or none.
Writings[tasks \in Seq(Nat)] ==
    UNION {LET item == Item(tasks[1], k)
               rest == SubSeq(tasks, k + 1, Len(tasks))
               runs == {item} \cup
                       (IF k = 1
                        THEN {item \o <<OpenParen, TimesSign, 1, CloseParen>>}
                        ELSE {})
           IN  IF rest = <<>> THEN runs
               ELSE UNION {{r \o <<Comma>> \o w : w \in Writings[rest]} : r \in runs}
             : k \in {k \in 1 .. Len(tasks) : IsRun(tasks, k)}}

Lists == [tasks \in UNION {[1 .. n -> Numbers \ {0}] : n \in 1 .. MaxNodes} |->
              LET w == Writings[tasks]
              IN  w \cup {t \o <<Comma>> : t \in w}]

ListsOfSize == [n \in 1 .. MaxNodes |->
                    UNION {Lists[t] : t \in {t \in DOMAIN Lists : Len(t) = n}}]

JobInit == job \in Jobs /\ text = Written[job] /\ edits = 0

Edit(t) == /\ edits < MaxEdits
           /\ text' = t /\ edits' = edits + 1 /\ UNCHANGED job

JobNext == \E i \in 1 .. Len(text) + 1 :
               \/ i <= Len(text) /\ Edit(RemoveAt(text, i))
               \/ \E c \in Tokens :
                      \/ i <= Len(text) /\ Edit(ReplaceAt(text, i, c))
                      \/ Edit(InsertAt(text, i, c))

JobSpec == JobInit /\ [][JobNext]_<<job, text, edits>>

\* Every task of the job learns how many tasks its node has, with ranks that
\* are numbered from zero below it, when Slurm's list is not changed and the
\* count fits an exit status: one process then creates the segment of its
\* node, and waits for exactly the others.
EveryTaskKnowsItsNode ==
    edits = 0 => \A n \in DOMAIN job : job[n] < 256 =>
        \A r \in 0 .. job[n] - 1 :
            NodeViews([text |-> text, nodes |-> Len(job), node |-> n - 1,
                       local |-> r]) = {[size |-> job[n], rank |-> r]}

\* The tool takes a list only as a whole: what it reads is one of the ways to
\* write exactly one entry per node (or that and a last comma), and it reads
\* every one of them as what it says.
OnlyWholeLists ==
    LET size == Len(job)
        read == ReadTasks(text, size)
    IN  IF read.end = "list"
        THEN \E tasks \in DOMAIN Lists : /\ tasks = read.entries
                                       /\ Len(tasks) = size
                                       /\ text \in Lists[tasks]
        ELSE text \notin ListsOfSize[size]
=============================================================================
