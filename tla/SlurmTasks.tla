----------------------------- MODULE SlurmTasks -----------------------------
(***************************************************************************)
(* How a process started by Slurm learns how many processes share its      *)
(* node (src/tools/slurm_variables_parser.c, src/scripts/                  *)
(* saboslurmlauncher.sh, src/common/env.c): the tool reads the list of     *)
(* tasks per node and returns the entry of its node as its exit status,    *)
(* which the launch script exports for the library.                        *)
(*                                                                         *)
(* The list is a sequence of tokens: a number, or a negative value that    *)
(* stands for another character.                                           *)
(***************************************************************************)
EXTENDS Integers, Sequences

OpenParen  == -1
TimesSign  == -2
CloseParen == -3
Comma      == -4
Stray      == -5            \* any other character, the sign of a number too
EndOfText  == -6

ExitError  == 255           \* return -1 from main
ExitAbort  == 134           \* a failed assertion, as the shell sees it

\* How reading the list ends.
List(entries) == [end |-> "list", entries |-> entries]
Error         == [end |-> "error", entries |-> <<>>]
Abort         == [end |-> "abort", entries |-> <<>>]

Token(text, i) == IF i \in DOMAIN text THEN text[i] ELSE EndOfText

\* "(x" count ")", or nothing; no times at all is an error.
RepeatCount(text, i) ==
    IF Token(text, i) # OpenParen THEN [times |-> 1, next |-> i]
    ELSE IF /\ Token(text, i + 1) = TimesSign
            /\ Token(text, i + 2) > 0
            /\ Token(text, i + 3) = CloseParen
    THEN [times |-> Token(text, i + 2), next |-> i + 4]
    ELSE [times |-> 0, next |-> i]

\* A faulty version: a list that ends early leaves the last nodes empty.
FinishShort(entries, size) ==
    List(entries \o [k \in 1 .. size - Len(entries) |-> 0])

Finish(entries, size) == IF Len(entries) = size THEN List(entries) ELSE Error

\* read_slurm_tasks_ppn_parse: an item, then a comma or the end.  A comma at
\* the end of the list is accepted.
ReadTasks(text, size) ==
    LET read[r \in [at : Nat, entries : Seq(Nat)]] ==
            LET tasks   == Token(text, r.at)
                repeat  == RepeatCount(text, r.at + 1)
                longer  == r.entries \o [k \in 1 .. repeat.times |-> tasks]
                follows == Token(text, repeat.next)
            IN  IF tasks = EndOfText THEN Finish(r.entries, size)
                ELSE IF tasks <= 0 \/ repeat.times = 0 THEN Error
                ELSE IF Len(longer) > size THEN Abort
                ELSE IF follows = EndOfText THEN Finish(longer, size)
                ELSE IF follows # Comma THEN Error
                ELSE read[[at |-> repeat.next + 1, entries |-> longer]]
    IN  read[[at |-> 1, entries |-> <<>>]]

\* A faulty version: the task's place in the node is the index.
ToolStatusOfLocalId(e) ==
    LET read == ReadTasks(e.text, e.nodes)
    IN  IF read.end = "list" /\ e.local \in 0 .. e.nodes - 1
        THEN {read.entries[e.local + 1] % 256} ELSE {ExitError}

\* The exit statuses the tool may have.  A variable that is missing or is no
\* number is negative, a missing list is empty.  The tool checks the number
\* of nodes a second time where it means the node's identifier: without one,
\* it returns what precedes the array.
ToolStatus(e) ==
    LET read == ReadTasks(e.text, e.nodes)
    IN  IF e.local < 0 \/ e.nodes <= 0 THEN {ExitError}
        ELSE IF e.node >= e.nodes \/ read.end = "abort" THEN {ExitAbort}
        ELSE IF read.end = "error" THEN {ExitError}
        ELSE IF e.node < 0 THEN 0 .. 255
        ELSE {read.entries[e.node + 1] % 256}

\* What the library sees through the launch script: the size of its node
\* and its rank in it.
NodeViews(e) == {[size |-> status, rank |-> e.local] : status \in ToolStatus(e)}
=============================================================================
