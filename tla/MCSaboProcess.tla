--------------------------- MODULE MCSaboProcess ---------------------------
(* A process on a node of two cores, in every environment that matters: both   *)
(* ways to balance, windows that are negative or empty, of one step and up to  *)
(* more steps than cores, a period of zero, one step and two, and teams up to  *)
(* one thread more than there are cores.                                       *)
EXTENDS SaboProcess

MCSettings == [implicit : BOOLEAN, periodic : BOOLEAN, window : -1 .. 3,
               stepbal : 0 .. 2, threads : 2 .. 3]
=============================================================================
