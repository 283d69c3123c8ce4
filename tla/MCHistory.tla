----------------------------- MODULE MCHistory ------------------------------
(* Instances of History for TLC. *)
EXTENDS History

CONSTANTS h1, h2, p1, p2, r1, r2

(* A process each, or two threads of one process: the threads share the    *)
(* name of the head's staging file and die together.                       *)
OneProcess == (h1 :> p1) @@ (h2 :> p1)
TwoProcesses == (h1 :> p1) @@ (h2 :> p2)

(* Which of two reports is which makes no difference.                      *)
Reports == Permutations({r1, r2})

EveryFault == Steps \cup {"kill", "power"}
=============================================================================
