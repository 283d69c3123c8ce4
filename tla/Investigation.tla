--------------------------- MODULE Investigation ----------------------------
(***************************************************************************)
(* What diagprint answers from a recorded history: the comparison of runs, *)
(* lineage, case file, timeline and replay of a diagnostic (Replay), and   *)
(* the graph of its relationships (RelationshipGraph).  One of them is     *)
(* asked in a behaviour; neither reads what the other keeps.               *)
(***************************************************************************)
EXTENDS Replay, RelationshipGraph

VARIABLE subject   \* what is asked about

InvestigationInit ==
  /\ subject \in {"reports", "graph"}
  /\ Init /\ GraphInit
  /\ subject = "graph" => order = CHOOSE o \in SetToSeqs(Contents) : TRUE

Reporting == subject = "reports" /\ UNCHANGED <<subject, graphVars>> /\ Next
Graphing == subject = "graph" /\ UNCHANGED <<subject, vars>> /\ GraphNext

InvestigationNext == Reporting \/ Graphing

InvestigationSpec ==
  InvestigationInit /\ [][InvestigationNext]_<<subject, vars, graphVars>>
=============================================================================
