--------------------------- MODULE MCDiskWriters ----------------------------
(* Instances of DiskWriters for TLC. *)
EXTENDS DiskWriters, MCFixTransaction

Symmetry == Permutations(Report) \cup Permutations(Plan)

LogPolicy(files, size, hourly, packing, bare) ==
  [files |-> files, size |-> size, hourly |-> hourly, packing |-> packing, bare |-> bare]

(* Logs that rotate at every entry or every other, by the hour, that keep  *)
(* nothing, one or two archives, compressed or not.                        *)
SomePolicies ==
  {LogPolicy(1, 1, FALSE, "available", FALSE), LogPolicy(2, 1, FALSE, "available", FALSE),
   LogPolicy(2, 2, TRUE, "none", FALSE), LogPolicy(1, 1, FALSE, "none", TRUE),
   LogPolicy(1, 1, FALSE, "unavailable", FALSE), LogPolicy(0, 1, TRUE, "none", FALSE)}

(* Command lines with every option, and those that are refused.            *)
SomeArguments ==
  {<<"--history", "h", "--git-provenance", "--capsule", "c">>,
   <<"--static", "--history", "h", "--git-provenance", "--history-label", "l">>,
   <<"--output", "f", ".", "--deep", "--capsule", "c">>,
   <<"--history", "--capsule", "c", "--format", "plain", "--profile", "standard">>,
   <<"--git-provenance">>, <<"--help">>, <<"a", "b">>, <<"--profile", "x">>, <<"--format", "x">>,
   <<"--output">>, <<"--unknown">>}

(* The instance meets the hypotheses of the theorems about fixes, the log  *)
(* and scans.                                                              *)
ASSUME FixesApart == PlansApart /\ BackupsApart

ASSUME LogAndScan ==
  /\ Nobody \notin Threads /\ \A o \in LogPolicies : o.files \in Nat
  /\ MaxHistory \in Nat
=============================================================================
