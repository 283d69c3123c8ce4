----------------------------- MODULE MCSidecars ------------------------------
(* Instances of Sidecars for TLC. *)
EXTENDS Sidecars, TLC

Symmetry == Permutations(Writers) \cup Permutations(Report) \cup Permutations(Receipts)
=============================================================================
