--------------------------- MODULE MCScanCommand ----------------------------
(* Instances of ScanCommand for TLC. *)
EXTENDS ScanCommand

Captured == {<<"--static", "--history", "h", "--git-provenance">>}
=============================================================================
