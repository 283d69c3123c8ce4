---------------------------- MODULE DiskWriters -----------------------------
(***************************************************************************)
(* The parts of the library that write files and share no file: artifacts  *)
(* and capsules (ArtifactCommit), fixes (FixTransaction), the log of a     *)
(* Reporter (Reporter), and the scan command, whose records and capsule    *)
(* they make (ScanCommand).  One of them moves in a behaviour, the others  *)
(* stay as they are at first.                                              *)
(***************************************************************************)
EXTENDS ArtifactCommit, FixTransaction, Reporter, ScanCommand

VARIABLE part         \* the part that moves

(* Where the state of a part that does not move is one of many.            *)
Still ==
  /\ part # "artifacts" => policy = {} /\ parent = "missing" /\ report = CHOOSE r \in Report : TRUE
  /\ part # "fixes" => \A path \in Path : content[path] = NoFile
  /\ part # "log" => archives = {} /\ options = CHOOSE o \in LogPolicies : TRUE
  /\ part # "scan" => head = work /\ head = CHOOSE c \in Contents : TRUE

DiskInit ==
  /\ part \in {"artifacts", "fixes", "log", "scan"}
  /\ Init /\ FixInit /\ LogInit /\ ScanInit
  /\ Still

Artifacts == part = "artifacts" /\ UNCHANGED <<part, fixVars, logVars, scanVars>> /\ Next
Fixes == part = "fixes" /\ UNCHANGED <<part, vars, logVars, scanVars>> /\ FixNext
Logs == part = "log" /\ UNCHANGED <<part, vars, fixVars, scanVars>> /\ LogNext
Scanned == part = "scan" /\ UNCHANGED <<part, vars, fixVars, logVars>> /\ ScanNext

DiskNext == Artifacts \/ Fixes \/ Logs \/ Scanned

DiskSpec == DiskInit /\ [][DiskNext]_<<part, vars, fixVars, logVars, scanVars>>

=============================================================================
