---------------------------- MODULE ArtifactCommit ----------------------------
(***************************************************************************)
(* How complete artifacts reach the disk: ArtifactWriter::write_verified   *)
(* (src/artifact_writer.rs) and DiagnosticCapsule::write_to                *)
(* (src/capsule.rs) fill a staging directory beside the destination,       *)
(* verify what they read back, and rename it to the destination.  Writers  *)
(* are processes that write to one destination, each making the file-      *)
(* system calls of its code one step at a time; others make an empty or a  *)
(* filled directory there.  A call may fail, a file may silently hold      *)
(* other bytes than were written, a process may end, power may be lost.    *)
(*                                                                         *)
(* A staging directory left behind has a name no other call ever uses, so  *)
(* the model forgets it.  After create_dir_all the parent's own name is    *)
(* not durable, for only the parent is synchronised.                       *)
(***************************************************************************)
EXTENDS Capsule, SequencesExt

CONSTANTS
  Writers,          \* processes that write to the destination
  CapsuleWriters,   \* those that write the capsule; the others, an artifact
  MaxCalls,         \* bound: calls of all writers
  MaxFaults         \* bound: failures, bad writes, deaths, losses of power

VARIABLES
  dest,         \* the destination: who made it, its files, are their names durable
  onDisk,       \* the destination as the parent's durable content has it
  parent,       \* the parent directory: "missing", "new" or "rooted"
  stage,        \* per writer: its staging directory
  pc,           \* per writer: the step its call is at, "idle" between two calls
  calls,        \* calls made
  acked,        \* history: the calls that returned Ok
  faults        \* failures, bad writes, deaths and losses of power so far

vars == <<capsuleVars, dest, onDisk, parent, stage, pc, calls, acked, faults>>

NoOne == "no one"
Outsider == "an outsider"
Free == [owner |-> NoOne, files |-> [f \in {} |-> "good"], synced |-> TRUE]
EmptyDirectory == [Free EXCEPT !.owner = Outsider]
ForeignDirectory == [EmptyDirectory EXCEPT !.files = [f \in {"foreign"} |-> "good"]]
EmptyStage(w) == [Free EXCEPT !.owner = w, !.synced = FALSE]

ASSUME CommitAssumption ==
  /\ CapsuleWriters \subseteq Writers
  /\ {NoOne, Outsider} \cap Writers = {}
  /\ MaxCalls \in Nat /\ MaxFaults \in Nat

-----------------------------------------------------------------------------
(* What a call does                                                        *)

PathOrder == <<"plan", "provenance", "remediation", "rendered", "rendered.receipt", "report",
               "sources/1", "sources/2", "sources/index">>

(* The steps of a call in the order of the code: after each, the next.     *)
ArtifactScript ==
  [check |-> "parent", parent |-> "stage", stage |-> "artifact", artifact |-> "read",
   read |-> "receipt", receipt |-> "sync", sync |-> "recheck", recheck |-> "rename",
   rename |-> "harden"]

CapsuleScript ==
  [check |-> "parent", parent |-> "stage", stage |-> "entries", entries |-> "manifest",
   manifest |-> "sync", sync |-> "read", read |-> "recheck", recheck |-> "rename",
   rename |-> "harden"]

Script(w) == IF w \in CapsuleWriters THEN CapsuleScript ELSE ArtifactScript

(* The files a call writes, and those it verifies when it reads them back: *)
(* the receipt of an artifact is written after that and never read.        *)
Files(w) == IF w \in CapsuleWriters THEN DOMAIN entries \cup {"manifest"}
            ELSE {"artifact", "receipt"}

Verified(w) == IF w \in CapsuleWriters THEN Files(w) ELSE {"artifact"}

Advance(w) == pc' = [pc EXCEPT ![w] = Script(w)[@]] /\ UNCHANGED <<calls, acked>>

(* A call ends; Drop removes its staging directory, or cannot.  Err: it    *)
(* reports nothing as written.                                             *)
Return(w) ==
  /\ pc' = [pc EXCEPT ![w] = "idle"]
  /\ stage' = [stage EXCEPT ![w] = EmptyStage(w)]
  /\ UNCHANGED calls

Err(w) == Return(w) /\ UNCHANGED acked

Fault == faults < MaxFaults /\ faults' = faults + 1

(* write, write_rendered, write_to: the arguments are valid, the bytes in  *)
(* memory agree with their receipt.                                        *)
Start(w) ==
  /\ pc[w] = "idle" /\ calls < MaxCalls
  /\ pc' = [pc EXCEPT ![w] = "check"]
  /\ calls' = calls + 1
  /\ UNCHANGED <<capsuleVars, dest, onDisk, parent, stage, acked, faults>>

(* destination.exists(), before anything is made and before the commit.    *)
CheckDestination(w) ==
  /\ pc[w] \in {"check", "recheck"}
  /\ IF dest.owner = NoOne THEN Advance(w) /\ UNCHANGED stage
     ELSE Err(w)   \* DestinationExists
  /\ UNCHANGED <<capsuleVars, dest, onDisk, parent, faults>>

(* The parent taken for granted.                                           *)
NoParent == parent

(* create_dir_all(parent)                                                  *)
MadeParent == IF parent = "missing" THEN "new" ELSE parent

MakeParent(w) ==
  /\ pc[w] = "parent" /\ Advance(w)
  /\ parent' = MadeParent
  /\ UNCHANGED <<capsuleVars, dest, onDisk, stage, faults>>

(* create_dir(staging)                                                     *)
MakeStage(w) ==
  /\ pc[w] = "stage" /\ Advance(w)
  /\ UNCHANGED <<capsuleVars, dest, onDisk, parent, stage, faults>>

(* The entries of the capsule that its stage does not hold yet.            *)
Missing(w) == DOMAIN entries \ DOMAIN stage[w].files

(* The file a call writes next: the entries in the order of their paths.   *)
NextFile(w, file) ==
  \/ pc[w] \in {"artifact", "receipt", "manifest"} /\ file = pc[w]
  \/ /\ pc[w] = "entries" /\ file \in Missing(w)
     /\ \E i \in 1..Len(PathOrder) : /\ PathOrder[i] = file
                                     /\ \A j \in 1..(i - 1) : PathOrder[j] \notin Missing(w)

(* write_synced: create_new, write_all, flush, sync_all.  What the file    *)
(* holds then may not be what was written.                                 *)
WriteFile(w) ==
  \E file \in Files(w), quality \in {"good", "bad"} :
    /\ NextFile(w, file)
    /\ IF pc[w] = "entries" /\ Missing(w) # {file} THEN UNCHANGED <<pc, calls, acked>>
       ELSE Advance(w)
    /\ quality = "bad" => Fault
    /\ quality = "good" => UNCHANGED faults
    /\ stage' = [stage EXCEPT ![w].files =
                    [f \in DOMAIN @ \cup {file} |-> IF f = file THEN quality ELSE @[f]]]
    /\ UNCHANGED <<capsuleVars, dest, onDisk, parent>>

(* The files are there.                                                    *)
Complete(w) == Verified(w) \subseteq DOMAIN stage[w].files

(* verify of the bytes read back; verify_directory of the stage: each file *)
(* has the length and the digest its receipt or manifest gives.            *)
Intact(w) == \A f \in Verified(w) : f \in DOMAIN stage[w].files /\ stage[w].files[f] = "good"

ReadBack(w) ==
  /\ pc[w] = "read"
  /\ IF Intact(w) THEN Advance(w) /\ UNCHANGED stage
     ELSE Err(w)   \* Verification, EntryLength, EntryDigest
  /\ UNCHANGED <<capsuleVars, dest, onDisk, parent, faults>>

(* sync_directory, sync_directory_tree                                     *)
SyncStage(w) ==
  /\ pc[w] = "sync" /\ Advance(w)
  /\ stage' = [stage EXCEPT ![w].synced = TRUE]
  /\ UNCHANGED <<capsuleVars, dest, onDisk, parent, faults>>

(* A rename that replaces what it finds.                                   *)
ReplacesAll == TRUE

(* A rename replaces an empty directory, and fails on any other.           *)
Replaceable == dest.owner = NoOne \/ DOMAIN dest.files = {}

Rename(w) ==
  /\ pc[w] = "rename"
  /\ IF Replaceable
     THEN Advance(w) /\ dest' = stage[w] /\ stage' = [stage EXCEPT ![w] = EmptyStage(w)]
     ELSE Err(w) /\ UNCHANGED dest   \* Io
  /\ UNCHANGED <<capsuleVars, onDisk, parent, faults>>

(* A sync that does nothing.                                               *)
NothingSynced == onDisk

(* sync_directory(parent): what every call renamed before is durable.      *)
ParentSynced == dest

SyncParent(w) ==
  /\ pc[w] = "harden"
  /\ onDisk' = ParentSynced
  /\ Return(w)
  /\ acked' = acked \cup {[writer |-> w, parent |-> parent]}
  /\ UNCHANGED <<capsuleVars, dest, parent, faults>>

(* Any call to the file system fails, and the writer's call returns the    *)
(* error; after the rename the artifact is there all the same.             *)
FailStep(w) ==
  /\ pc[w] \notin {"idle", "check", "recheck"} /\ Fault
  /\ Err(w)
  /\ UNCHANGED <<capsuleVars, dest, onDisk, parent>>

(* The process ends within a call.                                         *)
Die(w) ==
  /\ pc[w] # "idle" /\ Fault
  /\ Err(w)
  /\ UNCHANGED <<capsuleVars, dest, onDisk, parent>>

(* Another program makes a directory of that name.                         *)
Intrude ==
  /\ dest.owner = NoOne /\ parent # "missing" /\ Fault
  /\ dest' \in {EmptyDirectory, ForeignDirectory}
  /\ UNCHANGED <<capsuleVars, onDisk, parent, stage, pc, calls, acked>>

(* What a directory whose entries were not synchronised may hold then.     *)
Survivors(directory) ==
  IF directory.synced THEN {directory}
  ELSE {[directory EXCEPT !.files = [f \in kept |-> directory.files[f]], !.synced = TRUE] :
          kept \in SUBSET DOMAIN directory.files}

(* Every process ends; the destination is what it is or what the disk had, *)
(* and is gone with a parent whose name was not durable.                   *)
LosePower ==
  /\ Fault
  /\ \/ /\ dest' \in Survivors(dest) \cup Survivors(onDisk)
        /\ parent' \in {IF parent = "new" THEN "rooted" ELSE parent}
     \/ parent = "new" /\ parent' = "missing" /\ dest' = Free
  /\ onDisk' = dest'
  /\ pc' = [w \in Writers |-> "idle"]
  /\ stage' = [w \in Writers |-> EmptyStage(w)]
  /\ UNCHANGED <<capsuleVars, calls, acked>>

Init ==
  /\ CapsuleInit
  /\ dest = Free /\ onDisk = Free
  /\ parent \in {"missing", "rooted"}
  /\ stage = [w \in Writers |-> EmptyStage(w)]
  /\ pc = [w \in Writers |-> "idle"]
  /\ calls = 0
  /\ acked = {} /\ faults = 0

(* Building touches no file, so it commutes with the steps of the others:  *)
(* it comes first.                                                         *)
BuildCapsule ==
  /\ calls = 0
  /\ Build
  /\ UNCHANGED <<dest, onDisk, parent, stage, pc, calls, acked, faults>>

Step(w) ==
  \/ Start(w) \/ CheckDestination(w) \/ MakeParent(w) \/ MakeStage(w) \/ WriteFile(w)
  \/ ReadBack(w) \/ SyncStage(w) \/ Rename(w) \/ SyncParent(w)

Next ==
  \/ BuildCapsule \/ Intrude \/ LosePower
  \/ \E w \in Writers : Step(w) \/ FailStep(w) \/ Die(w)

Spec == Init /\ [][Next]_vars

-----------------------------------------------------------------------------
(* Properties                                                              *)

(* The state is typed; a staging directory lies in a parent that exists.   *)
TypeOK ==
  /\ dest.owner \in Writers \cup {NoOne, Outsider}
  /\ onDisk.owner \in Writers \cup {NoOne, Outsider}
  /\ parent \in {"missing", "new", "rooted"}
  /\ \A w \in Writers :
       /\ stage[w].owner = w /\ pc[w] \in {"idle", "harden"} \cup DOMAIN Script(w)
       /\ DOMAIN stage[w].files # {} => parent # "missing"
  /\ acked \subseteq [writer : Writers, parent : {"new", "rooted"}]
  /\ calls \in 0..MaxCalls /\ faults \in 0..MaxFaults

(* The directory, as the store sees it: all of the files, or not a thing   *)
(* the store knows.  An empty directory does not count: a rename takes it. *)
Seen(directory) ==
  IF directory.owner \in Writers
  THEN IF DOMAIN directory.files = Files(directory.owner) THEN directory.owner ELSE "partial"
  ELSE IF DOMAIN directory.files = {} THEN NoOne ELSE Outsider

Store == INSTANCE ArtifactStore WITH
  Thing <- Writers \cup {Outsider}, Nothing <- NoOne,
  visible <- Seen(dest),
  durable <- IF parent = "rooted" THEN Seen(onDisk) ELSE NoOne

(* What is at the destination is there whole, was put there by one step    *)
(* and is never replaced, whatever fails and whoever dies or races         *)
(* (docs/artifact-writer.md, "Create-only semantics", "Concurrent          *)
(* writers"): the destination implements the store.                        *)
RefinesStore == Store!Spec

(* A call that returned Ok in a parent directory that was there before     *)
(* keeps its word: the artifact is at the destination, whole, now and      *)
(* after any loss of power.                                                *)
OkIsKept ==
  \A a \in acked : a.parent = "rooted" => Seen(dest) = a.writer /\ Seen(onDisk) = a.writer

(* Nothing reaches the destination with a payload that does not verify:    *)
(* an artifact's bytes, every entry of a capsule and its manifest.  (The   *)
(* receipt beside an artifact is not read back, and not promised.)         *)
CommittedVerifies ==
  dest.owner \in Writers =>
    \A f \in Verified(dest.owner) \cap DOMAIN dest.files : dest.files[f] = "good"
=============================================================================
