---------------------------- MODULE ArtifactProofs ----------------------------
(***************************************************************************)
(* Theorems about ArtifactCommit, for every set of writers and capsules    *)
(* and any number of calls, failures, bad writes, deaths and losses of     *)
(* power: the destination implements the store, what a call answered is    *)
(* kept, what reaches the destination verifies, and a capsule is coherent  *)
(* for any reports, plans and texts, whatever is added to it.              *)
(***************************************************************************)
EXTENDS ArtifactCommit, SequenceTheorems, TLAPS

-----------------------------------------------------------------------------
(* The inductive invariant                                                 *)

Owners == Writers \cup {NoOne, Outsider}

IsDirectory(directory) ==
  /\ DOMAIN directory = {"owner", "files", "synced"}
  /\ directory.owner \in Owners

(* The state has its types; a call is at a step of its script.             *)
ShapeInv ==
  /\ IsDirectory(dest) /\ IsDirectory(onDisk)
  /\ parent \in {"missing", "new", "rooted"}
  /\ DOMAIN stage = Writers /\ DOMAIN pc = Writers
  /\ calls \in 0..MaxCalls /\ faults \in 0..MaxFaults
  /\ \A w \in Writers :
       /\ IsDirectory(stage[w]) /\ stage[w].owner = w
       /\ pc[w] \in {"idle", "harden"} \cup DOMAIN Script(w)

(* The capsule is built before the calls that write it.                    *)
BuiltInv ==
  calls = 0 =>
    /\ dest.owner \notin Writers /\ onDisk.owner \notin Writers
    /\ \A w \in Writers : pc[w] = "idle"

(* Nothing is in a parent directory that is not there.                     *)
ParentInv ==
  parent = "missing" =>
    /\ dest = Free /\ onDisk = Free
    /\ \A w \in Writers : pc[w] \in {"idle", "check", "parent"}

(* A directory a rename may have put there: whole, verified and durable    *)
(* once its name is.                                                       *)
Committed(directory) ==
  /\ directory.synced
  /\ directory.owner = NoOne => DOMAIN directory.files = {}
  /\ directory.owner \in Writers =>
       /\ DOMAIN directory.files = Files(directory.owner)
       /\ \A f \in Verified(directory.owner) : directory.files[f] = "good"

(* The disk has what is at the destination, or nothing; a writer that has  *)
(* renamed its stage finds it there.                                       *)
DestInv ==
  /\ Committed(dest) /\ Committed(onDisk)
  /\ Seen(onDisk) = NoOne \/ onDisk = dest
  /\ \A w \in Writers : pc[w] = "harden" => dest.owner = w

(* How far the staging directory is at each step of the call.              *)
Staged(w) ==
  LET have == DOMAIN stage[w].files
  IN  /\ pc[w] \in {"idle", "check", "parent", "stage", "artifact", "harden"} => have = {}
      /\ pc[w] = "entries" => have \subseteq DOMAIN entries
      /\ pc[w] = "manifest" => have = DOMAIN entries
      /\ pc[w] \in {"read", "receipt"} /\ w \notin CapsuleWriters => have = {"artifact"}
      /\ pc[w] = "read" /\ w \in CapsuleWriters => have = Files(w)
      /\ pc[w] \in {"sync", "recheck", "rename"} => have = Files(w)
      /\ pc[w] \in {"receipt", "recheck", "rename"} \/ (pc[w] = "sync" /\ w \notin CapsuleWriters)
           => Intact(w)
      /\ pc[w] \in {"recheck", "rename"} \/ (pc[w] = "read" /\ w \in CapsuleWriters)
           => stage[w].synced

StageInv == \A w \in Writers : Staged(w)

(* What was answered in a parent that lasts is there and on the disk.      *)
AckedInv ==
  /\ acked \subseteq [writer : Writers, parent : {"new", "rooted"}]
  /\ \A a \in acked : a.parent = "rooted" =>
       /\ parent = "rooted"
       /\ Seen(dest) = a.writer /\ Seen(onDisk) = a.writer

IInv == ShapeInv /\ BuiltInv /\ ParentInv /\ DestInv /\ StageInv /\ AckedInv
-----------------------------------------------------------------------------
(* Steps of one writer                                                     *)

LEMMA FilesFacts ==
  ASSUME NEW w \in Writers
  PROVE  /\ Verified(w) \subseteq Files(w) /\ Files(w) # {}
         /\ w \in CapsuleWriters => Files(w) = DOMAIN entries \cup {"manifest"}
         /\ w \in CapsuleWriters => Verified(w) = Files(w)
         /\ w \notin CapsuleWriters => Files(w) = {"artifact", "receipt"}
         /\ w \notin CapsuleWriters => Verified(w) = {"artifact"}
  BY DEF Verified, Files

LEMMA EmptyFacts ==
  ASSUME NEW w \in Writers
  PROVE  /\ IsDirectory(EmptyStage(w)) /\ EmptyStage(w).owner = w
         /\ DOMAIN EmptyStage(w).files = {}
         /\ IsDirectory(Free) /\ Free.owner = NoOne /\ Free.synced /\ DOMAIN Free.files = {}
<1> DEFINE none == [f \in {} |-> "good"]
<1>1. DOMAIN none = {}
  OBVIOUS
<1> HIDE DEF none
<1>2. Free = [owner |-> NoOne, files |-> none, synced |-> TRUE]
  BY DEF Free, none
<1>3. /\ DOMAIN EmptyStage(w) = {"owner", "files", "synced"}
      /\ EmptyStage(w).owner = w /\ EmptyStage(w).files = none
  BY <1>2 DEF EmptyStage
<1>4. DOMAIN Free = {"owner", "files", "synced"}
  BY <1>2
<1> QED
  BY <1>1, <1>2, <1>3, <1>4 DEF IsDirectory, Owners

(* A step of a call that touches its own stage only.                       *)
Local(w) ==
  /\ UNCHANGED <<capsuleVars, dest, onDisk, parent, acked>>
  /\ DOMAIN pc' = Writers /\ DOMAIN stage' = Writers
  /\ \A v \in Writers \ {w} : pc'[v] = pc[v] /\ stage'[v] = stage[v]
  /\ calls' \in 1..MaxCalls /\ faults' \in 0..MaxFaults

LEMMA LocalStep ==
  ASSUME IInv, NEW w \in Writers, Local(w),
         pc'[w] \in {"idle", "harden"} \cup DOMAIN Script(w),
         IsDirectory(stage'[w]), stage'[w].owner = w, Staged(w)',
         pc'[w] = "harden" => dest.owner = w,
         parent = "missing" => pc'[w] \in {"idle", "check", "parent"}
  PROVE  IInv'
<1> USE DEF IInv, Local
<1>1. ShapeInv'
  <2>1. /\ IsDirectory(dest)' /\ IsDirectory(onDisk)'
        /\ parent' \in {"missing", "new", "rooted"}
        /\ calls' \in 0..MaxCalls
    BY DEF ShapeInv, IsDirectory
  <2>2. ASSUME NEW v \in Writers
        PROVE  /\ IsDirectory(stage'[v]) /\ stage'[v].owner = v
               /\ pc'[v] \in {"idle", "harden"} \cup DOMAIN Script(v)
    BY DEF ShapeInv
  <2> QED
    BY <2>1, <2>2 DEF ShapeInv, IsDirectory, Script
<1>2. BuiltInv'
  BY DEF BuiltInv
<1>3. ParentInv'
  BY DEF ParentInv, Free
<1>4. DestInv'
  BY DEF DestInv, Committed, Seen, Files, Verified, capsuleVars
<1>5. StageInv'
  <2>1. ASSUME NEW v \in Writers \ {w}
        PROVE  Staged(v)'
    <3> HIDE DEF IInv, Local
    <3>1. pc'[v] = pc[v] /\ stage'[v] = stage[v] /\ entries' = entries
      BY DEF Local, capsuleVars
    <3>2. Files(v)' = Files(v) /\ Verified(v)' = Verified(v)
      BY <3>1 DEF Files, Verified
    <3>3. Intact(v)' <=> Intact(v)
      BY <3>1, <3>2 DEF Intact
    <3>4. Staged(v)
      BY DEF IInv, StageInv
    <3> QED
      BY <3>1, <3>2, <3>3, <3>4 DEF Staged
  <2> QED
    BY <2>1 DEF StageInv
<1>6. AckedInv'
  BY DEF AckedInv, Seen, Files, capsuleVars
<1> QED
  BY <1>1, <1>2, <1>3, <1>4, <1>5, <1>6

(* A call is made: there is at least one.                                  *)
LEMMA Underway ==
  ASSUME IInv, NEW w \in Writers, pc[w] # "idle"
  PROVE  calls \in 1..MaxCalls
<1>1. calls # 0 /\ calls \in 0..MaxCalls
  BY DEF IInv, BuiltInv, ShapeInv
<1> QED
  BY <1>1, CommitAssumption

LEMMA FaultFacts ==
  ASSUME IInv, Fault \/ UNCHANGED faults
  PROVE  faults' \in 0..MaxFaults
  BY CommitAssumption DEF IInv, ShapeInv, Fault

(* The next step of a script, and the steps after which no script goes on. *)
LEMMA ScriptFacts ==
  ASSUME NEW w \in Writers
  PROVE  /\ \A step \in DOMAIN Script(w) :
              Script(w)[step] \in {"harden"} \cup (DOMAIN Script(w) \ {"check"})
         /\ Script(w)["check"] = "parent" /\ Script(w)["parent"] = "stage"
         /\ Script(w)["recheck"] = "rename" /\ Script(w)["rename"] = "harden"
         /\ {"check", "parent", "recheck", "rename"} \subseteq DOMAIN Script(w)
         /\ w \in CapsuleWriters =>
              /\ DOMAIN Script(w) = {"check", "parent", "stage", "entries", "manifest", "sync",
                                     "read", "recheck", "rename"}
              /\ Script(w)["stage"] = "entries" /\ Script(w)["entries"] = "manifest"
              /\ Script(w)["manifest"] = "sync" /\ Script(w)["sync"] = "read"
              /\ Script(w)["read"] = "recheck"
         /\ w \notin CapsuleWriters =>
              /\ DOMAIN Script(w) = {"check", "parent", "stage", "artifact", "read", "receipt",
                                     "sync", "recheck", "rename"}
              /\ Script(w)["stage"] = "artifact" /\ Script(w)["artifact"] = "read"
              /\ Script(w)["read"] = "receipt" /\ Script(w)["receipt"] = "sync"
              /\ Script(w)["sync"] = "recheck"
  BY DEF Script, ArtifactScript, CapsuleScript

(* A call ends: its stage is gone.                                         *)
LEMMA ErrStep ==
  ASSUME IInv, NEW w \in Writers, pc[w] # "idle", Err(w), Fault \/ UNCHANGED faults,
         UNCHANGED <<capsuleVars, dest, onDisk, parent>>
  PROVE  IInv'
<1>1. Local(w)
  BY Underway, FaultFacts DEF Local, Err, Return, IInv, ShapeInv
<1>2. pc'[w] = "idle" /\ stage'[w] = EmptyStage(w)
  BY DEF Err, Return, IInv, ShapeInv
<1>3. Staged(w)'
  BY <1>2, EmptyFacts DEF Staged
<1> QED
  BY <1>1, <1>2, <1>3, EmptyFacts, LocalStep

LEMMA StartStep ==
  ASSUME IInv, NEW w \in Writers, Start(w)
  PROVE  IInv'
<1>1. calls' \in 1..MaxCalls
  BY CommitAssumption DEF Start, IInv, ShapeInv
<1>2. Local(w)
  BY <1>1, FaultFacts DEF Local, Start, IInv, ShapeInv
<1>3. pc'[w] = "check" /\ stage'[w] = stage[w] /\ pc[w] = "idle"
  BY DEF Start, IInv, ShapeInv
<1>4. Staged(w)'
  BY <1>3 DEF Staged, IInv, StageInv
<1> QED
  BY <1>2, <1>3, <1>4, ScriptFacts, LocalStep DEF IInv, ShapeInv

(* A step that goes on in the script and leaves the stage as it is.        *)
LEMMA AdvanceStep ==
  ASSUME IInv, NEW w \in Writers, pc[w] \in DOMAIN Script(w), pc[w] # "rename", Advance(w),
         UNCHANGED <<capsuleVars, dest, onDisk, parent, stage, faults>>,
         parent = "missing" => pc[w] = "check", Staged(w)'
  PROVE  IInv'
<1>1. Local(w)
  BY Underway, FaultFacts DEF Local, Advance, IInv, ShapeInv, Script, ArtifactScript, CapsuleScript
<1>2. pc'[w] = Script(w)[pc[w]] /\ stage'[w] = stage[w]
  BY DEF Advance, IInv, ShapeInv
<1>3. pc'[w] \in {"idle", "harden"} \cup DOMAIN Script(w)
  BY <1>2, ScriptFacts
<1>4. pc'[w] # "harden"
  BY <1>2 DEF Script, ArtifactScript, CapsuleScript
<1>5. parent = "missing" => pc'[w] = "parent"
  BY <1>2, ScriptFacts
<1> QED
  BY <1>1, <1>2, <1>3, <1>4, <1>5, LocalStep DEF IInv, ShapeInv

LEMMA CheckStep ==
  ASSUME IInv, NEW w \in Writers, CheckDestination(w)
  PROVE  IInv'
<1>1. pc[w] \in {"check", "recheck"} /\ pc[w] \in DOMAIN Script(w)
  BY ScriptFacts DEF CheckDestination
<1>2. CASE dest.owner = NoOne
  <2>1. /\ Advance(w) /\ UNCHANGED <<capsuleVars, dest, onDisk, parent, stage, faults>>
        /\ pc'[w] = IF pc[w] = "check" THEN "parent" ELSE "rename"
    BY <1>1, <1>2, ScriptFacts DEF CheckDestination, Advance, IInv, ShapeInv
  <2>2. Staged(w)'
    BY <1>1, <2>1 DEF Staged, Intact, Files, Verified, capsuleVars, IInv, StageInv
  <2>3. parent = "missing" => pc[w] = "check"
    BY <1>1 DEF IInv, ParentInv
  <2> QED
    BY <1>1, <2>1, <2>2, <2>3, AdvanceStep
<1>3. CASE dest.owner # NoOne
  BY <1>1, <1>3, ErrStep DEF CheckDestination
<1> QED
  BY <1>2, <1>3

LEMMA MakeParentStep ==
  ASSUME IInv, NEW w \in Writers, MakeParent(w)
  PROVE  IInv'
<1>1. /\ pc[w] = "parent" /\ pc'[w] = "stage" /\ stage' = stage
      /\ \A v \in Writers \ {w} : pc'[v] = pc[v]
      /\ DOMAIN pc' = Writers /\ UNCHANGED <<capsuleVars, dest, onDisk, calls, acked, faults>>
      /\ parent' = MadeParent
  BY ScriptFacts DEF MakeParent, Advance, IInv, ShapeInv
<1>2. calls # 0
  BY <1>1, Underway
<1>3. parent' \in {"new", "rooted"} /\ (parent = "rooted" => parent' = "rooted")
  BY <1>1 DEF MadeParent, IInv, ShapeInv
<1>4. ShapeInv'
  <2>1. "stage" \in DOMAIN Script(w)
    BY DEF Script, ArtifactScript, CapsuleScript
  <2> QED
    BY <1>1, <1>3, <2>1 DEF IInv, ShapeInv, IsDirectory, Script
<1>5. BuiltInv' /\ ParentInv'
  BY <1>1, <1>2, <1>3 DEF BuiltInv, ParentInv
<1>6. DestInv' /\ AckedInv'
  BY <1>1, <1>3 DEF IInv, DestInv, AckedInv, Committed, Seen, Files, Verified, capsuleVars
<1>7. StageInv'
  BY <1>1 DEF IInv, StageInv, Staged, Intact, Files, Verified, capsuleVars
<1> QED
  BY <1>4, <1>5, <1>6, <1>7 DEF IInv

LEMMA MakeStageStep ==
  ASSUME IInv, NEW w \in Writers, MakeStage(w)
  PROVE  IInv'
<1>1. pc[w] = "stage" /\ "stage" \in DOMAIN Script(w)
  BY DEF MakeStage, Script, ArtifactScript, CapsuleScript
<1>2. /\ Advance(w) /\ UNCHANGED <<capsuleVars, dest, onDisk, parent, stage, faults>>
      /\ pc'[w] \in {"entries", "artifact"} /\ parent # "missing"
  BY <1>1, ScriptFacts DEF MakeStage, Advance, IInv, ShapeInv, ParentInv
<1>3. Staged(w)'
  BY <1>1, <1>2 DEF Staged, IInv, StageInv
<1> QED
  BY <1>1, <1>2, <1>3, AdvanceStep

LEMMA ReadBackStep ==
  ASSUME IInv, NEW w \in Writers, ReadBack(w)
  PROVE  IInv'
<1>1. pc[w] = "read" /\ "read" \in DOMAIN Script(w)
  BY DEF ReadBack, Script, ArtifactScript, CapsuleScript
<1>2. CASE Intact(w)
  <2>1. /\ Advance(w) /\ UNCHANGED <<capsuleVars, dest, onDisk, parent, stage, faults>>
        /\ pc'[w] = IF w \in CapsuleWriters THEN "recheck" ELSE "receipt"
        /\ parent # "missing"
    BY <1>1, <1>2, ScriptFacts DEF ReadBack, Advance, IInv, ShapeInv, ParentInv
  <2>2. Intact(w)'
    BY <1>2, <2>1 DEF Intact, Verified, Files, capsuleVars
  <2>3. Staged(w)'
    BY <1>1, <2>1, <2>2 DEF Staged, Files, capsuleVars, IInv, StageInv
  <2> QED
    BY <1>1, <2>1, <2>3, AdvanceStep
<1>3. CASE ~Intact(w)
  BY <1>1, <1>3, ErrStep DEF ReadBack
<1> QED
  BY <1>2, <1>3

(* A file more in the stage of a writer.                                   *)
WithFile(w, file, quality) ==
  stage' = [stage EXCEPT ![w].files =
              [f \in DOMAIN @ \cup {file} |-> IF f = file THEN quality ELSE @[f]]]

LEMMA StageGrows ==
  ASSUME IInv, NEW w \in Writers, NEW file, NEW quality,
         WithFile(w, file, quality)
  PROVE  /\ DOMAIN stage' = Writers /\ \A v \in Writers \ {w} : stage'[v] = stage[v]
         /\ IsDirectory(stage'[w]) /\ stage'[w].owner = w
         /\ stage'[w].synced = stage[w].synced
         /\ DOMAIN stage'[w].files = DOMAIN stage[w].files \cup {file}
         /\ \A f \in DOMAIN stage[w].files \ {file} : stage'[w].files[f] = stage[w].files[f]
<1>1. DOMAIN stage = Writers /\ IsDirectory(stage[w]) /\ stage[w].owner = w
  BY DEF IInv, ShapeInv
<1> DEFINE files == [f \in DOMAIN stage[w].files \cup {file} |->
                      IF f = file THEN quality ELSE stage[w].files[f]]
<1>2. stage' = [stage EXCEPT ![w].files = files]
  BY DEF WithFile
<1>3. /\ DOMAIN files = DOMAIN stage[w].files \cup {file}
      /\ \A f \in DOMAIN stage[w].files \ {file} : files[f] = stage[w].files[f]
  OBVIOUS
<1> HIDE DEF files
<1>4. stage'[w] = [stage[w] EXCEPT !.files = files]
  BY <1>1, <1>2
<1> QED
  BY <1>1, <1>2, <1>3, <1>4 DEF IsDirectory

LEMMA WriteFileStep ==
  ASSUME IInv, NEW w \in Writers, WriteFile(w)
  PROVE  IInv'
<1>1. PICK file \in Files(w), quality \in {"good", "bad"} :
        /\ NextFile(w, file)
        /\ IF pc[w] = "entries" /\ Missing(w) # {file} THEN UNCHANGED <<pc, calls, acked>>
           ELSE Advance(w)
        /\ quality = "bad" => Fault
        /\ quality = "good" => UNCHANGED faults
        /\ WithFile(w, file, quality)
        /\ UNCHANGED <<capsuleVars, dest, onDisk, parent>>
  BY DEF WriteFile, WithFile
<1>2. /\ DOMAIN stage' = Writers /\ \A v \in Writers \ {w} : stage'[v] = stage[v]
      /\ IsDirectory(stage'[w]) /\ stage'[w].owner = w
      /\ DOMAIN stage'[w].files = DOMAIN stage[w].files \cup {file}
      /\ \A f \in DOMAIN stage[w].files \ {file} : stage'[w].files[f] = stage[w].files[f]
  BY <1>1, StageGrows
<1>3. pc[w] \in {"artifact", "receipt", "manifest", "entries"} /\ Staged(w)
  BY <1>1 DEF NextFile, IInv, StageInv
<1>4. faults' \in 0..MaxFaults
  BY <1>1, FaultFacts
<1>5. pc[w] \in DOMAIN Script(w) /\ parent # "missing"
  BY <1>3 DEF IInv, ShapeInv, ParentInv
<1>6. CASE pc[w] = "entries" /\ Missing(w) # {file}
  <2>1. UNCHANGED <<pc, calls, acked>> /\ file \in DOMAIN entries
    BY <1>1, <1>6 DEF NextFile, Missing
  <2>2. Staged(w)'
    BY <1>1, <1>2, <1>3, <1>6, <2>1 DEF Staged, capsuleVars
  <2>3. Local(w)
    BY <1>1, <1>2, <1>3, <1>4, <2>1, Underway DEF Local, IInv, ShapeInv
  <2> QED
    BY <1>2, <1>3, <1>5, <2>1, <2>2, <2>3, LocalStep
<1>7. CASE ~(pc[w] = "entries" /\ Missing(w) # {file})
  <2>1. /\ DOMAIN pc' = Writers /\ \A v \in Writers \ {w} : pc'[v] = pc[v]
        /\ pc'[w] = Script(w)[pc[w]] /\ UNCHANGED <<calls, acked>>
    BY <1>1, <1>7 DEF Advance, IInv, ShapeInv
  <2>2. Local(w)
    BY <1>1, <1>2, <1>3, <1>4, <2>1, Underway DEF Local
  <2>3. Files(w)' = Files(w) /\ Verified(w)' = Verified(w) /\ entries' = entries
    BY <1>1 DEF Files, Verified, capsuleVars
  <2>4. CASE w \in CapsuleWriters
    <3>1. pc[w] = "entries" \/ pc[w] = "manifest"
      BY <1>3, <1>5, <2>4, ScriptFacts
    <3>2. CASE pc[w] = "entries"
      <4>1. Missing(w) = {file} /\ pc'[w] = "manifest"
        BY <1>7, <2>1, <2>4, <3>2, ScriptFacts
      <4>2. DOMAIN stage'[w].files = DOMAIN entries
        BY <1>2, <1>3, <3>2, <4>1 DEF Missing, Staged
      <4>3. Staged(w)'
        BY <2>3, <4>1, <4>2 DEF Staged
      <4> QED
        BY <1>2, <1>5, <2>2, <2>4, <4>1, <4>3, ScriptFacts, LocalStep
    <3>3. CASE pc[w] = "manifest"
      <4>1. file = "manifest" /\ pc'[w] = "sync"
        BY <1>1, <2>1, <2>4, <3>3, ScriptFacts DEF NextFile
      <4>2. DOMAIN stage'[w].files = Files(w)
        BY <1>2, <1>3, <2>4, <3>3, <4>1, FilesFacts DEF Staged
      <4>3. Staged(w)'
        BY <2>3, <2>4, <4>1, <4>2 DEF Staged
      <4> QED
        BY <1>2, <1>5, <2>2, <2>4, <4>1, <4>3, ScriptFacts, LocalStep
    <3> QED
      BY <3>1, <3>2, <3>3
  <2>5. CASE w \notin CapsuleWriters
    <3>1. pc[w] = "artifact" \/ pc[w] = "receipt"
      BY <1>3, <1>5, <2>5, ScriptFacts
    <3>2. CASE pc[w] = "artifact"
      <4>1. file = "artifact" /\ pc'[w] = "read"
        BY <1>1, <2>1, <2>5, <3>2, ScriptFacts DEF NextFile
      <4>2. DOMAIN stage'[w].files = {"artifact"}
        BY <1>2, <1>3, <3>2, <4>1 DEF Staged
      <4>3. Staged(w)'
        BY <2>5, <4>1, <4>2 DEF Staged
      <4> QED
        BY <1>2, <1>5, <2>2, <2>5, <4>1, <4>3, ScriptFacts, LocalStep
    <3>3. CASE pc[w] = "receipt"
      <4>1. file = "receipt" /\ pc'[w] = "sync"
        BY <1>1, <2>1, <2>5, <3>3, ScriptFacts DEF NextFile
      <4>2. DOMAIN stage'[w].files = Files(w)
        BY <1>2, <1>3, <2>5, <3>3, <4>1, FilesFacts DEF Staged
      <4>3. Intact(w) /\ DOMAIN stage[w].files = {"artifact"}
        BY <1>3, <2>5, <3>3 DEF Staged
      <4>4. Intact(w)'
        BY <1>2, <2>3, <2>5, <4>1, <4>3, FilesFacts DEF Intact
      <4>5. Staged(w)'
        BY <2>3, <2>5, <4>1, <4>2, <4>4 DEF Staged
      <4> QED
        BY <1>2, <1>5, <2>2, <2>5, <4>1, <4>5, ScriptFacts, LocalStep
    <3> QED
      BY <3>1, <3>2, <3>3
  <2> QED
    BY <2>4, <2>5
<1> QED
  BY <1>6, <1>7

LEMMA SyncStageStep ==
  ASSUME IInv, NEW w \in Writers, SyncStage(w)
  PROVE  IInv'
<1>1. pc[w] = "sync" /\ Staged(w) /\ pc[w] \in DOMAIN Script(w) /\ parent # "missing"
  BY DEF SyncStage, IInv, StageInv, ShapeInv, ParentInv
<1>2. /\ DOMAIN pc' = Writers /\ \A v \in Writers \ {w} : pc'[v] = pc[v]
      /\ pc'[w] = IF w \in CapsuleWriters THEN "read" ELSE "recheck"
      /\ DOMAIN stage' = Writers /\ \A v \in Writers \ {w} : stage'[v] = stage[v]
      /\ stage'[w] = [stage[w] EXCEPT !.synced = TRUE]
      /\ UNCHANGED <<capsuleVars, dest, onDisk, parent, faults, calls, acked>>
  BY ScriptFacts DEF SyncStage, Advance, IInv, ShapeInv
<1>3. IsDirectory(stage[w]) /\ stage[w].owner = w
  BY DEF IInv, ShapeInv
<1>4. /\ IsDirectory(stage'[w]) /\ stage'[w].owner = w /\ stage'[w].synced
      /\ stage'[w].files = stage[w].files
  BY <1>2, <1>3 DEF IsDirectory
<1>5. Local(w)
  BY <1>1, <1>2, Underway, FaultFacts DEF Local
<1>6. Staged(w)'
  <2>1. Files(w)' = Files(w) /\ (Intact(w) => Intact(w)')
    BY <1>2, <1>4 DEF Files, Intact, Verified, capsuleVars
  <2> QED
    BY <1>1, <1>2, <1>4, <2>1 DEF Staged
<1>7. pc'[w] \in DOMAIN Script(w) /\ pc'[w] \notin {"harden", "idle"}
  BY <1>2, ScriptFacts
<1> QED
  BY <1>1, <1>4, <1>5, <1>6, <1>7, LocalStep

(* The commit: a complete, verified stage becomes the destination.         *)
LEMMA RenameStep ==
  ASSUME IInv, NEW w \in Writers, Rename(w)
  PROVE  /\ IInv'
         /\ Replaceable => /\ Seen(dest) = NoOne /\ Seen(dest)' = w
                           /\ UNCHANGED <<onDisk, parent>>
         /\ ~Replaceable => UNCHANGED <<dest, onDisk, parent>>
<1>1. pc[w] = "rename" /\ Staged(w) /\ parent # "missing" /\ calls \in 1..MaxCalls
  BY Underway DEF Rename, IInv, StageInv, ParentInv
<1>2. CASE ~Replaceable
  BY <1>1, <1>2, ErrStep DEF Rename
<1>3. CASE Replaceable
  <2>1. /\ dest' = stage[w] /\ stage' = [stage EXCEPT ![w] = EmptyStage(w)]
        /\ UNCHANGED <<capsuleVars, onDisk, parent, faults, calls, acked>>
        /\ DOMAIN pc' = Writers /\ pc'[w] = "harden"
        /\ \A v \in Writers \ {w} : pc'[v] = pc[v]
    BY <1>1, <1>3, ScriptFacts DEF Rename, Advance, IInv, ShapeInv
  <2>2. /\ IsDirectory(stage[w]) /\ stage[w].owner = w /\ stage[w].synced
        /\ DOMAIN stage[w].files = Files(w) /\ Intact(w)
    BY <1>1 DEF Staged, IInv, ShapeInv
  <2>3. /\ Files(w)' = Files(w) /\ Verified(w)' = Verified(w)
        /\ \A v : Files(v)' = Files(v) /\ Verified(v)' = Verified(v)
    BY <2>1 DEF Files, Verified, capsuleVars
  <2>4. dest.owner \notin Writers /\ Seen(dest) = NoOne /\ DOMAIN dest.files = {}
    BY <1>3, FilesFacts DEF Replaceable, Seen, IInv, ShapeInv, DestInv, Committed
  <2>5. Seen(dest)' = w /\ Committed(dest)'
    <3>1. w # NoOne /\ w \in Writers
      BY CommitAssumption
    <3> QED
      BY <2>1, <2>2, <2>3, <3>1 DEF Seen, Committed, Intact
  <2>6. Seen(onDisk) = NoOne /\ Seen(onDisk)' = Seen(onDisk)
    BY <2>1, <2>3, <2>4 DEF IInv, DestInv, Seen
  <2>7. ASSUME NEW v \in Writers, pc[v] = "harden"
        PROVE  FALSE
    BY <2>4, <2>7 DEF IInv, DestInv
  <2>8. ShapeInv'
    <3>1. DOMAIN stage' = Writers /\ stage'[w] = EmptyStage(w)
          /\ \A v \in Writers \ {w} : stage'[v] = stage[v]
      BY <2>1 DEF IInv, ShapeInv
    <3>2. IsDirectory(dest)' /\ IsDirectory(onDisk)'
      BY <2>1, <2>2 DEF IsDirectory, IInv, ShapeInv
    <3>3. ASSUME NEW v \in Writers
          PROVE  IsDirectory(stage'[v]) /\ stage'[v].owner = v
                 /\ pc'[v] \in {"idle", "harden"} \cup DOMAIN Script(v)
      BY <2>1, <3>1, EmptyFacts DEF IInv, ShapeInv
    <3> QED
      BY <2>1, <3>1, <3>2, <3>3 DEF IInv, ShapeInv, IsDirectory, Script
  <2>9. BuiltInv' /\ ParentInv'
    BY <1>1, <2>1 DEF BuiltInv, ParentInv
  <2>10. DestInv'
    <3>1. Committed(onDisk)'
      BY <2>1, <2>3 DEF IInv, DestInv, Committed
    <3>2. \A v \in Writers : pc'[v] = "harden" => dest'.owner = v
      BY <2>1, <2>2, <2>7
    <3> QED
      BY <2>5, <2>6, <3>1, <3>2 DEF DestInv
  <2>11. StageInv'
    <3>1. \A v \in Writers \ {w} : Staged(v)'
      BY <2>1, <2>3 DEF Staged, Intact, capsuleVars, IInv, StageInv, ShapeInv
    <3>2. DOMAIN stage'[w].files = {}
      BY <2>1, EmptyFacts DEF IInv, ShapeInv
    <3>3. Staged(w)'
      BY <2>1, <3>2 DEF Staged
    <3> QED
      BY <3>1, <3>3 DEF StageInv
  <2>12. AckedInv'
    <3>1. \A a \in acked : a.writer \in Writers /\ a.parent # "rooted"
      BY <2>4, CommitAssumption DEF IInv, AckedInv
    <3> QED
      BY <2>1, <3>1 DEF AckedInv, IInv
  <2> QED
    BY <1>3, <2>1, <2>4, <2>5, <2>8, <2>9, <2>10, <2>11, <2>12 DEF IInv
<1> QED
  BY <1>2, <1>3

(* The parent is synchronised, and the call answers.                       *)
LEMMA SyncParentStep ==
  ASSUME IInv, NEW w \in Writers, SyncParent(w)
  PROVE  /\ IInv' /\ UNCHANGED <<dest, parent>>
         /\ Seen(dest)' = Seen(dest) /\ onDisk' = dest /\ Seen(onDisk)' = Seen(dest)
<1>1. /\ pc[w] = "harden" /\ dest.owner = w /\ parent \in {"new", "rooted"}
      /\ calls \in 1..MaxCalls
  BY Underway DEF SyncParent, IInv, DestInv, ShapeInv, ParentInv
<1>2. /\ onDisk' = dest /\ UNCHANGED <<capsuleVars, dest, parent, faults, calls>>
      /\ acked' = acked \cup {[writer |-> w, parent |-> parent]}
      /\ DOMAIN pc' = Writers /\ pc'[w] = "idle"
      /\ \A v \in Writers \ {w} : pc'[v] = pc[v]
      /\ DOMAIN stage' = Writers /\ stage'[w] = EmptyStage(w)
      /\ \A v \in Writers \ {w} : stage'[v] = stage[v]
  BY DEF SyncParent, ParentSynced, Return, IInv, ShapeInv
<1>3. \A v : Files(v)' = Files(v) /\ Verified(v)' = Verified(v)
  BY <1>2 DEF Files, Verified, capsuleVars
<1>4. Seen(dest) = w /\ Seen(dest)' = w /\ Seen(onDisk)' = w
  BY <1>1, <1>2, <1>3 DEF IInv, DestInv, Committed, Seen
<1>5. ShapeInv'
  <2>1. IsDirectory(dest)' /\ IsDirectory(onDisk)'
    BY <1>2 DEF IsDirectory, IInv, ShapeInv
  <2>2. ASSUME NEW v \in Writers
        PROVE  IsDirectory(stage'[v]) /\ stage'[v].owner = v
               /\ pc'[v] \in {"idle", "harden"} \cup DOMAIN Script(v)
    BY <1>2, EmptyFacts DEF IInv, ShapeInv
  <2> QED
    BY <1>2, <2>1, <2>2 DEF IInv, ShapeInv, IsDirectory, Script
<1>6. BuiltInv' /\ ParentInv'
  BY <1>1, <1>2 DEF BuiltInv, ParentInv
<1>7. DestInv'
  <2>1. Committed(dest)' /\ Committed(onDisk)'
    BY <1>2, <1>3 DEF IInv, DestInv, Committed
  <2> QED
    BY <1>2, <2>1 DEF IInv, DestInv
<1>8. StageInv'
  <2>1. \A v \in Writers \ {w} : Staged(v)'
    BY <1>2, <1>3 DEF Staged, Intact, capsuleVars, IInv, StageInv
  <2>2. Staged(w)'
    BY <1>2, EmptyFacts DEF Staged
  <2> QED
    BY <2>1, <2>2 DEF StageInv
<1>9. AckedInv'
  <2>1. ASSUME NEW a \in acked'
        PROVE  /\ a \in [writer : Writers, parent : {"new", "rooted"}]
               /\ a.parent = "rooted" => /\ parent' = "rooted"
                                         /\ Seen(dest)' = a.writer /\ Seen(onDisk)' = a.writer
    <3>1. CASE a \in acked
      BY <1>2, <1>4, <3>1 DEF IInv, AckedInv
    <3>2. CASE a = [writer |-> w, parent |-> parent]
      BY <1>1, <1>2, <1>4, <3>2
    <3> QED
      BY <1>2, <3>1, <3>2
  <2> QED
    BY <2>1 DEF AckedInv
<1> QED
  BY <1>2, <1>4, <1>5, <1>6, <1>7, <1>8, <1>9 DEF IInv

LEMMA WriterStep ==
  ASSUME IInv, NEW w \in Writers, Step(w) \/ FailStep(w) \/ Die(w)
  PROVE  IInv'
<1>1. FailStep(w) \/ Die(w) => IInv'
  BY ErrStep DEF FailStep, Die
<1> QED
  BY <1>1, StartStep, CheckStep, MakeParentStep, MakeStageStep, WriteFileStep, ReadBackStep,
     SyncStageStep, RenameStep, SyncParentStep DEF Step

-----------------------------------------------------------------------------
(* Steps of others                                                         *)

(* The capsule changes before any call: no directory of a writer is there. *)
LEMMA BuildStep ==
  ASSUME IInv, BuildCapsule
  PROVE  IInv' /\ UNCHANGED <<dest, onDisk, parent>>
         /\ Seen(dest)' = Seen(dest) /\ Seen(onDisk)' = Seen(onDisk)
<1>1. /\ UNCHANGED <<dest, onDisk, parent, stage, pc, calls, acked, faults>>
      /\ dest.owner \notin Writers /\ onDisk.owner \notin Writers
      /\ \A w \in Writers : pc[w] = "idle"
  BY DEF BuildCapsule, IInv, BuiltInv
<1>2. Seen(dest)' = Seen(dest) /\ Seen(onDisk)' = Seen(onDisk)
  BY <1>1 DEF Seen
<1>3. ShapeInv'
  BY <1>1 DEF IInv, ShapeInv, IsDirectory, Script
<1>4. BuiltInv' /\ ParentInv' /\ DestInv' /\ AckedInv'
  BY <1>1, <1>2 DEF IInv, BuiltInv, ParentInv, DestInv, Committed, AckedInv, Free
<1>5. StageInv'
  BY <1>1 DEF IInv, StageInv, Staged
<1> QED
  BY <1>1, <1>2, <1>3, <1>4, <1>5 DEF IInv

LEMMA IntrudeStep ==
  ASSUME IInv, Intrude
  PROVE  IInv' /\ UNCHANGED <<onDisk, parent>>
         /\ Seen(onDisk)' = Seen(onDisk) /\ Seen(dest) = NoOne
         /\ Seen(dest)' \in {NoOne, Outsider}
<1>1. /\ UNCHANGED <<capsuleVars, onDisk, parent, stage, pc, calls, acked>>
      /\ dest.owner = NoOne /\ parent # "missing" /\ faults' \in 0..MaxFaults
  BY FaultFacts DEF Intrude
<1>2. \A v : Files(v)' = Files(v) /\ Verified(v)' = Verified(v)
  BY <1>1 DEF Files, Verified, capsuleVars
<1>3. IsDirectory(dest') /\ dest'.owner = Outsider /\ dest'.synced
  <2>1. IsDirectory(EmptyDirectory) /\ EmptyDirectory.owner = Outsider /\ EmptyDirectory.synced
    <3>1. Free.synced /\ DOMAIN Free = {"owner", "files", "synced"}
      BY DEF Free
    <3> QED
      BY <3>1 DEF EmptyDirectory, IsDirectory, Owners
  <2>2. ForeignDirectory.owner = EmptyDirectory.owner /\ IsDirectory(ForeignDirectory)
        /\ ForeignDirectory.synced = EmptyDirectory.synced
    BY <2>1 DEF ForeignDirectory, IsDirectory
  <2> QED
    BY <2>1, <2>2 DEF Intrude
<1>4. Outsider \notin Writers /\ NoOne \notin Writers /\ Outsider # NoOne
  BY CommitAssumption DEF Outsider, NoOne
<1>5. Seen(dest) = NoOne /\ Seen(dest)' \in {NoOne, Outsider} /\ Committed(dest)'
  BY <1>1, <1>3, <1>4 DEF Seen, Committed, IInv, DestInv
<1>6. Seen(onDisk) = NoOne /\ Seen(onDisk)' = NoOne
  BY <1>1, <1>2, <1>5 DEF Seen, IInv, DestInv
<1>7. ShapeInv'
  BY <1>1, <1>3 DEF IInv, ShapeInv, IsDirectory, Script
<1>8. BuiltInv' /\ ParentInv' /\ StageInv'
  BY <1>1, <1>2, <1>3, <1>4
     DEF IInv, BuiltInv, ParentInv, StageInv, Staged, Intact, capsuleVars
<1>9. DestInv'
  <2>1. Committed(onDisk)'
    BY <1>1, <1>2 DEF IInv, DestInv, Committed
  <2>2. \A w \in Writers : pc[w] # "harden"
    BY <1>1, <1>4 DEF IInv, DestInv
  <2> QED
    BY <1>1, <1>5, <1>6, <2>1, <2>2 DEF DestInv
<1>10. AckedInv'
  <2>1. \A a \in acked : a.writer \in Writers /\ a.parent # "rooted"
    BY <1>4, <1>5 DEF IInv, AckedInv
  <2> QED
    BY <1>1, <2>1 DEF IInv, AckedInv
<1> QED
  BY <1>1, <1>5, <1>6, <1>7, <1>8, <1>9, <1>10 DEF IInv

(* Power is lost: the destination is as it was, or as the disk had it; the *)
(* directories there were all synchronised.                                *)
LEMMA LosePowerStep ==
  ASSUME IInv, LosePower
  PROVE  /\ IInv' /\ onDisk' = dest'
         /\ \/ dest' \in {dest, onDisk} /\ Seen(dest)' \in {Seen(dest), Seen(onDisk)}
               /\ parent' = IF parent = "new" THEN "rooted" ELSE parent
            \/ parent = "new" /\ parent' = "missing" /\ Seen(dest)' = NoOne
<1>1. /\ UNCHANGED <<capsuleVars, calls, acked>> /\ onDisk' = dest'
      /\ faults' \in 0..MaxFaults
      /\ pc' = [w \in Writers |-> "idle"] /\ stage' = [w \in Writers |-> EmptyStage(w)]
  BY FaultFacts DEF LosePower
<1>2. \A v : Files(v)' = Files(v) /\ Verified(v)' = Verified(v)
  BY <1>1 DEF Files, Verified, capsuleVars
<1>3. \/ /\ dest' \in {dest, onDisk}
         /\ parent' = IF parent = "new" THEN "rooted" ELSE parent
      \/ parent = "new" /\ parent' = "missing" /\ dest' = Free
  <2>1. Survivors(dest) = {dest} /\ Survivors(onDisk) = {onDisk}
    BY DEF Survivors, IInv, DestInv, Committed
  <2> QED
    BY <2>1 DEF LosePower
<1>4. /\ dest' \in {dest, onDisk, Free} /\ Committed(dest)' /\ IsDirectory(dest)'
      /\ dest' = Free => Seen(dest)' = NoOne
  <2>1. dest' \in {dest, onDisk, Free}
    BY <1>3
  <2>2. Free.owner \notin Writers
    BY EmptyFacts, CommitAssumption DEF Free
  <2>3. Committed(dest)'
    BY <1>2, <2>1, <2>2, EmptyFacts DEF IInv, DestInv, Committed, Free
  <2>4. IsDirectory(dest)'
    <3>1. IsDirectory(Free)
      BY DEF IsDirectory, Free, Owners
    <3> QED
      BY <2>1, <3>1 DEF IsDirectory, IInv, ShapeInv
  <2>5. ASSUME dest' = Free
        PROVE  Seen(dest)' = NoOne
    BY <2>2, <2>5 DEF Seen, Free
  <2> QED
    BY <2>1, <2>3, <2>4, <2>5
<1>5. dest' \in {dest, onDisk} => Seen(dest)' \in {Seen(dest), Seen(onDisk)}
  BY <1>2 DEF Seen
<1>6. ShapeInv'
  <2>1. parent' \in {"missing", "new", "rooted"}
    BY <1>3 DEF IInv, ShapeInv
  <2> QED
    BY <1>1, <1>4, <2>1, EmptyFacts DEF IInv, ShapeInv, IsDirectory
<1>7. BuiltInv'
  BY <1>1, <1>4, CommitAssumption DEF IInv, BuiltInv, Free
<1>8. ParentInv'
  BY <1>1, <1>3 DEF IInv, ShapeInv, ParentInv
<1>9. DestInv'
  BY <1>1, <1>4 DEF DestInv, Committed
<1>10. StageInv'
  BY <1>1, EmptyFacts DEF StageInv, Staged
<1>11. AckedInv'
  BY <1>1, <1>3, <1>5 DEF IInv, AckedInv, Seen
<1> QED
  BY <1>1, <1>3, <1>4, <1>5, <1>6, <1>7, <1>8, <1>9, <1>10, <1>11 DEF IInv

-----------------------------------------------------------------------------
(* Theorems                                                                *)

LEMMA InitIInv == Init => IInv
<1> SUFFICES ASSUME Init PROVE IInv
  OBVIOUS
<1>1. ShapeInv
  <2>1. IsDirectory(Free)
    BY DEF IsDirectory, Free, Owners
  <2> QED
    BY <2>1, EmptyFacts, CommitAssumption DEF Init, ShapeInv
<1>2. Free.owner = NoOne /\ Free.synced /\ DOMAIN Free.files = {} /\ NoOne \notin Writers
  BY CommitAssumption DEF Free
<1>3. BuiltInv /\ ParentInv
  BY <1>2 DEF Init, BuiltInv, ParentInv
<1>4. DestInv /\ AckedInv
  BY <1>2 DEF Init, DestInv, Committed, AckedInv
<1>5. StageInv
  BY EmptyFacts DEF Init, StageInv, Staged
<1> QED
  BY <1>1, <1>3, <1>4, <1>5 DEF IInv

LEMMA StutterStep ==
  ASSUME IInv, UNCHANGED vars
  PROVE  IInv'
<1> USE DEF vars, capsuleVars
<1>1. \A v : Files(v)' = Files(v) /\ Verified(v)' = Verified(v)
  BY DEF Files, Verified
<1>2. ShapeInv'
  BY DEF IInv, ShapeInv, IsDirectory, Script
<1>3. BuiltInv' /\ ParentInv'
  BY DEF IInv, BuiltInv, ParentInv
<1>4. DestInv' /\ AckedInv'
  BY <1>1 DEF IInv, DestInv, AckedInv, Committed, Seen
<1>5. StageInv'
  BY <1>1 DEF IInv, StageInv, Staged, Intact
<1> QED
  BY <1>2, <1>3, <1>4, <1>5 DEF IInv

LEMMA NextIInv == IInv /\ [Next]_vars => IInv'
  BY StutterStep, WriterStep, BuildStep, IntrudeStep, LosePowerStep DEF Next

(* The state keeps its types, and a staging directory lies in a parent     *)
(* that exists (src/artifact_writer.rs, write_verified).                   *)
THEOREM TypesHold == Spec => []TypeOK
<1>1. IInv => TypeOK
  <2> SUFFICES ASSUME IInv PROVE TypeOK
    OBVIOUS
  <2>1. ASSUME NEW w \in Writers, parent = "missing"
        PROVE  DOMAIN stage[w].files = {}
    BY <2>1 DEF IInv, ParentInv, StageInv, Staged
  <2> QED
    BY <2>1 DEF IInv, ShapeInv, IsDirectory, Owners, AckedInv, TypeOK
<1> QED
  BY InitIInv, NextIInv, <1>1, PTL DEF Spec

(* What a call answered for is at the destination, whole, and stays when   *)
(* power is lost (write_verified, write_to).                               *)
THEOREM OksAreKept == Spec => []OkIsKept
<1>1. IInv => OkIsKept
  BY DEF IInv, AckedInv, OkIsKept
<1> QED
  BY InitIInv, NextIInv, <1>1, PTL DEF Spec

(* Only what was read back and verified reaches the destination            *)
(* (write_verified, verify_directory).                                     *)
THEOREM CommitsVerify == Spec => []CommittedVerifies
<1>1. IInv => CommittedVerifies
  BY DEF IInv, DestInv, Committed, CommittedVerifies
<1> QED
  BY InitIInv, NextIInv, <1>1, PTL DEF Spec

-----------------------------------------------------------------------------
(* The store                                                               *)

(* What a loss of power cannot take.                                       *)
Durable == IF parent = "rooted" THEN Seen(onDisk) ELSE NoOne

(* Whoever moves, the destination makes a step of the store or none.       *)
LEMMA StoreStep ==
  ASSUME IInv, [Next]_vars
  PROVE  [Store!Next]_<<Seen(dest), Durable>>
<1> USE DEF Store!Next, Store!Publish, Store!Harden, Store!LosePower, Durable
<1>1. ASSUME UNCHANGED <<dest, parent, onDisk>>,
             Seen(dest)' = Seen(dest), Seen(onDisk)' = Seen(onDisk)
      PROVE  UNCHANGED <<Seen(dest), Durable>>
  BY <1>1
<1>2. ASSUME UNCHANGED <<capsuleVars, dest, onDisk>>
      PROVE  Seen(dest)' = Seen(dest) /\ Seen(onDisk)' = Seen(onDisk)
  BY <1>2 DEF Seen, Files, capsuleVars
<1>3. CASE UNCHANGED vars
  BY <1>1, <1>2, <1>3 DEF vars
<1>4. CASE BuildCapsule
  BY <1>1, <1>4, BuildStep
<1>5. CASE Intrude
  <2>1. /\ UNCHANGED <<onDisk, parent>> /\ Seen(onDisk)' = Seen(onDisk)
        /\ Seen(dest) = NoOne /\ Seen(dest)' \in {NoOne, Outsider}
    BY <1>5, IntrudeStep
  <2> QED
    BY <2>1
<1>6. CASE LosePower
  <2>1. Seen(onDisk) = NoOne \/ onDisk = dest
    BY DEF IInv, DestInv
  <2>2. onDisk' = dest' /\ Seen(onDisk)' = Seen(dest)'
    BY <1>6, LosePowerStep DEF Seen
  <2>3. parent = "missing" => Seen(dest) = NoOne /\ Seen(onDisk) = NoOne
    BY CommitAssumption DEF IInv, ParentInv, Free, Seen
  <2>4. parent \in {"missing", "new", "rooted"}
    BY DEF IInv, ShapeInv
  <2>5. CASE /\ Seen(dest)' \in {Seen(dest), Seen(onDisk)}
             /\ parent' = IF parent = "new" THEN "rooted" ELSE parent
    BY <2>1, <2>2, <2>3, <2>4, <2>5
  <2>6. CASE parent = "new" /\ parent' = "missing" /\ Seen(dest)' = NoOne
    BY <2>6
  <2> QED
    BY <1>6, <2>5, <2>6, LosePowerStep
<1>7. ASSUME NEW w \in Writers, Step(w) \/ FailStep(w) \/ Die(w)
      PROVE  [Store!Next]_<<Seen(dest), Durable>>
  <2>1. CASE Rename(w)
    <3>1. CASE Replaceable
      BY <2>1, <3>1, RenameStep DEF Seen, Files, Rename, capsuleVars
    <3>2. CASE ~Replaceable
      <4>1. UNCHANGED <<capsuleVars, dest, onDisk, parent>>
        BY <2>1, <3>2, RenameStep DEF Rename
      <4> QED
        BY <1>1, <1>2, <4>1
    <3> QED
      BY <3>1, <3>2
  <2>2. CASE SyncParent(w)
    BY <2>2, SyncParentStep
  <2>3. CASE MakeParent(w)
    <3>1. /\ UNCHANGED <<capsuleVars, dest, onDisk>>
          /\ parent' = "rooted" <=> parent = "rooted"
      BY <2>3 DEF MakeParent, MadeParent, IInv, ShapeInv
    <3> QED
      BY <1>2, <3>1
  <2>4. CASE UNCHANGED <<capsuleVars, dest, onDisk, parent>>
    BY <1>1, <1>2, <2>4
  <2> QED
    BY <1>7, <2>1, <2>2, <2>3, <2>4
       DEF Step, FailStep, Die, Start, CheckDestination, MakeStage, WriteFile, ReadBack, SyncStage
<1> QED
  BY <1>3, <1>4, <1>5, <1>6, <1>7 DEF Next

(* The destination is the store: what is there was put there by one step,  *)
(* whole, is never replaced, and a loss of power takes it only while it    *)
(* was not durable (docs/artifact-writer.md, "Create-only semantics").     *)
THEOREM StoreIsRefined == Spec => RefinesStore
<1>1. Init => Store!Init
  BY CommitAssumption DEF Init, Store!Init, Seen, Free
<1> QED
  BY InitIInv, NextIInv, <1>1, StoreStep, PTL DEF Spec, RefinesStore, Store!Spec, Durable

-----------------------------------------------------------------------------
(* Capsules (Capsule)                                                      *)

(* An item of a call goes in: it, and those before it, were not there, and *)
(* are there with their contents.                                          *)
Taken(items, i) ==
  \A j \in 1..i : /\ items[j].path \notin DOMAIN entries
                  /\ items[j].path \in DOMAIN entries'
                  /\ entries'[items[j].path] = items[j].content

(* insert_entry: what is there stays, what comes is one of the items.      *)
LEMMA Inserted ==
  ASSUME NEW items, Len(items) \in Nat, Insert(items)
  PROVE  /\ \A x \in DOMAIN entries : x \in DOMAIN entries' /\ entries'[x] = entries[x]
         /\ \A x \in DOMAIN entries' \ DOMAIN entries :
              \E i \in 1..Len(items) : items[i].path = x /\ Taken(items, i)
         /\ Refused(items) = {} => \A i \in 1..Len(items) : Taken(items, i)
<1> DEFINE new == Accepted(items)
<1>1. /\ DOMAIN entries' = DOMAIN entries \cup {entry.path : entry \in new}
      /\ \A x \in DOMAIN entries' :
           entries'[x] = IF x \in DOMAIN entries THEN entries[x]
                         ELSE (CHOOSE entry \in new : entry.path = x).content
  BY DEF Insert
<1>2. ASSUME NEW i \in 1..Len(items), \A k \in Refused(items) : i < k
      PROVE  Taken(items, i)
  <2>1. ASSUME NEW j \in 1..i
        PROVE  /\ items[j].path \notin DOMAIN entries
               /\ items[j].path \in DOMAIN entries'
               /\ entries'[items[j].path] = items[j].content
    <3>1. j \in 1..Len(items) /\ j \notin Refused(items)
      BY <1>2, <2>1
    <3>2. items[j].path \notin DOMAIN entries
      BY <3>1 DEF Refused
    <3>3. items[j] \in new
      BY <1>2, <2>1, <3>1 DEF Accepted, Refused
    <3>4. ASSUME NEW entry \in new, entry.path = items[j].path
          PROVE  entry = items[j]
      <4>1. PICK k \in 1..Len(items) : entry = items[k] /\ \A r \in Refused(items) : k < r
        BY <3>4 DEF Accepted
      <4>2. k \notin Refused(items)
        BY <4>1
      <4>3. ~(k < j) /\ ~(j < k)
        BY <3>1, <3>4, <4>1, <4>2 DEF Refused
      <4> QED
        BY <3>1, <4>1, <4>3
    <3> HIDE DEF new
    <3>5. (CHOOSE entry \in new : entry.path = items[j].path) = items[j]
      BY <3>3, <3>4
    <3> QED
      BY <1>1, <3>2, <3>3, <3>5
  <2> QED
    BY <2>1 DEF Taken
<1>3. ASSUME NEW x \in DOMAIN entries' \ DOMAIN entries
      PROVE  \E i \in 1..Len(items) : items[i].path = x /\ Taken(items, i)
  <2>1. PICK entry \in new : entry.path = x
    BY <1>1, <1>3
  <2>2. PICK i \in 1..Len(items) : entry = items[i] /\ \A k \in Refused(items) : i < k
    BY <2>1 DEF Accepted
  <2> QED
    BY <1>2, <2>1, <2>2
<1> HIDE DEF new
<1>4. \A x \in DOMAIN entries : x \in DOMAIN entries' /\ entries'[x] = entries[x]
  BY <1>1
<1>5. Refused(items) = {} => \A i \in 1..Len(items) : Taken(items, i)
  BY <1>2
<1> QED
  BY <1>3, <1>4, <1>5

-----------------------------------------------------------------------------
(* Coherence, entry by entry                                               *)

Has(path) == path \in DOMAIN entries

RenderedInv ==
  /\ Has("rendered") <=> Has("rendered.receipt")
  /\ Has("rendered") => entries["rendered"] = <<report>>

RemediationInv ==
  /\ Has("remediation") =>
       report \in {entries["remediation"][1], entries["remediation"][2]}
  /\ Has("plan") => /\ "plans" \in policy /\ Has("remediation")
                    /\ entries["plan"][1] = entries["remediation"][3]

SourcesInv == \A i \in 1..2 : Has(SourcePath[i]) => "sources" \in policy

Indexed(index) ==
  \A i \in 1..Len(index) : Has(SourcePath[i]) /\ entries[SourcePath[i]] = <<index[i]>>

IndexInv == Has("sources/index") => Indexed(entries["sources/index"])

LEMMA CoherenceParts ==
  /\ CapsuleCoherent <=> RenderedInv /\ RemediationInv /\ SourcesInv /\ IndexInv
  /\ CapsuleCoherent' <=> RenderedInv' /\ RemediationInv' /\ SourcesInv' /\ IndexInv'
<1>1. CapsuleCoherent <=> RenderedInv /\ RemediationInv /\ SourcesInv /\ IndexInv
  BY DEF CapsuleCoherent, RenderedInv, RemediationInv, SourcesInv, IndexInv, Indexed, Has
<1>2. CapsuleCoherent' <=> RenderedInv' /\ RemediationInv' /\ SourcesInv' /\ IndexInv'
  BY DEF CapsuleCoherent, RenderedInv, RemediationInv, SourcesInv, IndexInv, Indexed, Has
<1> QED
  BY <1>1, <1>2

(* Entries stay, and those of some paths only are new.                     *)
Grows(paths) ==
  /\ UNCHANGED <<report, policy>>
  /\ \A x \in DOMAIN entries : x \in DOMAIN entries' /\ entries'[x] = entries[x]
  /\ DOMAIN entries' \ DOMAIN entries \subseteq paths

(* A part none of whose entries is new holds on.                           *)
LEMMA RenderedStays ==
  ASSUME RenderedInv, NEW paths, Grows(paths), paths \cap {"rendered", "rendered.receipt"} = {}
  PROVE  RenderedInv'
  BY DEF RenderedInv, Grows, Has

LEMMA RemediationStays ==
  ASSUME RemediationInv, NEW paths, Grows(paths), paths \cap {"remediation", "plan"} = {}
  PROVE  RemediationInv'
  BY DEF RemediationInv, Grows, Has

LEMMA SourcesStay ==
  ASSUME SourcesInv, NEW paths, Grows(paths),
         "sources" \in policy \/ paths \cap {"sources/1", "sources/2"} = {}
  PROVE  SourcesInv'
  BY DEF SourcesInv, Grows, Has, SourcePath

LEMMA IndexStays ==
  ASSUME IndexInv, NEW paths, Grows(paths), Has("sources/index") \/ "sources/index" \notin paths
  PROVE  IndexInv'
<1> SUFFICES ASSUME Has("sources/index")', NEW i \in 1..Len(entries'["sources/index"])
             PROVE  /\ SourcePath[i] \in DOMAIN entries'
                    /\ entries'[SourcePath[i]] = <<entries'["sources/index"][i]>>
  BY DEF IndexInv, Indexed, Has
<1>1. Has("sources/index") /\ entries'["sources/index"] = entries["sources/index"]
  BY DEF Grows, Has
<1>2. /\ SourcePath[i] \in DOMAIN entries
      /\ entries[SourcePath[i]] = <<entries["sources/index"][i]>>
  BY <1>1 DEF IndexInv, Indexed, Has
<1> QED
  BY <1>1, <1>2 DEF Grows

-----------------------------------------------------------------------------
(* The calls                                                               *)

(* A rendering and its receipt go in together.                             *)
LEMMA AddRenderedStep ==
  ASSUME CapsuleCoherent, NEW artifact, AddRendered(artifact)
  PROVE  CapsuleCoherent'
<1> DEFINE items == <<Entry("rendered", <<artifact.report>>),
                      Entry("rendered.receipt", <<artifact.report>>)>>
<1>1. /\ Len(items) = 2 /\ Insert(items)
      /\ items[1].path = "rendered" /\ items[1].content = <<report>>
      /\ items[2].path = "rendered.receipt"
  BY DEF AddRendered, Entry
<1>2. UNCHANGED <<report, policy>>
  BY DEF AddRendered, Call
<1> HIDE DEF items
<1>3. /\ \A x \in DOMAIN entries : x \in DOMAIN entries' /\ entries'[x] = entries[x]
      /\ \A x \in DOMAIN entries' \ DOMAIN entries :
           \E i \in 1..2 : items[i].path = x /\ Taken(items, i)
      /\ Refused(items) = {} => \A i \in 1..2 : Taken(items, i)
  BY <1>1, Inserted
<1>4. Grows({"rendered", "rendered.receipt"})
  BY <1>1, <1>2, <1>3 DEF Grows
<1>5. RenderedInv'
  <2>1. CASE Has("rendered")
    BY <1>2, <1>3, <2>1, CoherenceParts DEF RenderedInv, Has
  <2>2. CASE ~Has("rendered") /\ Refused(items) = {}
    <3>1. Taken(items, 1) /\ Taken(items, 2)
      BY <1>3, <2>2
    <3>2. /\ Has("rendered")' /\ Has("rendered.receipt")'
          /\ entries'["rendered"] = <<report>>
      BY <1>1, <3>1 DEF Taken, Has
    <3> QED
      BY <1>2, <3>2 DEF RenderedInv
  <2>3. CASE ~Has("rendered") /\ Refused(items) # {}
    <3>1. ~Has("rendered.receipt")
      BY <2>3, CoherenceParts DEF RenderedInv
    <3>2. PICK k \in 1..2 : k \in Refused(items)
      BY <1>1, <2>3 DEF Refused
    <3>3. FALSE
      BY <1>1, <2>3, <3>1, <3>2 DEF Refused, Has
    <3> QED
      BY <3>3
  <2> QED
    BY <2>1, <2>2, <2>3
<1>6. RemediationInv' /\ SourcesInv' /\ IndexInv'
  BY <1>4, CoherenceParts, RemediationStays, SourcesStay, IndexStays
<1> QED
  BY <1>5, <1>6, CoherenceParts

LEMMA AddProvenanceStep ==
  ASSUME CapsuleCoherent, AddProvenance
  PROVE  CapsuleCoherent'
<1> DEFINE items == <<Entry("provenance", <<report>>)>>
<1>1. Len(items) = 1 /\ Insert(items) /\ items[1].path = "provenance"
  BY DEF AddProvenance, Entry
<1>2. UNCHANGED <<report, policy>>
  BY DEF AddProvenance, Call
<1> HIDE DEF items
<1>3. Grows({"provenance"})
  BY <1>1, <1>2, Inserted DEF Grows
<1> QED
  BY <1>3, CoherenceParts, RenderedStays, RemediationStays, SourcesStay, IndexStays

(* The plan goes in after the receipt that names it, or not at all.        *)
LEMMA AddRemediationStep ==
  ASSUME CapsuleCoherent, NEW receipt, NEW plan, AddRemediation(receipt, plan)
  PROVE  CapsuleCoherent'
<1> DEFINE first == Entry("remediation", <<receipt.before, receipt.after, receipt.plan>>)
           items == IF PlanAllowed(receipt, plan)
                    THEN <<first, Entry("plan", <<plan>>)>> ELSE <<first>>
<1>1. /\ Len(items) \in {1, 2} /\ Insert(items)
      /\ items[1].path = "remediation"
      /\ items[1].content = <<receipt.before, receipt.after, receipt.plan>>
      /\ Len(items) = 2 => /\ PlanAllowed(receipt, plan)
                           /\ items[2].path = "plan" /\ items[2].content = <<plan>>
  BY DEF AddRemediation, Entry
<1>2. UNCHANGED <<report, policy>> /\ report \in {receipt.before, receipt.after}
  BY DEF AddRemediation, Call
<1> HIDE DEF items
<1>3. /\ \A x \in DOMAIN entries : x \in DOMAIN entries' /\ entries'[x] = entries[x]
      /\ \A x \in DOMAIN entries' \ DOMAIN entries :
           \E i \in 1..Len(items) : items[i].path = x /\ Taken(items, i)
  BY <1>1, Inserted
<1>4. Grows({"remediation", "plan"})
  BY <1>1, <1>2, <1>3 DEF Grows
<1>5. RemediationInv'
  <2>1. ASSUME Has("remediation")', ~Has("remediation")
        PROVE  entries'["remediation"] = <<receipt.before, receipt.after, receipt.plan>>
    <3>1. PICK i \in 1..Len(items) : Taken(items, i)
      BY <1>3, <2>1 DEF Has
    <3>2. 1 \in 1..i
      BY <3>1, <1>1
    <3> QED
      BY <1>1, <3>1, <3>2 DEF Taken
  <2>2. ASSUME Has("plan")', ~Has("plan")
        PROVE  /\ "plans" \in policy /\ Has("remediation")'
               /\ entries'["plan"][1] = entries'["remediation"][3]
    <3>1. PICK i \in 1..Len(items) : items[i].path = "plan" /\ Taken(items, i)
      BY <1>3, <2>2 DEF Has
    <3>2. i = 2 /\ Len(items) = 2
      BY <1>1, <3>1
    <3>3. /\ entries'["remediation"] = <<receipt.before, receipt.after, receipt.plan>>
          /\ entries'["plan"] = <<plan>> /\ Has("remediation")'
      BY <1>1, <3>1, <3>2 DEF Taken, Has
    <3> QED
      BY <1>1, <3>2, <3>3 DEF PlanAllowed
  <2> QED
    BY <1>2, <1>3, <2>1, <2>2, CoherenceParts DEF RemediationInv, Has
<1>6. RenderedInv' /\ SourcesInv' /\ IndexInv'
  BY <1>4, CoherenceParts, RenderedStays, SourcesStay, IndexStays
<1> QED
  BY <1>5, <1>6, CoherenceParts

(* The index goes in after all the sources it names, or not at all.        *)
LEMMA AddSourcesStep ==
  ASSUME CapsuleCoherent, NEW snapshot \in Snapshots, AddSources(snapshot)
  PROVE  CapsuleCoherent'
<1> DEFINE texts == [i \in 1..Len(snapshot) |-> Entry(SourcePath[i], <<snapshot[i]>>)]
           items == texts \o <<Entry("sources/index", snapshot)>>
<1>1. snapshot \in Seq(Text) /\ Len(snapshot) \in 0..2
  <2>1. PICK n \in 0..2 : snapshot \in [1..n -> Text]
    BY DEF Snapshots
  <2> QED
    BY <2>1, IsASeq, LenProperties
<1>2. /\ Insert(items) /\ Len(items) = Len(snapshot) + 1
      /\ \A i \in 1..Len(snapshot) : items[i] = Entry(SourcePath[i], <<snapshot[i]>>)
      /\ items[Len(snapshot) + 1] = Entry("sources/index", snapshot)
  BY <1>1 DEF AddSources
<1>3. UNCHANGED <<report, policy>> /\ "sources" \in policy
  BY DEF AddSources, Call
<1> HIDE DEF items
<1>4. /\ \A x \in DOMAIN entries : x \in DOMAIN entries' /\ entries'[x] = entries[x]
      /\ \A x \in DOMAIN entries' \ DOMAIN entries :
           \E i \in 1..Len(items) : items[i].path = x /\ Taken(items, i)
  BY <1>1, <1>2, Inserted
<1>5. \A i \in 1..2 : SourcePath[i] \in {"sources/1", "sources/2"}
  BY DEF SourcePath
<1>6. /\ \A i \in 1..Len(snapshot) : /\ items[i].path = SourcePath[i]
                                     /\ items[i].path \in {"sources/1", "sources/2"}
                                     /\ items[i].content = <<snapshot[i]>>
      /\ items[Len(snapshot) + 1].path = "sources/index"
      /\ items[Len(snapshot) + 1].content = snapshot
  <2>1. ASSUME NEW i \in 1..Len(snapshot)
        PROVE  /\ items[i].path = SourcePath[i]
               /\ items[i].path \in {"sources/1", "sources/2"}
               /\ items[i].content = <<snapshot[i]>>
    <3>1. items[i] = [path |-> SourcePath[i], content |-> <<snapshot[i]>>]
      BY <1>2 DEF Entry
    <3>2. items[i].path = SourcePath[i] /\ items[i].content = <<snapshot[i]>>
      BY <3>1
    <3>3. i \in 1..2
      <4>1. \A n \in 0..2 : 1..n \subseteq 1..2
        OBVIOUS
      <4>2. 1..Len(snapshot) \subseteq 1..2
        BY <1>1, <4>1, Zenon
      <4> QED
        BY <2>1, <4>2, Zenon
    <3>4. SourcePath[i] \in {"sources/1", "sources/2"}
      BY <1>5, <3>3
    <3> QED
      BY <3>2, <3>4
  <2>2. items[Len(snapshot) + 1] = [path |-> "sources/index", content |-> snapshot]
    BY <1>2 DEF Entry
  <2>3. items[Len(snapshot) + 1].path = "sources/index"
        /\ items[Len(snapshot) + 1].content = snapshot
    BY <2>2
  <2> QED
    BY <2>1, <2>3
<1>7. Grows({"sources/1", "sources/2", "sources/index"})
  <2>1. ASSUME NEW x \in DOMAIN entries' \ DOMAIN entries
        PROVE  x \in {"sources/1", "sources/2", "sources/index"}
    <3>1. PICK i \in 1..Len(items) : items[i].path = x
      BY <1>4, <2>1
    <3>2. i \in 1..Len(snapshot) \/ i = Len(snapshot) + 1
      BY <1>1, <1>2, <3>1
    <3> QED
      BY <1>6, <3>1, <3>2
  <2> QED
    BY <1>3, <1>4, <2>1 DEF Grows
<1>8. IndexInv'
  <2>1. CASE Has("sources/index")
    BY <1>7, <2>1, CoherenceParts, IndexStays
  <2>2. CASE ~Has("sources/index") /\ Has("sources/index")'
    <3>1. PICK i \in 1..Len(items) : items[i].path = "sources/index" /\ Taken(items, i)
      BY <1>4, <2>2 DEF Has
    <3>2. i = Len(snapshot) + 1
      BY <1>1, <1>2, <1>6, <3>1
    <3>3. entries'["sources/index"] = snapshot
      BY <1>1, <1>6, <3>1, <3>2 DEF Taken
    <3>4. \A k \in 1..Len(snapshot) : SourcePath[k] \in DOMAIN entries'
                                      /\ entries'[SourcePath[k]] = <<snapshot[k]>>
      BY <1>1, <1>6, <3>1, <3>2 DEF Taken
    <3> QED
      BY <3>3, <3>4 DEF IndexInv, Indexed, Has
  <2>3. CASE ~Has("sources/index")'
    BY <2>3 DEF IndexInv
  <2> QED
    BY <2>1, <2>2, <2>3
<1>9. RenderedInv' /\ RemediationInv' /\ SourcesInv'
  BY <1>3, <1>7, CoherenceParts, RenderedStays, RemediationStays, SourcesStay
<1> QED
  BY <1>8, <1>9, CoherenceParts

(* Writing a capsule changes nothing of it.                                *)
LEMMA WritingStep ==
  ASSUME CapsuleCoherent, UNCHANGED capsuleVars
  PROVE  CapsuleCoherent'
  BY DEF CapsuleCoherent, capsuleVars

LEMMA CoherentStep == CapsuleCoherent /\ [Next]_vars => CapsuleCoherent'
<1> SUFFICES ASSUME CapsuleCoherent, [Next]_vars PROVE CapsuleCoherent'
  OBVIOUS
<1>1. CASE UNCHANGED vars
  BY <1>1, WritingStep DEF vars
<1>2. CASE BuildCapsule
  BY <1>2, AddRenderedStep, AddProvenanceStep, AddRemediationStep, AddSourcesStep
     DEF BuildCapsule, Build
<1>3. CASE Intrude \/ LosePower
  BY <1>3, WritingStep DEF Intrude, LosePower
<1>4. ASSUME NEW w \in Writers, Step(w) \/ FailStep(w) \/ Die(w)
      PROVE  CapsuleCoherent'
  BY <1>4, WritingStep DEF Step, FailStep, Die, Start, CheckDestination, MakeParent, MakeStage,
     WriteFile, ReadBack, SyncStage, Rename, SyncParent
<1> QED
  BY <1>1, <1>2, <1>3, <1>4 DEF Next

(* Whatever calls are made on a capsule, refused and partial ones too, it  *)
(* holds nothing its policy does not allow, and what names another entry   *)
(* names the one beside it (src/capsule.rs, add_rendered to add_sources).  *)
THEOREM CapsulesAreCoherent == Spec => []CapsuleCoherent
<1>1. Init => CapsuleCoherent
  BY DEF Init, CapsuleInit, CapsuleCoherent, SourcePath
<1> QED
  BY <1>1, CoherentStep, PTL DEF Spec
=============================================================================
