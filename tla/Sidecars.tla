------------------------------- MODULE Sidecars ------------------------------
(***************************************************************************)
(* The records kept beside a diagnostic history, one file a run each:      *)
(* Git provenance (src/git_provenance.rs; relationship snapshots,          *)
(* src/relationship.rs, persist alike) and remediation evidence            *)
(* (src/remediation_evidence.rs).  The history is the log RunLog           *)
(* specifies, which History is shown to implement: other processes append  *)
(* to it, and power is lost, while writers persist records.                *)
(*                                                                         *)
(* A writer's call makes the file-system calls of the code one step each.  *)
(* Writes and syncs may fail, a writer may die between two steps.  A loss  *)
(* of power takes what was not synchronised, or part of it: the content of *)
(* a file, its name in the directory of its family, that directory.        *)
(***************************************************************************)
EXTENDS Integers, FiniteSets, SequencesExt

CONSTANTS
  Writers,          \* threads that persist records
  Report,           \* the reports a run can record
  Receipts,         \* the remediation receipts presented for a run
  MaxRuns,          \* bound: runs in the log
  Targets,          \* bound: the runs of the log calls persist records for
  MaxFaults         \* bound: failures, deaths and losses of power

VARIABLES
  log, stable, acked,   \* the history, as in RunLog
  folder,               \* per family: "absent", "volatile" or "rooted"
  file,                 \* per family and run: the file
  pc,                   \* where a writer's call is
  handle,               \* the history the writer opened
  job,                  \* the record the call persists
  answered,             \* history: the records calls reported as persisted
  faults                \* failures, deaths and losses of power so far

Log == INSTANCE RunLog

vars == <<log, stable, acked, folder, file, pc, handle, job, answered, faults>>
logVars == <<log, stable, acked>>

Families == {"provenance", "evidence"}
Index == 1..MaxRuns
Torn == [torn |-> TRUE]
NoContent == [none |-> TRUE]
NoJob == [family |-> "none"]
NoFile == [content |-> NoContent, synced |-> TRUE, named |-> TRUE]

(* The digest of a run commits to every run before it.                     *)
Runs == UNION {[1..n -> Report] : n \in Index}

(* The binding of a provenance record: captured by the scan that appended  *)
(* the run, or asserted by a user later.                                   *)
Values == [provenance |-> {"captured", "asserted"}, evidence |-> Receipts]

Record == {[family |-> f, run |-> run, value |-> value] :
             f \in Families, run \in Runs, value \in Values.provenance \cup Receipts}

ASSUME SidecarsAssumption ==
  /\ MaxRuns \in Nat \ {0} /\ MaxFaults \in Nat
  /\ Targets \subseteq 1..MaxRuns
  /\ Receipts \cap Values.provenance = {}

Position(record) == Len(record.run)

At(record) == file[record.family][Position(record)]

SetFile(record, content) == file' = [file EXCEPT ![record.family][Position(record)] = content]

Whole(content) == content \notin {NoContent, Torn}

(* verify_against: the record is of this run of the history.               *)
Matches(record, history, n) == n \in DOMAIN history /\ record.run = SubSeq(history, 1, n)

(* verify_record, of evidence: of this run, which has one before it.       *)
VerifyRecord(record, history, n) ==
  record.family = "evidence" /\ n >= 2 /\ Matches(record, history, n)

(* GitProvenanceRecord::new: bound to a run by the digest of the run.      *)
Provenance(history, n, binding) ==
  [family |-> "provenance", run |-> SubSeq(history, 1, n), value |-> binding]

(* RemediationEvidenceRecord::from_verified_transition: bound to the run   *)
(* after the remediation, whose digest names the one before.               *)
Evidence(history, n, receipt) ==
  [family |-> "evidence", run |-> SubSeq(history, 1, n), value |-> receipt]

Goto(w, where) == pc' = [pc EXCEPT ![w] = where] /\ UNCHANGED <<handle, job>>

(* A call is over, and its handle dropped: each command opens the history  *)
(* anew.                                                                   *)
Return(w) ==
  /\ pc' = [pc EXCEPT ![w] = "idle"]
  /\ handle' = [handle EXCEPT ![w] = <<>>]
  /\ job' = [job EXCEPT ![w] = NoJob]

(* Ok: the call says its record is persisted.                              *)
Ok(w, creator) ==
  /\ Return(w)
  /\ answered' = answered \cup {[record |-> job[w], creator |-> creator]}

Err(w) == Return(w) /\ UNCHANGED answered

Fault == faults < MaxFaults /\ faults' = faults + 1

(* A call has its record and starts with it.                               *)
Begin(w, record, where) ==
  /\ job' = [job EXCEPT ![w] = record]
  /\ pc' = [pc EXCEPT ![w] = where]
  /\ UNCHANGED handle

-----------------------------------------------------------------------------
(* Calls                                                                   *)

(* DiagnosticHistory::open                                                 *)
Open(w) ==
  /\ pc[w] = "idle" /\ handle[w] # log
  /\ handle' = [handle EXCEPT ![w] = log]
  /\ UNCHANGED <<logVars, folder, file, pc, job, answered, faults>>

(* The directory taken for granted.                                        *)
NoFolder(family) == UNCHANGED folder

(* create_dir_all                                                          *)
MakeFolder(family) ==
  folder' = [folder EXCEPT ![family] = IF @ = "absent" THEN "volatile" ELSE @]

(* A scan that does not wait for its append.                               *)
EligibleEarly(w, value, n) == n \in 1..Len(handle[w])

(* A user binds a run of the history; a scan only one its own append       *)
(* reported as recorded.                                                   *)
Eligible(w, value, n) ==
  /\ n \in 1..Len(handle[w])
  /\ value = "captured" => SubSeq(handle[w], 1, n) \in acked

(* GitProvenanceRecord::persist, up to the directory.                      *)
PersistProvenance(w, value, n) ==
  /\ pc[w] = "idle" /\ Eligible(w, value, n)
  /\ Begin(w, Provenance(handle[w], n, value), "exists")
  /\ MakeFolder("provenance")
  /\ UNCHANGED <<logVars, file, answered, faults>>

(* remediation_evidence_records: every record can be read and is of its    *)
(* run.                                                                    *)
EvidenceReadable(history) ==
  \A n \in Index :
    LET content == file.evidence[n].content
    IN  content # NoContent => Whole(content) /\ VerifyRecord(content, history, n)

(* record_remediation_evidence, up to the directory: the history must be   *)
(* as it was opened, and its evidence readable.  A receipt that does not   *)
(* fit the run is refused here, and changes nothing.                       *)
EvidenceGate(w) == handle[w] = log /\ EvidenceReadable(handle[w])

RecordEvidence(w, receipt, n) ==
  /\ pc[w] = "idle" /\ n \in 2..Len(handle[w])
  /\ EvidenceGate(w)
  /\ Begin(w, Evidence(handle[w], n, receipt), "create")
  /\ MakeFolder("evidence")
  /\ UNCHANGED <<logVars, file, answered, faults>>

(* path.exists(): before the load, or before the creation.                 *)
CheckExists(w) ==
  /\ pc[w] = "exists"
  /\ Goto(w, IF At(job[w]).content = NoContent THEN "create" ELSE "load")
  /\ UNCHANGED <<logVars, folder, file, answered, faults>>

(* load, load_record: what is there is whole, of its run and the same, or  *)
(* the call fails.                                                         *)
LoadExisting(w) ==
  /\ pc[w] = "load"
  /\ LET existing == At(job[w]).content
     IN  IF Whole(existing) /\ Matches(existing, handle[w], Position(job[w])) /\ existing = job[w]
         THEN Ok(w, FALSE) ELSE Err(w)
  /\ UNCHANGED <<logVars, folder, file, faults>>

(* create, which opens what exists and empties it.                         *)
AnyName(record) == TRUE

(* create_new                                                              *)
NameIsFree(record) == At(record).content = NoContent

CreateFile(w) ==
  /\ pc[w] = "create" /\ NameIsFree(job[w])
  /\ SetFile(job[w], [content |-> Torn, synced |-> FALSE, named |-> FALSE])
  /\ Goto(w, "write")
  /\ UNCHANGED <<logVars, folder, answered, faults>>

(* The name is taken: an error for provenance, a comparison for evidence.  *)
NameTaken(w) ==
  /\ pc[w] = "create" /\ ~NameIsFree(job[w])
  /\ IF job[w].family = "evidence" THEN Goto(w, "load") /\ UNCHANGED answered ELSE Err(w)
  /\ UNCHANGED <<logVars, folder, file, faults>>

WriteFile(w) ==
  /\ pc[w] = "write"
  /\ SetFile(job[w], [At(job[w]) EXCEPT !.content = job[w]])
  /\ Goto(w, "sync")
  /\ UNCHANGED <<logVars, folder, answered, faults>>

(* sync_all; evidence is done with it, provenance has the directory to do. *)
SyncFile(w) ==
  /\ pc[w] = "sync"
  /\ SetFile(job[w], [At(job[w]) EXCEPT !.synced = TRUE])
  /\ IF job[w].family = "evidence" THEN Ok(w, TRUE)
     ELSE Goto(w, "directory") /\ UNCHANGED answered
  /\ UNCHANGED <<logVars, folder, faults>>

(* A directory that is not synchronised.                                   *)
NothingSynced(family) == file

(* sync_directory: the names of the family, not the family's own.          *)
NamesSynced(family) ==
  [file EXCEPT ![family] = [n \in Index |-> [@[n] EXCEPT !.named = TRUE]]]

SyncDirectory(w) ==
  /\ pc[w] = "directory"
  /\ file' = NamesSynced(job[w].family)
  /\ Ok(w, TRUE)
  /\ UNCHANGED <<logVars, folder, faults>>

(* A write or a sync fails.  Evidence removes its file, if that succeeds;  *)
(* provenance leaves it.                                                   *)
Fail(w) ==
  /\ pc[w] \in {"write", "sync", "directory"}
  /\ \/ UNCHANGED file
     \/ job[w].family = "evidence" /\ SetFile(job[w], NoFile)
  /\ Err(w) /\ Fault
  /\ UNCHANGED <<logVars, folder>>

(* The process of a writer ends between two steps, or a call that has not  *)
(* created its file yet returns an error of the file system.               *)
Die(w) ==
  /\ pc[w] # "idle"
  /\ Err(w) /\ Fault
  /\ UNCHANGED <<logVars, folder, file>>

-----------------------------------------------------------------------------
(* The history                                                             *)

Rooted == [f \in Families |-> IF folder[f] = "volatile" THEN "rooted" ELSE folder[f]]

AppendRun ==
  /\ Len(log) < MaxRuns
  /\ Log!Commit
  /\ UNCHANGED <<folder, file, pc, handle, job, answered, faults>>

(* append_report synchronises the history's directory, which names the     *)
(* families' directories too.                                              *)
SyncHistory ==
  /\ Log!Harden \/ (Log!Acknowledge /\ acked' # acked)
  /\ folder' = Rooted
  /\ UNCHANGED <<file, pc, handle, job, answered, faults>>

(* What a file may be after power is lost.                                 *)
Outcomes(f) ==
  LET contents == IF f.synced \/ f.content = NoContent THEN {f.content} ELSE {f.content, Torn}
  IN  {[NoFile EXCEPT !.content = c] : c \in contents}
      \cup (IF f.named THEN {} ELSE {NoFile})

(* The families whose directory, never synchronised, is lost with all in   *)
(* it.                                                                     *)
MayVanish == {f \in Families : folder[f] = "volatile"}

Leftovers == {NoFile} \cup UNION {Outcomes(file[f][n]) : f \in Families, n \in Index}

LosePower ==
  /\ Fault
  /\ Log!LosePower
  /\ \E gone \in SUBSET MayVanish :
       /\ folder' = [f \in Families |-> IF f \in gone THEN "absent" ELSE Rooted[f]]
       /\ file' \in [Families -> [Index -> Leftovers]]
       /\ \A f \in Families, n \in Index :
            file'[f][n] \in IF f \in gone THEN {NoFile} ELSE Outcomes(file[f][n])
  /\ pc' = [w \in Writers |-> "idle"]
  /\ handle' = [w \in Writers |-> <<>>]
  /\ answered' = {a \in answered : /\ a.creator /\ a.record.family = "provenance"
                                   /\ folder[a.record.family] = "rooted"}
  /\ job' = [w \in Writers |-> NoJob]

Init ==
  /\ Log!Init
  /\ folder = [f \in Families |-> "absent"]
  /\ file = [f \in Families |-> [n \in Index |-> NoFile]]
  /\ pc = [w \in Writers |-> "idle"]
  /\ handle = [w \in Writers |-> <<>>]
  /\ job = [w \in Writers |-> NoJob]
  /\ answered = {}
  /\ faults = 0

Step(w) ==
  \/ Open(w)
  \/ \E n \in Targets :
       \/ \E value \in Values.provenance : PersistProvenance(w, value, n)
       \/ \E receipt \in Receipts : RecordEvidence(w, receipt, n)
  \/ CheckExists(w) \/ LoadExisting(w)
  \/ CreateFile(w) \/ NameTaken(w) \/ WriteFile(w) \/ SyncFile(w) \/ SyncDirectory(w)
  \/ Fail(w) \/ Die(w)

Next == (\E w \in Writers : Step(w)) \/ AppendRun \/ SyncHistory \/ LosePower

Spec == Init /\ [][Next]_vars

-----------------------------------------------------------------------------
(* Properties                                                              *)

(* The state has its type; a file is in a directory that was created, and  *)
(* a call that writes has created its file.                                *)
TypeOK ==
  /\ Log!RunLogTypeOK
  /\ folder \in [Families -> {"absent", "volatile", "rooted"}]
  /\ \A f \in Families, n \in Index :
       /\ Whole(file[f][n].content) => file[f][n].content \in Record
       /\ folder[f] = "absent" => file[f][n] = NoFile
  /\ \A w \in Writers : pc[w] \in {"write", "sync", "directory"} => At(job[w]).content # NoContent
  /\ \A a \in answered : a.record \in Record

(* A complete record is never written over: whatever calls race, fail or   *)
(* die, it stays as it is, or its own evidence writer takes it away.       *)
RecordsStay ==
  [][~LosePower =>
       \A f \in Families, n \in Index :
         LET before == file[f][n].content
         IN  Whole(before) /\ file'[f][n].content # before =>
               /\ file'[f][n] = NoFile /\ f = "evidence"
               /\ \E w \in Writers : pc[w] = "sync" /\ job[w] = before]_vars

(* What a call reported as persisted is there.  For a call that created    *)
(* the file: until power is lost, and past that for provenance once the    *)
(* history was synchronised after the family's directory appeared.  For a  *)
(* call that found the record: until power is lost, for provenance.        *)
AnsweredStay ==
  \A a \in answered :
    (a.creator \/ a.record.family = "provenance") => At(a.record).content = a.record

(* The record a scan captured is of a run of the history: no loss of power *)
(* takes the run and leaves the record, which no later run could replace.  *)
CapturedHasItsRun ==
  \A n \in Index :
    LET content == file.provenance[n].content
    IN  Whole(content) /\ content.value = "captured" => IsPrefix(content.run, log)
=============================================================================
