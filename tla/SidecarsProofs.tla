---------------------------- MODULE SidecarsProofs ----------------------------
(***************************************************************************)
(* Theorems about Sidecars, for every set of writers, reports, receipts    *)
(* and targets and any number of runs and faults: a complete record is     *)
(* never written over, a captured one has its run, and what a call         *)
(* answered is kept.                                                       *)
(***************************************************************************)
EXTENDS Sidecars, Facts

-----------------------------------------------------------------------------
(* The inductive invariant                                                 *)

Content == Record \cup {Torn, NoContent}
File == [content : Content, synced : BOOLEAN, named : BOOLEAN]

(* A call that has created the file of its record.                         *)
Writing(w) == pc[w] \in {"write", "sync", "directory"}

(* The files, the calls and their records have their types.                *)
ShapeInv ==
  /\ file \in [Families -> [Index -> File]]
  /\ pc \in [Writers -> {"idle", "exists", "load", "create", "write", "sync", "directory"}]
  /\ handle \in [Writers -> Seq(Report)]
  /\ job \in [Writers -> Record \cup {NoJob}]
  /\ \A w \in Writers : pc[w] # "idle" => job[w] \in Record

SamePlace(r, s) == r.family = s.family /\ Position(r) = Position(s)

(* How far the file is at each step of the call that created it; nobody    *)
(* else writes it.                                                         *)
WritersInv ==
  /\ \A w \in Writers :
       /\ pc[w] = "write" => At(job[w]).content = Torn
       /\ pc[w] \in {"sync", "directory"} => At(job[w]).content = job[w]
       /\ pc[w] = "directory" => job[w].family = "provenance"
  /\ \A v, w \in Writers :
       v # w /\ Writing(v) /\ Writing(w) => ~SamePlace(job[v], job[w])

(* The history: what RunLog keeps of its log.                              *)
LogInv ==
  /\ log \in Seq(Report) /\ stable \in Seq(Report) /\ acked \subseteq Seq(Report)
  /\ IsPrefix(stable, log)
  /\ \A chain \in acked : IsPrefix(chain, stable)

(* A captured record is of a run no loss of power takes.                   *)
Grounded(content) ==
  content \in Record /\ content.value = "captured" => IsPrefix(content.run, stable)

CapturedInv ==
  /\ \A w \in Writers : pc[w] # "idle" => Grounded(job[w])
  /\ \A f \in Families, n \in Index : Grounded(file[f][n].content)

IInv == ShapeInv /\ WritersInv /\ LogInv /\ CapturedInv

(* What a step other than a loss of power leaves of the records.           *)
Stays ==
  \A f \in Families, n \in Index :
    LET before == file[f][n].content
    IN  Whole(before) /\ file'[f][n].content # before =>
          /\ file'[f][n] = NoFile /\ f = "evidence"
          /\ \E w \in Writers : pc[w] = "sync" /\ job[w] = before

-----------------------------------------------------------------------------
(* Records and their files                                                 *)

(* What is torn, or not there, is no record.                               *)
LEMMA ContentKinds ==
  /\ Torn \notin Record /\ NoContent \notin Record /\ NoJob \notin Record /\ Torn # NoContent
  /\ \A content \in Content : Whole(content) <=> content \in Record
<1>1. DOMAIN Torn = {"torn"} /\ DOMAIN NoContent = {"none"} /\ DOMAIN NoJob = {"family"}
  BY DEF Torn, NoContent, NoJob
<1>2. \A r \in Record : DOMAIN r = {"family", "run", "value"}
  BY DEF Record
<1>3. Torn \notin Record /\ NoContent \notin Record /\ NoJob \notin Record /\ Torn # NoContent
  BY <1>1, <1>2
<1> QED
  BY <1>3 DEF Content, Whole

(* A record has a place among the files.                                   *)
LEMMA RecordPlace ==
  ASSUME NEW r \in Record
  PROVE  r.family \in Families /\ r.run \in Seq(Report) /\ Position(r) \in Index
<1>1. r.family \in Families /\ r.run \in Runs
  BY DEF Record
<1>2. PICK n \in Index : r.run \in [1..n -> Report]
  BY <1>1 DEF Runs
<1>3. n \in Nat /\ MaxRuns \in Nat
  BY SidecarsAssumption DEF Index
<1>4. r.run \in Seq(Report)
  BY <1>2, <1>3, IsASeq
<1>5. Len(r.run) = n
  BY <1>2, <1>3, <1>4, LenProperties
<1> QED
  BY <1>1, <1>4, <1>5 DEF Position

(* The records the calls are made with.                                    *)
LEMMA NewRecord ==
  ASSUME NEW history \in Seq(Report), NEW n \in Targets, n \in 1..Len(history),
         NEW family \in Families, NEW value \in Values.provenance \cup Receipts
  PROVE  [family |-> family, run |-> SubSeq(history, 1, n), value |-> value] \in Record
<1>1. n \in Index /\ n \in Nat
  BY SidecarsAssumption DEF Index
<1>2. SubSeq(history, 1, n) \in Seq(Report) /\ Len(SubSeq(history, 1, n)) = n
  BY <1>1, SubSeqProperties, LenProperties
<1>3. SubSeq(history, 1, n) \in [1..n -> Report]
  BY <1>2, LenProperties
<1>4. SubSeq(history, 1, n) \in Runs
  BY <1>1, <1>3 DEF Runs
<1> DEFINE run == SubSeq(history, 1, n)
<1> HIDE DEF run
<1>5. run \in Runs
  BY <1>4 DEF run
<1>6. \E f \in Families, r \in Runs, v \in Values.provenance \cup Receipts :
        [family |-> family, run |-> run, value |-> value] = [family |-> f, run |-> r, value |-> v]
  BY <1>5
<1>7. [family |-> family, run |-> run, value |-> value] \in Record
  BY <1>6 DEF Record
<1> QED
  BY <1>7 DEF run

(* One file changes, and no other.                                         *)
LEMMA SetFileFacts ==
  ASSUME ShapeInv, NEW r \in Record, NEW new \in File, SetFile(r, new)
  PROVE  /\ file' \in [Families -> [Index -> File]]
         /\ file'[r.family][Position(r)] = new
         /\ \A f \in Families, n \in Index :
              f # r.family \/ n # Position(r) => file'[f][n] = file[f][n]
<1>1. r.family \in Families /\ Position(r) \in Index
  BY RecordPlace
<1> QED
  BY <1>1 DEF ShapeInv, SetFile

(* A call ends, or takes its next step, and no file changes.               *)
LEMMA CallStep ==
  ASSUME IInv, NEW w \in Writers, UNCHANGED <<log, stable, acked, file>>,
         NEW where \in {"idle", "load", "create"},
         pc' = [pc EXCEPT ![w] = where],
         \/ where # "idle" /\ pc[w] # "idle" /\ UNCHANGED <<handle, job>>
         \/ where = "idle" /\ handle' = [handle EXCEPT ![w] = <<>>]
                           /\ job' = [job EXCEPT ![w] = NoJob]
  PROVE  IInv' /\ Stays
<1>1. ShapeInv'
  <2>1. <<>> \in Seq(Report)
    BY EmptySeq
  <2> QED
    BY <2>1 DEF IInv, ShapeInv
<1>2. WritersInv'
  BY DEF IInv, ShapeInv, WritersInv, Writing, At, SamePlace, Position
<1>3. LogInv'
  BY DEF IInv, LogInv
<1>4. CapturedInv'
  BY DEF IInv, ShapeInv, CapturedInv, Grounded
<1>5. Stays
  BY DEF Stays
<1> QED
  BY <1>1, <1>2, <1>3, <1>4, <1>5 DEF IInv

(* DiagnosticHistory::open                                                 *)
LEMMA OpenStep ==
  ASSUME IInv, NEW w \in Writers, Open(w)
  PROVE  IInv' /\ Stays
<1> USE DEF Open, logVars
<1>1. ShapeInv'
  BY DEF IInv, ShapeInv, LogInv
<1>2. WritersInv'
  BY DEF IInv, WritersInv, Writing, At, SamePlace, Position
<1>3. LogInv' /\ CapturedInv'
  BY DEF IInv, LogInv, CapturedInv, Grounded
<1> QED
  BY <1>1, <1>2, <1>3 DEF IInv, Stays

(* A call begins, with a record that is grounded.                          *)
LEMMA BeginStep ==
  ASSUME IInv, NEW w \in Writers, UNCHANGED <<log, stable, acked, file>>,
         NEW r \in Record, Grounded(r), NEW where \in {"exists", "create"}, Begin(w, r, where)
  PROVE  IInv' /\ Stays
<1> USE DEF Begin
<1>1. ShapeInv'
  BY DEF IInv, ShapeInv
<1>2. WritersInv'
  BY DEF IInv, ShapeInv, WritersInv, Writing, At, SamePlace, Position
<1>3. LogInv' /\ CapturedInv'
  BY DEF IInv, ShapeInv, LogInv, CapturedInv, Grounded
<1> QED
  BY <1>1, <1>2, <1>3 DEF IInv, Stays

(* GitProvenanceRecord::persist: a scan binds what its append acknowledged. *)
LEMMA PersistProvenanceStep ==
  ASSUME IInv, NEW w \in Writers, NEW n \in Targets, NEW value \in Values.provenance,
         PersistProvenance(w, value, n)
  PROVE  IInv' /\ Stays
<1> DEFINE r == Provenance(handle[w], n, value)
<1>1. handle[w] \in Seq(Report) /\ n \in 1..Len(handle[w])
  BY DEF IInv, ShapeInv, PersistProvenance, Eligible
<1>2. r \in Record
  <2>1. "provenance" \in Families
    BY DEF Families
  <2> QED
    BY <1>1, <2>1, NewRecord DEF Provenance
<1>3. Grounded(r)
  <2>1. r.run = SubSeq(handle[w], 1, n) /\ r.value = value
    BY DEF Provenance
  <2>2. value = "captured" => SubSeq(handle[w], 1, n) \in acked
    BY DEF PersistProvenance, Eligible
  <2> HIDE DEF r
  <2> QED
    BY <2>1, <2>2 DEF Grounded, IInv, LogInv
<1>4. Begin(w, r, "exists") /\ UNCHANGED <<log, stable, acked, file>>
  BY DEF PersistProvenance, logVars
<1> HIDE DEF r
<1> QED
  BY <1>2, <1>3, <1>4, BeginStep

(* record_remediation_evidence: a receipt is not a capture.                *)
LEMMA RecordEvidenceStep ==
  ASSUME IInv, NEW w \in Writers, NEW n \in Targets, NEW receipt \in Receipts,
         RecordEvidence(w, receipt, n)
  PROVE  IInv' /\ Stays
<1> DEFINE r == Evidence(handle[w], n, receipt)
<1>1. handle[w] \in Seq(Report) /\ n \in 1..Len(handle[w])
  <2>1. handle[w] \in Seq(Report) /\ n \in 2..Len(handle[w])
    BY DEF IInv, ShapeInv, RecordEvidence
  <2> QED
    BY <2>1, LenProperties
<1>2. r \in Record
  <2>1. "evidence" \in Families
    BY DEF Families
  <2> QED
    BY <1>1, <2>1, NewRecord DEF Evidence
<1>3. Grounded(r)
  <2>1. r.value = receipt
    BY DEF Evidence
  <2>2. receipt # "captured"
    BY SidecarsAssumption DEF Values
  <2> HIDE DEF r
  <2> QED
    BY <2>1, <2>2 DEF Grounded
<1>4. Begin(w, r, "create") /\ UNCHANGED <<log, stable, acked, file>>
  BY DEF RecordEvidence, logVars
<1> HIDE DEF r
<1> QED
  BY <1>2, <1>3, <1>4, BeginStep

-----------------------------------------------------------------------------
(* The steps that write a file                                             *)

(* create_new: where there is no file, nobody is writing one.              *)
LEMMA CreateFileStep ==
  ASSUME IInv, NEW w \in Writers, CreateFile(w)
  PROVE  IInv' /\ Stays
<1> DEFINE r == job[w]
           new == [content |-> Torn, synced |-> FALSE, named |-> FALSE]
<1>1. r \in Record /\ pc[w] = "create" /\ At(r).content = NoContent
  BY DEF IInv, ShapeInv, CreateFile, NameIsFree
<1>2. r.family \in Families /\ Position(r) \in Index
  BY <1>1, RecordPlace
<1>3. new \in File
  BY DEF File, Content
<1>4. /\ file' \in [Families -> [Index -> File]]
      /\ file'[r.family][Position(r)] = new
      /\ \A f \in Families, n \in Index :
           f # r.family \/ n # Position(r) => file'[f][n] = file[f][n]
  BY <1>1, <1>3, SetFileFacts DEF IInv, CreateFile
<1>5. pc' = [pc EXCEPT ![w] = "write"] /\ UNCHANGED <<handle, job, log, stable, acked>>
  BY DEF CreateFile, Goto, logVars
<1>6. ShapeInv'
  BY <1>1, <1>4, <1>5 DEF IInv, ShapeInv
<1>7. ASSUME NEW v \in Writers, v # w, Writing(v)
      PROVE  ~SamePlace(job[v], r)
  BY <1>1, <1>7, ContentKinds DEF IInv, ShapeInv, WritersInv, Writing, SamePlace, At
<1>8. WritersInv'
  <2>1. ASSUME NEW v \in Writers
        PROVE  /\ pc'[v] = "write" => At(job[v])'.content = Torn
               /\ pc'[v] \in {"sync", "directory"} => At(job[v])'.content = job[v]
               /\ pc'[v] = "directory" => job[v].family = "provenance"
    <3>1. CASE v = w
      BY <1>4, <1>5, <3>1 DEF IInv, ShapeInv, At, Position
    <3>2. CASE v # w /\ Writing(v)
      <4>1. job[v] \in Record
        BY <3>2 DEF IInv, ShapeInv, Writing
      <4>2. At(job[v])' = At(job[v])
        BY <1>4, <1>5, <1>7, <3>2, <4>1, RecordPlace DEF SamePlace, At, Position
      <4> QED
        BY <1>5, <3>2, <4>2 DEF IInv, ShapeInv, WritersInv
    <3>3. CASE v # w /\ ~Writing(v)
      BY <1>5, <3>3 DEF IInv, ShapeInv, Writing
    <3> QED
      BY <3>1, <3>2, <3>3
  <2>2. ASSUME NEW u \in Writers, NEW v \in Writers, u # v, Writing(u)', Writing(v)'
        PROVE  ~SamePlace(job[u], job[v])
    BY <1>5, <1>7, <2>2 DEF IInv, ShapeInv, WritersInv, Writing, SamePlace
  <2> QED
    BY <1>5, <2>1, <2>2 DEF WritersInv, SamePlace, Position, At
<1>9. LogInv' /\ CapturedInv'
  <2>1. \A content : Grounded(content) => Grounded(content)'
    BY <1>5 DEF Grounded
  <2>2. ASSUME NEW f \in Families, NEW n \in Index
        PROVE  Grounded(file[f][n].content)'
    <3>1. CASE f = r.family /\ n = Position(r)
      BY <1>4, <3>1, ContentKinds DEF Grounded
    <3>2. CASE f # r.family \/ n # Position(r)
      BY <1>4, <2>1, <3>2 DEF IInv, CapturedInv, Grounded
    <3> QED
      BY <3>1, <3>2
  <2>3. ASSUME NEW v \in Writers, pc'[v] # "idle"
        PROVE  Grounded(job[v])'
    BY <1>1, <1>5, <2>1, <2>3 DEF IInv, ShapeInv, CapturedInv, Grounded
  <2> QED
    BY <1>5, <2>2, <2>3 DEF IInv, LogInv, CapturedInv
<1>10. Stays
  BY <1>1, <1>4 DEF Stays, Whole, At
<1> QED
  BY <1>6, <1>8, <1>9, <1>10 DEF IInv

(* A writer changes the file it created, and goes on or returns.           *)
LEMMA OwnerStep ==
  ASSUME IInv, NEW w \in Writers, Writing(w), UNCHANGED <<log, stable, acked>>,
         NEW new \in File, SetFile(job[w], new), Grounded(new.content),
         NEW where \in {"idle", "sync", "directory"}, pc' = [pc EXCEPT ![w] = where],
         where = "directory" => job[w].family = "provenance",
         \/ where # "idle" /\ new.content = job[w] /\ UNCHANGED <<handle, job>>
         \/ where = "idle" /\ handle' = [handle EXCEPT ![w] = <<>>]
                           /\ job' = [job EXCEPT ![w] = NoJob]
  PROVE  IInv'
<1> DEFINE r == job[w]
<1>1. r \in Record
  BY DEF IInv, ShapeInv, Writing
<1>2. r.family \in Families /\ Position(r) \in Index
  BY <1>1, RecordPlace
<1>3. /\ file' \in [Families -> [Index -> File]]
      /\ file'[r.family][Position(r)] = new
      /\ \A f \in Families, n \in Index :
           f # r.family \/ n # Position(r) => file'[f][n] = file[f][n]
  BY <1>1, SetFileFacts DEF IInv
<1>4. ShapeInv'
  <2>1. <<>> \in Seq(Report)
    BY EmptySeq
  <2> QED
    BY <1>1, <1>3, <2>1 DEF IInv, ShapeInv
<1>5. ASSUME NEW v \in Writers, v # w
      PROVE  /\ pc'[v] = pc[v] /\ job'[v] = job[v]
             /\ Writing(v) => ~SamePlace(job[v], r) /\ At(job[v])' = At(job[v])
  <2>1. pc'[v] = pc[v] /\ job'[v] = job[v]
    BY <1>5 DEF IInv, ShapeInv
  <2>2. ASSUME Writing(v)
        PROVE  ~SamePlace(job[v], r) /\ At(job[v])' = At(job[v])
    <3>1. ~SamePlace(job[v], r)
      BY <1>5, <2>2 DEF IInv, WritersInv
    <3>2. job[v] \in Record
      BY <2>2 DEF IInv, ShapeInv, Writing
    <3> QED
      BY <1>3, <2>1, <3>1, <3>2, RecordPlace DEF SamePlace, At, Position
  <2> QED
    BY <2>1, <2>2
<1>6. WritersInv'
  <2>1. ASSUME NEW v \in Writers
        PROVE  /\ pc'[v] = "write" => At(job[v])'.content = Torn
               /\ pc'[v] \in {"sync", "directory"} => At(job[v])'.content = job'[v]
               /\ pc'[v] = "directory" => job'[v].family = "provenance"
    <3>1. CASE v = w
      BY <1>3, <3>1 DEF IInv, ShapeInv, At, Position
    <3>2. CASE v # w
      BY <1>5, <3>2 DEF IInv, WritersInv, Writing
    <3> QED
      BY <3>1, <3>2
  <2>2. ASSUME NEW u \in Writers, NEW v \in Writers, u # v, Writing(u)', Writing(v)'
        PROVE  ~SamePlace(job'[u], job'[v])
    <3>1. Writing(u) /\ job'[u] = job[u]
      BY <2>2 DEF IInv, ShapeInv, Writing
    <3>2. Writing(v) /\ job'[v] = job[v]
      BY <2>2 DEF IInv, ShapeInv, Writing
    <3> QED
      BY <2>2, <3>1, <3>2 DEF IInv, WritersInv
  <2> QED
    BY <2>1, <2>2 DEF WritersInv, SamePlace, Position, At
<1>7. LogInv' /\ CapturedInv'
  <2>1. \A content : Grounded(content) => Grounded(content)'
    BY DEF Grounded
  <2>2. ASSUME NEW f \in Families, NEW n \in Index
        PROVE  Grounded(file[f][n].content)'
    <3>1. CASE f = r.family /\ n = Position(r)
      BY <1>3, <3>1 DEF Grounded
    <3>2. CASE f # r.family \/ n # Position(r)
      BY <1>3, <2>1, <3>2 DEF IInv, CapturedInv, Grounded
    <3> QED
      BY <3>1, <3>2
  <2>3. ASSUME NEW v \in Writers, pc'[v] # "idle"
        PROVE  Grounded(job[v])'
    <3>1. pc[v] # "idle" /\ job'[v] = job[v]
      BY <2>3 DEF IInv, ShapeInv, Writing
    <3> QED
      BY <3>1 DEF IInv, CapturedInv, Grounded
  <2> QED
    BY <2>2, <2>3 DEF IInv, LogInv, CapturedInv
<1> QED
  BY <1>4, <1>6, <1>7 DEF IInv

(* What a writer's file is, as the steps below cite it.                    *)
LEMMA OwnFile ==
  ASSUME IInv, NEW w \in Writers, Writing(w)
  PROVE  /\ job[w] \in Record /\ Grounded(job[w]) /\ At(job[w]) \in File
         /\ \A new \in File : SetFile(job[w], new) =>
              /\ file'[job[w].family][Position(job[w])] = new
              /\ \A f \in Families, n \in Index :
                   f # job[w].family \/ n # Position(job[w]) => file'[f][n] = file[f][n]
<1>1. job[w] \in Record /\ Grounded(job[w])
  BY DEF IInv, ShapeInv, CapturedInv, Writing
<1>2. At(job[w]) \in File
  BY <1>1, RecordPlace DEF IInv, ShapeInv, At
<1> QED
  BY <1>1, <1>2, SetFileFacts DEF IInv

(* write_all: over what is torn.                                           *)
LEMMA WriteFileStep ==
  ASSUME IInv, NEW w \in Writers, WriteFile(w)
  PROVE  IInv' /\ Stays
<1> DEFINE new == [At(job[w]) EXCEPT !.content = job[w]]
<1>1. Writing(w) /\ At(job[w]).content = Torn
  BY DEF WriteFile, Writing, IInv, WritersInv
<1>2. new \in File /\ new.content = job[w] /\ Grounded(new.content)
  BY <1>1, OwnFile DEF File, Content
<1>3. SetFile(job[w], new)
  BY DEF WriteFile
<1> HIDE DEF new
<1>4. IInv'
  BY <1>1, <1>2, <1>3, OwnerStep DEF WriteFile, Goto, logVars
<1>5. Stays
  BY <1>1, <1>2, <1>3, OwnFile DEF Stays, Whole, At
<1> QED
  BY <1>4, <1>5

(* sync_all changes no content.                                            *)
LEMMA SyncFileStep ==
  ASSUME IInv, NEW w \in Writers, SyncFile(w)
  PROVE  IInv' /\ Stays
<1> DEFINE new == [At(job[w]) EXCEPT !.synced = TRUE]
<1>1. Writing(w) /\ At(job[w]).content = job[w]
  BY DEF SyncFile, Writing, IInv, WritersInv
<1>2. new \in File /\ new.content = job[w] /\ Grounded(new.content)
  BY <1>1, OwnFile DEF File
<1>3. SetFile(job[w], new)
  BY DEF SyncFile
<1> HIDE DEF new
<1>4. IInv'
  <2>1. CASE job[w].family = "evidence"
    BY <1>1, <1>2, <1>3, <2>1, OwnerStep DEF SyncFile, Ok, Return, logVars
  <2>2. CASE job[w].family # "evidence"
    <3>1. job[w].family = "provenance"
      BY <1>1, <2>2, OwnFile DEF Record, Families
    <3> QED
      BY <1>1, <1>2, <1>3, <2>2, <3>1, OwnerStep DEF SyncFile, Goto, logVars
  <2> QED
    BY <2>1, <2>2
<1>5. Stays
  BY <1>1, <1>2, <1>3, OwnFile DEF Stays, Whole, At
<1> QED
  BY <1>4, <1>5

(* sync_directory changes no content.                                      *)
LEMMA SyncDirectoryStep ==
  ASSUME IInv, NEW w \in Writers, SyncDirectory(w)
  PROVE  IInv' /\ Stays
<1>1. job[w] \in Record /\ job[w].family \in Families /\ pc[w] = "directory"
  BY RecordPlace DEF IInv, ShapeInv, SyncDirectory
<1>2. /\ file' \in [Families -> [Index -> File]]
      /\ \A f \in Families, n \in Index : file'[f][n].content = file[f][n].content
  <2> DEFINE g == job[w].family
             named == [n \in Index |-> [file[g][n] EXCEPT !.named = TRUE]]
  <2>1. ASSUME NEW n \in Index
        PROVE  named[n] \in File /\ named[n].content = file[g][n].content
    <3>1. file[g][n] \in File
      BY <1>1 DEF IInv, ShapeInv
    <3> QED
      BY <3>1 DEF File
  <2>2. named \in [Index -> File]
    BY <2>1
  <2>3. file' = [file EXCEPT ![g] = named]
    BY DEF SyncDirectory, NamesSynced
  <2> HIDE DEF named
  <2> QED
    BY <1>1, <2>1, <2>2, <2>3 DEF IInv, ShapeInv
<1>3. /\ pc' = [pc EXCEPT ![w] = "idle"] /\ handle' = [handle EXCEPT ![w] = <<>>]
      /\ job' = [job EXCEPT ![w] = NoJob] /\ UNCHANGED <<log, stable, acked>>
  BY DEF SyncDirectory, Ok, Return, logVars
<1>4. ShapeInv'
  <2>1. <<>> \in Seq(Report)
    BY EmptySeq
  <2> QED
    BY <1>2, <1>3, <2>1 DEF IInv, ShapeInv
<1>5. WritersInv'
  <2>1. ASSUME NEW v \in Writers, Writing(v)'
        PROVE  /\ v # w /\ Writing(v) /\ pc'[v] = pc[v] /\ job'[v] = job[v]
               /\ At(job[v])'.content = At(job[v]).content
    <3>1. v # w /\ Writing(v) /\ pc'[v] = pc[v] /\ job'[v] = job[v]
      BY <1>3, <2>1 DEF IInv, ShapeInv, Writing
    <3>2. job[v] \in Record
      BY <3>1 DEF IInv, ShapeInv, Writing
    <3> QED
      BY <1>2, <3>1, <3>2, RecordPlace DEF At, Position
  <2> QED
    BY <2>1 DEF IInv, WritersInv, Writing, SamePlace, Position, At
<1>6. LogInv' /\ CapturedInv'
  BY <1>2, <1>3 DEF IInv, ShapeInv, LogInv, CapturedInv, Grounded
<1>7. Stays
  BY <1>2 DEF Stays
<1> QED
  BY <1>4, <1>5, <1>6, <1>7 DEF IInv

(* A failure: evidence takes its file away, or leaves it as provenance     *)
(* does.                                                                   *)
LEMMA FailStep ==
  ASSUME IInv, NEW w \in Writers, Fail(w)
  PROVE  IInv' /\ Stays
<1>1. Writing(w) /\ UNCHANGED <<log, stable, acked>>
  BY DEF Fail, Writing, logVars
<1>2. /\ pc' = [pc EXCEPT ![w] = "idle"] /\ handle' = [handle EXCEPT ![w] = <<>>]
      /\ job' = [job EXCEPT ![w] = NoJob]
  BY DEF Fail, Err, Return
<1>3. CASE UNCHANGED file
  BY <1>1, <1>2, <1>3, CallStep
<1>4. CASE job[w].family = "evidence" /\ SetFile(job[w], NoFile)
  <2>1. NoFile \in File /\ NoFile.content = NoContent
    BY DEF NoFile, File, Content
  <2>2. Grounded(NoFile.content)
    BY <2>1, ContentKinds DEF Grounded
  <2>3. IInv'
    BY <1>1, <1>2, <1>4, <2>1, <2>2, OwnerStep
  <2>4. Stays
    <3>1. ASSUME NEW f \in Families, NEW n \in Index, Whole(file[f][n].content),
                 file'[f][n].content # file[f][n].content
          PROVE  /\ file'[f][n] = NoFile /\ f = "evidence"
                 /\ pc[w] = "sync" /\ job[w] = file[f][n].content
      <4>1. f = job[w].family /\ n = Position(job[w]) /\ file'[f][n] = NoFile
        BY <1>1, <1>4, <2>1, <3>1, OwnFile
      <4>2. pc[w] # "write"
        BY <3>1, <4>1 DEF IInv, WritersInv, At, Whole
      <4>3. pc[w] # "directory"
        BY <1>4 DEF IInv, WritersInv
      <4>4. pc[w] = "sync"
        BY <1>1, <4>2, <4>3 DEF Writing
      <4> QED
        BY <1>4, <4>1, <4>4 DEF IInv, WritersInv, At
    <3> QED
      BY <3>1 DEF Stays
  <2> QED
    BY <2>3, <2>4
<1> QED
  BY <1>3, <1>4 DEF Fail

-----------------------------------------------------------------------------
(* Steps of the history                                                    *)

(* What is durable stays a prefix of what is.                              *)
LEMMA LogStep ==
  ASSUME LogInv, Log!Commit \/ Log!Harden \/ Log!Acknowledge \/ Log!LosePower
  PROVE  LogInv' /\ IsPrefix(stable, stable')
<1> USE PrefixOrder, AppendFacts DEF LogInv
<1>1. CASE Log!Commit
  <2>1. PICK r \in Report : log' = Append(log, r)
    BY <1>1 DEF Log!Commit
  <2>2. UNCHANGED <<stable, acked>>
    BY <1>1 DEF Log!Commit
  <2>3. log' \in Seq(Report) /\ IsPrefix(log, log')
    BY <2>1
  <2> QED
    BY <2>2, <2>3
<1>2. CASE Log!Harden
  BY <1>2 DEF Log!Harden
<1>3. CASE Log!Acknowledge
  <2>1. PICK n \in 1..Len(log) : acked' = acked \cup {SubSeq(log, 1, n)}
    BY <1>3 DEF Log!Acknowledge
  <2>2. stable' = log /\ log' = log
    BY <1>3 DEF Log!Acknowledge
  <2>3. SubSeq(log, 1, n) \in Seq(Report) /\ IsPrefix(SubSeq(log, 1, n), log)
    OBVIOUS
  <2> QED
    BY <2>1, <2>2, <2>3
<1>4. CASE Log!LosePower
  BY <1>4 DEF Log!LosePower
<1> QED
  BY <1>1, <1>2, <1>3, <1>4

(* What was grounded stays grounded while the durable part grows.          *)
LEMMA GroundedStays ==
  ASSUME LogInv, LogInv', IsPrefix(stable, stable'), NEW content, Grounded(content)
  PROVE  Grounded(content)'
<1>1. CASE content \in Record
  BY <1>1, RecordPlace, PrefixOrder DEF LogInv, Grounded
<1>2. CASE content \notin Record
  BY <1>2 DEF Grounded
<1> QED
  BY <1>1, <1>2

(* A run is appended, the directory synchronised: no record changes.       *)
LEMMA HistoryStep ==
  ASSUME IInv, AppendRun \/ SyncHistory
  PROVE  IInv' /\ Stays
<1>1. UNCHANGED <<file, pc, handle, job>>
  BY DEF AppendRun, SyncHistory
<1>2. LogInv' /\ IsPrefix(stable, stable')
  BY LogStep DEF AppendRun, SyncHistory, IInv
<1>3. ShapeInv' /\ WritersInv'
  BY <1>1 DEF IInv, ShapeInv, WritersInv, Writing, SamePlace, Position, At
<1>4. CapturedInv'
  BY <1>1, <1>2, GroundedStays DEF IInv, CapturedInv
<1>5. Stays
  BY <1>1 DEF Stays
<1> QED
  BY <1>2, <1>3, <1>4, <1>5 DEF IInv

(* Power is lost: a file is what it was, torn, or gone, and no call lives. *)
LEMMA LosePowerStep ==
  ASSUME IInv, LosePower
  PROVE  IInv'
<1>1. LogInv' /\ IsPrefix(stable, stable')
  BY LogStep DEF LosePower, IInv
<1>2. /\ pc' = [w \in Writers |-> "idle"] /\ handle' = [w \in Writers |-> <<>>]
      /\ job' = [w \in Writers |-> NoJob]
  BY DEF LosePower
<1>3. ASSUME NEW f \in Families, NEW n \in Index, NEW left \in Outcomes(file[f][n]) \cup {NoFile}
      PROVE  /\ left \in File
             /\ left.content \in {file[f][n].content, Torn, NoContent}
  <2>1. file[f][n] \in File
    BY DEF IInv, ShapeInv
  <2>2. NoFile \in File /\ NoFile.content = NoContent
    BY DEF NoFile, File, Content
  <2>3. \A c \in {file[f][n].content, Torn} :
          [NoFile EXCEPT !.content = c] \in File /\ [NoFile EXCEPT !.content = c].content = c
    BY <2>1 DEF NoFile, File, Content
  <2> QED
    BY <2>2, <2>3 DEF Outcomes
<1>4. ASSUME NEW f \in Families, NEW n \in Index
      PROVE  file'[f][n] \in Outcomes(file[f][n]) \cup {NoFile}
  BY DEF LosePower
<1>5. file' \in [Families -> [Index -> File]]
  <2>1. file' \in [Families -> [Index -> Leftovers]]
    BY DEF LosePower
  <2>2. \A f \in Families, n \in Index : file'[f][n] \in File
    BY <1>3, <1>4
  <2> QED
    BY <2>1, <2>2
<1>6. ShapeInv'
  <2>1. <<>> \in Seq(Report)
    BY EmptySeq
  <2> QED
    BY <1>2, <1>5, <2>1 DEF ShapeInv
<1>7. WritersInv'
  BY <1>2 DEF WritersInv, Writing
<1>8. CapturedInv'
  <2>1. ASSUME NEW f \in Families, NEW n \in Index
        PROVE  Grounded(file[f][n].content)'
    <3>1. file'[f][n].content \in {file[f][n].content, Torn, NoContent}
      BY <1>3, <1>4
    <3>2. Grounded(file[f][n].content) /\ Grounded(Torn) /\ Grounded(NoContent)
      BY ContentKinds DEF IInv, CapturedInv, Grounded
    <3> QED
      BY <1>1, <3>1, <3>2, GroundedStays DEF IInv, Grounded
  <2> QED
    BY <1>2, <2>1 DEF CapturedInv
<1> QED
  BY <1>1, <1>6, <1>7, <1>8 DEF IInv

-----------------------------------------------------------------------------
(* The theorems                                                            *)

(* An empty history and no record.                                         *)
LEMMA InitIInv == Init => IInv
<1> SUFFICES ASSUME Init PROVE IInv
  OBVIOUS
<1> USE DEF Init
<1>1. <<>> \in Seq(Report) /\ IsPrefix(<<>>, <<>>)
  BY EmptySeq, PrefixOrder
<1>2. NoFile \in File /\ NoFile.content = NoContent
  BY DEF NoFile, File, Content
<1>3. ShapeInv
  BY <1>1, <1>2 DEF ShapeInv
<1>4. WritersInv
  BY DEF WritersInv, Writing
<1>5. LogInv
  BY <1>1 DEF LogInv, Log!Init
<1>6. CapturedInv
  BY <1>2, ContentKinds DEF CapturedInv, Grounded
<1> QED
  BY <1>3, <1>4, <1>5, <1>6 DEF IInv

(* What writers do.                                                        *)
LEMMA WriterStep ==
  ASSUME IInv, NEW w \in Writers, Step(w)
  PROVE  IInv' /\ Stays
<1>1. CASE Open(w)
  BY <1>1, OpenStep
<1>2. ASSUME NEW n \in Targets, NEW value \in Values.provenance, PersistProvenance(w, value, n)
      PROVE  IInv' /\ Stays
  BY <1>2, PersistProvenanceStep
<1>3. ASSUME NEW n \in Targets, NEW receipt \in Receipts, RecordEvidence(w, receipt, n)
      PROVE  IInv' /\ Stays
  BY <1>3, RecordEvidenceStep
<1>4. CASE CheckExists(w)
  BY <1>4, CallStep DEF CheckExists, Goto, logVars
<1>5. CASE LoadExisting(w)
  BY <1>5, CallStep DEF LoadExisting, Ok, Err, Return, logVars
<1>6. CASE CreateFile(w)
  BY <1>6, CreateFileStep
<1>7. CASE NameTaken(w)
  BY <1>7, CallStep DEF NameTaken, Goto, Err, Return, logVars
<1>8. CASE WriteFile(w)
  BY <1>8, WriteFileStep
<1>9. CASE SyncFile(w)
  BY <1>9, SyncFileStep
<1>10. CASE SyncDirectory(w)
  BY <1>10, SyncDirectoryStep
<1>11. CASE Fail(w)
  BY <1>11, FailStep
<1>12. CASE Die(w)
  BY <1>12, CallStep DEF Die, Err, Return, logVars
<1> QED
  BY <1>1, <1>2, <1>3, <1>4, <1>5, <1>6, <1>7, <1>8, <1>9, <1>10, <1>11, <1>12 DEF Step

(* Every step.                                                             *)
LEMMA NextIInv == IInv /\ [Next]_vars => IInv' /\ [~LosePower => Stays]_vars
<1> SUFFICES ASSUME IInv, [Next]_vars PROVE IInv' /\ [~LosePower => Stays]_vars
  OBVIOUS
<1>1. CASE UNCHANGED vars
  <2>1. ShapeInv' /\ WritersInv' /\ LogInv' /\ CapturedInv'
    BY <1>1 DEF IInv, ShapeInv, WritersInv, LogInv, CapturedInv, Grounded, Writing, SamePlace,
                Position, At, vars
  <2> QED
    BY <1>1, <2>1 DEF IInv
<1>2. CASE \E w \in Writers : Step(w)
  BY <1>2, WriterStep
<1>3. CASE AppendRun \/ SyncHistory
  BY <1>3, HistoryStep
<1>4. CASE LosePower
  BY <1>4, LosePowerStep
<1> QED
  BY <1>1, <1>2, <1>3, <1>4 DEF Next

(* A complete record is never written over (src/git_provenance.rs,         *)
(* persist; src/remediation_evidence.rs, persist_record): whatever calls   *)
(* race, fail or die, it stays, or its own evidence writer takes it away.  *)
THEOREM RecordsAreKept == Spec => RecordsStay
  BY InitIInv, NextIInv, PTL DEF Spec, RecordsStay, Stays

(* The record a scan captured is of a run of the history, whatever power   *)
(* losses take of either (src/git_provenance.rs; src/bin/diagprint.rs, the *)
(* order of append and bind in run_scan).                                  *)
THEOREM CapturedRunsAreKept == Spec => []CapturedHasItsRun
<1>1. IInv => CapturedHasItsRun
  <2> SUFFICES ASSUME IInv, NEW n \in Index, Whole(file.provenance[n].content),
                      file.provenance[n].content.value = "captured"
               PROVE  IsPrefix(file.provenance[n].content.run, log)
    BY DEF CapturedHasItsRun
  <2> DEFINE r == file["provenance"][n].content
  <2>1. "provenance" \in Families
    BY DEF Families
  <2>2. r \in Content /\ Grounded(r)
    BY <2>1 DEF IInv, ShapeInv, CapturedInv, File
  <2>3. r \in Record /\ r.value = "captured"
    BY <2>2, ContentKinds
  <2>4. IsPrefix(r.run, stable) /\ r.run \in Seq(Report)
    BY <2>2, <2>3, RecordPlace DEF Grounded
  <2> QED
    BY <2>4, PrefixOrder DEF IInv, LogInv
<1> QED
  BY InitIInv, NextIInv, <1>1, PTL DEF Spec

-----------------------------------------------------------------------------
(* What calls answered                                                     *)

(* A record a call reported as persisted: it is there, if the call created *)
(* it or it is provenance.  Nobody writes at the place of a call that      *)
(* created it, and provenance is then durable up to its directory.         *)
Kept(r, creator) ==
  /\ r \in Record
  /\ creator \/ r.family = "provenance" => At(r).content = r
  /\ creator =>
       /\ \A v \in Writers : Writing(v) => ~SamePlace(job[v], r)
       /\ r.family = "provenance" => At(r).synced /\ At(r).named

AnsweredInv ==
  /\ \A w \in Writers : pc[w] = "directory" => At(job[w]).synced
  /\ \A a \in answered : a.creator \in BOOLEAN /\ Kept(a.record, a.creator)

(* Who writes after a step of w wrote before, or is w, where no file was.  *)
LEMMA NewWriting ==
  ASSUME IInv, NEW w \in Writers, Step(w), NEW v \in Writers, Writing(v)'
  PROVE  /\ job'[v] = job[v] /\ job[v] \in Record
         /\ \/ Writing(v)
            \/ v = w /\ At(job[w]).content = NoContent
<1> USE DEF Writing, IInv, ShapeInv
<1>1. CASE v # w
  <2>1. pc'[v] = pc[v] /\ job'[v] = job[v]
    BY <1>1
       DEF Step, Open, PersistProvenance, RecordEvidence, Begin, CheckExists, LoadExisting,
         CreateFile, NameTaken, WriteFile, SyncFile, SyncDirectory, Fail, Die, Goto, Ok, Err,
         Return
  <2> QED
    BY <2>1
<1>2. CASE v = w
  <2>1. CreateFile(w) \/ WriteFile(w) \/ SyncFile(w)
    <3>1. ~Open(w)
      BY <1>2 DEF Open
    <3>2. /\ \A n, value : ~PersistProvenance(w, value, n)
          /\ \A n, receipt : ~RecordEvidence(w, receipt, n)
      BY <1>2 DEF PersistProvenance, RecordEvidence, Begin
    <3>3. ~CheckExists(w) /\ ~LoadExisting(w) /\ ~NameTaken(w)
      BY <1>2 DEF CheckExists, LoadExisting, NameTaken, Goto, Ok, Err, Return
    <3>4. ~SyncDirectory(w) /\ ~Fail(w) /\ ~Die(w)
      BY <1>2 DEF SyncDirectory, Fail, Die, Ok, Err, Return
    <3> QED
      BY <3>1, <3>2, <3>3, <3>4 DEF Step
  <2>2. job'[w] = job[w]
    BY <1>2, <2>1 DEF CreateFile, WriteFile, SyncFile, Goto, Ok, Return
  <2>3. Writing(w) \/ CreateFile(w)
    BY <2>1 DEF WriteFile, SyncFile
  <2>4. job[w] \in Record
    BY <2>1 DEF CreateFile, WriteFile, SyncFile
  <2> QED
    BY <1>2, <2>2, <2>3, <2>4 DEF CreateFile, NameIsFree
<1> QED
  BY <1>1, <1>2

(* A step changes a file where it writes, where there is none, or by       *)
(* making names durable.                                                   *)
LEMMA FileChange ==
  ASSUME IInv, NEW w \in Writers, Step(w), NEW f \in Families, NEW n \in Index
  PROVE  \/ file'[f][n] = file[f][n]
         \/ Writing(w) /\ job[w].family = f /\ Position(job[w]) = n
         \/ file[f][n].content = NoContent
         \/ file'[f][n] = [file[f][n] EXCEPT !.named = TRUE]
<1>1. CASE UNCHANGED file
  BY <1>1
<1>2. ASSUME NEW new \in File, Writing(w), SetFile(job[w], new)
      PROVE  file'[f][n] = file[f][n] \/ (job[w].family = f /\ Position(job[w]) = n)
  BY <1>2, OwnFile
<1>3. CASE CreateFile(w)
  <2>1. job[w] \in Record /\ At(job[w]).content = NoContent
    BY <1>3 DEF IInv, ShapeInv, CreateFile, NameIsFree
  <2>2. [content |-> Torn, synced |-> FALSE, named |-> FALSE] \in File
    BY DEF File, Content
  <2>3. file'[f][n] = file[f][n] \/ (job[w].family = f /\ Position(job[w]) = n)
    BY <1>3, <2>1, <2>2, SetFileFacts DEF IInv, CreateFile
  <2> QED
    BY <2>1, <2>3 DEF At
<1>4. CASE WriteFile(w)
  <2>1. Writing(w)
    BY <1>4 DEF WriteFile, Writing
  <2>2. [At(job[w]) EXCEPT !.content = job[w]] \in File
    BY <2>1, OwnFile DEF File, Content
  <2> QED
    BY <1>2, <1>4, <2>1, <2>2 DEF WriteFile
<1>5. CASE SyncFile(w)
  <2>1. Writing(w)
    BY <1>5 DEF SyncFile, Writing
  <2>2. [At(job[w]) EXCEPT !.synced = TRUE] \in File
    BY <2>1, OwnFile DEF File
  <2> QED
    BY <1>2, <1>5, <2>1, <2>2 DEF SyncFile
<1>6. CASE SyncDirectory(w)
  <2>1. job[w].family \in Families
    BY <1>6, RecordPlace DEF IInv, ShapeInv, SyncDirectory
  <2> QED
    BY <1>6, <2>1 DEF IInv, ShapeInv, SyncDirectory, NamesSynced
<1>7. CASE Fail(w)
  <2>1. Writing(w) /\ (UNCHANGED file \/ SetFile(job[w], NoFile))
    BY <1>7 DEF Fail, Writing
  <2>2. NoFile \in File
    BY DEF NoFile, File, Content
  <2> QED
    BY <1>1, <1>2, <2>1, <2>2
<1> QED
  BY <1>1, <1>3, <1>4, <1>5, <1>6, <1>7
     DEF Step, Open, PersistProvenance, RecordEvidence, CheckExists, LoadExisting, NameTaken, Die

(* What was answered is kept by every step of a writer.                    *)
LEMMA KeptStays ==
  ASSUME IInv, NEW w \in Writers, Step(w), NEW r, NEW creator \in BOOLEAN, Kept(r, creator)
  PROVE  Kept(r, creator)'
<1>1. r \in Record /\ r.family \in Families /\ Position(r) \in Index
  BY RecordPlace DEF Kept
<1>2. IInv' /\ Stays
  BY WriterStep
<1>3. ASSUME creator \/ r.family = "provenance"
      PROVE  At(r)'.content = r
  <2>1. At(r).content = r /\ Whole(r)
    BY <1>1, <1>3, ContentKinds DEF Kept, Whole
  <2>2. ASSUME At(r)'.content # r
        PROVE  FALSE
    <3>1. /\ r.family = "evidence"
          /\ \E v \in Writers : pc[v] = "sync" /\ job[v] = r
      BY <1>1, <1>2, <2>1, <2>2 DEF Stays, At, Position
    <3>2. creator
      BY <1>3, <3>1
    <3> QED
      BY <3>1, <3>2 DEF Kept, Writing, SamePlace
  <2> QED
    BY <2>2
<1>4. ASSUME creator, NEW v \in Writers, Writing(v)'
      PROVE  ~SamePlace(job'[v], r)
  <2>1. /\ job'[v] = job[v] /\ job[v] \in Record
        /\ Writing(v) \/ (v = w /\ At(job[w]).content = NoContent)
    BY <1>4, NewWriting
  <2>2. CASE Writing(v)
    BY <1>4, <2>1, <2>2 DEF Kept
  <2>3. CASE At(job[v]).content = NoContent
    BY <1>1, <1>4, <2>1, <2>3, ContentKinds DEF Kept, SamePlace, At
  <2> QED
    BY <2>1, <2>2, <2>3
<1>5. ASSUME creator, r.family = "provenance"
      PROVE  At(r)'.synced /\ At(r)'.named
  <2>1. At(r).content = r /\ At(r).synced /\ At(r).named /\ At(r) \in File
    BY <1>1, <1>5 DEF Kept, IInv, ShapeInv, At
  <2>2. ~(Writing(w) /\ job[w].family = r.family /\ Position(job[w]) = Position(r))
    BY <1>5 DEF Kept, SamePlace
  <2>3. At(r)' = At(r) \/ At(r)' = [At(r) EXCEPT !.named = TRUE]
    BY <1>1, <2>1, <2>2, FileChange, ContentKinds DEF At, Position
  <2> QED
    BY <2>1, <2>3 DEF File
<1> QED
  BY <1>1, <1>3, <1>4, <1>5 DEF Kept, SamePlace, Position

(* A call answers for the record it has made durable or has found.         *)
LEMMA AnswerStep ==
  ASSUME IInv, AnsweredInv, NEW w \in Writers, Step(w), NEW a \in answered', a \notin answered
  PROVE  Kept(a.record, a.creator)' /\ a.creator \in BOOLEAN
<1>1. IInv' /\ Stays
  BY WriterStep
<1>2. \/ /\ a = [record |-> job[w], creator |-> FALSE] /\ LoadExisting(w)
         /\ At(job[w]).content = job[w]
      \/ /\ a = [record |-> job[w], creator |-> TRUE]
         /\ \/ SyncFile(w) /\ job[w].family = "evidence"
            \/ SyncDirectory(w)
  BY DEF Step, Open, PersistProvenance, RecordEvidence, CheckExists, LoadExisting,
     CreateFile, NameTaken, WriteFile, SyncFile, SyncDirectory, Fail, Die, Ok, Err
<1>3. PICK r \in Record : r = job[w] /\ r.family \in Families /\ Position(r) \in Index
  BY <1>2, RecordPlace DEF IInv, ShapeInv, LoadExisting, SyncFile, SyncDirectory
<1>4. CASE /\ a = [record |-> job[w], creator |-> FALSE] /\ LoadExisting(w)
           /\ At(job[w]).content = job[w]
  <2>1. a.record = r /\ a.creator = FALSE /\ At(r)' = At(r)
    BY <1>3, <1>4 DEF LoadExisting, At, Position
  <2>2. Kept(r, FALSE)'
    BY <1>3, <1>4, <2>1 DEF Kept
  <2> QED
    BY <2>1, <2>2
<1>5. CASE /\ a = [record |-> job[w], creator |-> TRUE]
           /\ \/ SyncFile(w) /\ job[w].family = "evidence"
              \/ SyncDirectory(w)
  <2>1. a.record = r /\ a.creator = TRUE
    BY <1>3, <1>5
  <2>2. Writing(w) /\ At(r).content = r /\ At(r) \in File
    BY <1>3, <1>5 DEF SyncFile, SyncDirectory, Writing, IInv, ShapeInv, WritersInv, At
  <2>3. At(r)'.content = r
    <3>1. CASE SyncFile(w)
      <4>1. [At(r) EXCEPT !.synced = TRUE] \in File
        BY <2>2 DEF File
      <4>2. file'[r.family][Position(r)] = [At(r) EXCEPT !.synced = TRUE]
        BY <1>3, <2>2, <3>1, <4>1, OwnFile DEF SyncFile
      <4> QED
        BY <2>2, <4>2 DEF File, At, Position
    <3>2. CASE SyncDirectory(w)
      BY <1>3, <2>2, <3>2 DEF SyncDirectory, NamesSynced, IInv, ShapeInv, File, At, Position
    <3> QED
      BY <1>5, <3>1, <3>2
  <2>4. ASSUME NEW v \in Writers, Writing(v)'
        PROVE  ~SamePlace(job'[v], r)
    <3>1. v # w
      BY <1>5, <2>4 DEF SyncFile, SyncDirectory, Ok, Return, Writing, IInv, ShapeInv
    <3>2. job'[v] = job[v] /\ Writing(v)
      BY <2>4, <3>1, NewWriting
    <3> QED
      BY <1>3, <2>2, <3>1, <3>2 DEF IInv, WritersInv
  <2>5. ASSUME r.family = "provenance"
        PROVE  At(r)'.synced /\ At(r)'.named
    <3>1. SyncDirectory(w) /\ At(r).synced
      BY <1>3, <1>5, <2>5 DEF AnsweredInv, SyncDirectory
    <3> QED
      BY <1>3, <2>2, <3>1 DEF SyncDirectory, NamesSynced, IInv, ShapeInv, File, At, Position
  <2>6. Kept(r, TRUE)'
    BY <1>3, <2>3, <2>4, <2>5 DEF Kept, SamePlace, Position
  <2> QED
    BY <2>1, <2>6
<1> QED
  BY <1>2, <1>4, <1>5

LEMMA AnsweredWriterStep ==
  ASSUME IInv, AnsweredInv, NEW w \in Writers, Step(w)
  PROVE  AnsweredInv'
<1>1. ASSUME NEW v \in Writers, pc'[v] = "directory"
      PROVE  At(job[v])'.synced
  <2>1. job'[v] = job[v] /\ job[v] \in Record /\ IInv'
    BY <1>1, NewWriting, WriterStep DEF Writing
  <2>2. CASE SyncFile(w) /\ v = w
    <3>1. Writing(w)
      BY <2>2 DEF SyncFile, Writing
    <3>2. At(job[w]) \in File /\ [At(job[w]) EXCEPT !.synced = TRUE] \in File
      BY <3>1, OwnFile DEF File
    <3>3. file'[job[w].family][Position(job[w])] = [At(job[w]) EXCEPT !.synced = TRUE]
      BY <2>2, <3>1, <3>2, OwnFile DEF SyncFile
    <3> QED
      BY <2>1, <2>2, <3>2, <3>3 DEF At, Position, File
  <2>3. CASE ~(SyncFile(w) /\ v = w)
    <3>1. pc[v] = "directory" /\ v # w
      BY <1>1, <2>3
         DEF Step, Open, PersistProvenance, RecordEvidence, Begin, CheckExists, LoadExisting,
             CreateFile, NameTaken, WriteFile, SyncFile, SyncDirectory, Fail, Die, Goto, Ok, Err,
             Return, IInv, ShapeInv
    <3>2. Writing(v) /\ At(job[v]).synced /\ At(job[v]).content = job[v]
      BY <3>1 DEF AnsweredInv, IInv, WritersInv, Writing
    <3>3. ~(Writing(w) /\ job[w].family = job[v].family /\ Position(job[w]) = Position(job[v]))
      BY <3>1, <3>2 DEF IInv, WritersInv, SamePlace
    <3>4. At(job[v]) \in File
      BY <3>2, OwnFile
    <3>5. At(job[v])' = At(job[v]) \/ At(job[v])' = [At(job[v]) EXCEPT !.named = TRUE]
      BY <2>1, <3>2, <3>3, FileChange, ContentKinds, RecordPlace DEF At, Position
    <3> QED
      BY <3>2, <3>4, <3>5 DEF File
  <2> QED
    BY <2>2, <2>3
<1>2. ASSUME NEW a \in answered'
      PROVE  Kept(a.record, a.creator)' /\ a.creator \in BOOLEAN
  <2>1. CASE a \in answered
    BY <2>1, KeptStays DEF AnsweredInv
  <2>2. CASE a \notin answered
    BY <2>2, AnswerStep
  <2> QED
    BY <2>1, <2>2
<1> QED
  BY <1>1, <1>2 DEF AnsweredInv, Kept, At, Position, SamePlace

(* A loss of power takes no provenance that was durable with its           *)
(* directory.                                                              *)
LEMMA AnsweredLosePowerStep ==
  ASSUME IInv, AnsweredInv, LosePower
  PROVE  AnsweredInv'
<1>1. pc' = [w \in Writers |-> "idle"]
  BY DEF LosePower
<1>2. ASSUME NEW a \in answered'
      PROVE  Kept(a.record, a.creator)' /\ a.creator \in BOOLEAN
  <2> DEFINE r == a.record
  <2>1. /\ a \in answered /\ a.creator \in BOOLEAN /\ a.creator /\ r.family = "provenance"
        /\ folder[r.family] = "rooted" /\ Kept(r, a.creator)
    BY DEF LosePower, AnsweredInv
  <2>2. /\ r \in Record /\ r.family \in Families /\ Position(r) \in Index
        /\ At(r).content = r /\ At(r).synced /\ At(r).named
    BY <2>1, RecordPlace DEF Kept
  <2>3. r.family \notin MayVanish
    BY <2>1 DEF MayVanish
  <2>4. At(r)' \in Outcomes(At(r))
    BY <2>2, <2>3 DEF LosePower, At, Position
  <2>5. At(r)' = [NoFile EXCEPT !.content = r]
    BY <2>2, <2>4 DEF Outcomes
  <2>6. At(r)'.content = r /\ At(r)'.synced /\ At(r)'.named
    BY <2>5 DEF NoFile
  <2> QED
    BY <1>1, <2>1, <2>2, <2>6 DEF Kept, Writing, SamePlace, Position
<1> QED
  BY <1>1, <1>2 DEF AnsweredInv, Kept, At, Position, SamePlace

LEMMA AnsweredNext == IInv /\ AnsweredInv /\ [Next]_vars => AnsweredInv'
<1> SUFFICES ASSUME IInv, AnsweredInv, [Next]_vars PROVE AnsweredInv'
  OBVIOUS
<1>1. CASE UNCHANGED <<file, pc, job, answered>>
  BY <1>1 DEF AnsweredInv, Kept, Writing, SamePlace, Position, At
<1>2. CASE \E w \in Writers : Step(w)
  BY <1>2, AnsweredWriterStep
<1>3. CASE LosePower
  BY <1>3, AnsweredLosePowerStep
<1> QED
  BY <1>1, <1>2, <1>3 DEF Next, vars, AppendRun, SyncHistory

(* What a call reported as persisted is there (src/git_provenance.rs,      *)
(* persist; src/remediation_evidence.rs, persist_record): until power is   *)
(* lost, for the call that created the file and for provenance that was    *)
(* found; past that, for provenance made durable with its directory.       *)
THEOREM AnswersAreKept == Spec => []AnsweredStay
<1>1. Init => AnsweredInv
  BY DEF Init, AnsweredInv
<1>2. AnsweredInv => AnsweredStay
  BY DEF AnsweredInv, AnsweredStay, Kept
<1> QED
  BY <1>1, <1>2, InitIInv, NextIInv, AnsweredNext, PTL DEF Spec
=============================================================================
