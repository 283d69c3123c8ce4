------------------------------ MODULE History -------------------------------
(***************************************************************************)
(* DiagnosticHistory (src/history.rs): a directory of hash-chained run     *)
(* files run-000000.json, run-000001.json, ... and one mutable head.json,  *)
(* appended to by several handles that share nothing but the directory.    *)
(* There is no lock: open and append_report are sequences of file-system   *)
(* calls that interleave, fail, or are cut short by a crash.               *)
(*                                                                         *)
(* A digest is modelled by what it commits to.  The digest of run k covers *)
(* its report and the digest of run k-1, so (digests not colliding) it     *)
(* stands for the sequence of the reports of runs 0..k: that sequence, a   *)
(* chain, is the content of a whole run file, of the head, and of a list   *)
(* of verified runs.  No head file is the empty chain.                     *)
(***************************************************************************)
EXTENDS Integers, FiniteSets, SequencesExt

CONSTANTS
  Handle,        \* open DiagnosticHistory values, or threads about to open one
  Process,       \* operating-system processes
  ProcessOf,     \* the process of each handle: it names the head's staging file
  Report,        \* the report states an append can record
  NoReport,      \* not a report: the handle is opening, or is not busy
  NoFile, Torn,  \* no directory entry; an entry whose bytes are incomplete
  MaxRuns,       \* bound: run files a history can hold
  Faults,        \* the steps that may fail, and "kill", "power"
  MaxFaults      \* bound: faults in one behaviour

ASSUME HistoryAssumption ==
  /\ ProcessOf \in [Handle -> Process]
  /\ NoReport \notin Report
  /\ NoFile \notin Seq(Report)
  /\ Torn \notin Seq(Report)
  /\ NoFile # Torn
  /\ MaxRuns \in Nat
  /\ MaxFaults \in Nat

VARIABLES
  files,      \* run files, as every process sees them
  head,       \* head.json, likewise
  tmp,        \* .head.json.tmp-PID of each process
  dirty,      \* run files whose bytes are not all synchronised yet
  diskFiles,  \* run files as of the last synchronisation of the directory
  diskHead,   \* head.json, likewise
  mem,        \* DiagnosticHistory::runs of each handle
  pc,         \* the next file-system call of each handle
  report,     \* the report a busy handle appends; NoReport while it opens
  listed,     \* the run files the handle's directory scan found
  loaded,     \* the runs the handle has read and chained
  acked,      \* chains whose append returned Ok
  faults      \* faults so far

dir   == <<files, head, tmp>>
disk  == <<diskFiles, diskHead, dirty>>
local == <<mem, pc, report, listed, loaded>>
vars  == <<dir, disk, local, acked, faults>>

Index == 0..(MaxRuns - 1)
Steps == {"scanned", "loaded", "create", "write", "fsync", "syncRun",
          "stage", "rename", "undo", "syncHead"}
Content == Seq(Report) \cup {NoFile, Torn}

TypeOK ==
  /\ files \in [Index -> Content]
  /\ head \in Seq(Report)
  /\ tmp \in [Process -> Content]
  /\ dirty \subseteq Index
  /\ diskFiles \in [Index -> Content]
  /\ diskHead \in Seq(Report)
  /\ mem \in [Handle -> Seq(Report)]
  /\ pc \in [Handle -> Steps \cup {"closed", "ready"}]
  /\ report \in [Handle -> Report \cup {NoReport}]
  /\ listed \in [Handle -> SUBSET Index]
  /\ loaded \in [Handle -> Seq(Report)]
  /\ acked \subseteq Seq(Report)
  /\ faults \in 0..MaxFaults

-----------------------------------------------------------------------------
(* Steps common to the calls                                               *)

Fault(kind) ==
  /\ kind \in Faults
  /\ faults < MaxFaults
  /\ faults' = faults + 1

Goto(h, step) == pc' = [pc EXCEPT ![h] = step]

(* The call returns.  A failed open leaves no handle, a failed append      *)
(* leaves the handle it was called on.                                     *)
Return(h, to) ==
  /\ Goto(h, to)
  /\ report' = [report EXCEPT ![h] = NoReport]
  /\ listed' = [listed EXCEPT ![h] = {}]
  /\ loaded' = [loaded EXCEPT ![h] = <<>>]

ReturnErr(h) == Return(h, IF report[h] = NoReport THEN "closed" ELSE "ready")

(* The index of the run that the append under way adds: runs.len() before  *)
(* the run is pushed, its last index after.                                *)
Slot(h) ==
  IF pc[h] \in {"stage", "rename"} THEN Len(mem[h]) - 1 ELSE Len(mem[h])

(* The run that append_report builds, chained to the handle's head digest. *)
NewRun(h) == Append(mem[h], report[h])

(* sync_directory; where the platform cannot synchronise a directory it    *)
(* does nothing.                                                           *)
SyncNothing == UNCHANGED <<diskFiles, diskHead>>

SyncDirectory ==
  /\ diskFiles' = files
  /\ diskHead' = head

(* create_new succeeds on a free name only; a plain create always would.   *)
AnyName(h) == TRUE

NameIsFree(h) == files[Slot(h)] = NoFile

(* What write_head_atomic stages: not a leftover of the same process id.   *)
LeftoverHead(h) == IF tmp[ProcessOf[h]] = NoFile THEN mem[h] ELSE tmp[ProcessOf[h]]

StagedHead(h) == mem[h]

(* When it fails, the pushed run is popped and its file removed.           *)
NotPopped(h) == mem[h]

Popped(h) == Front(mem[h])

NotRemoved(h) == files

Removed(h) == [files EXCEPT ![Slot(h)] = NoFile]

(* read_dir: the run files there are.                                       *)
Present == {i \in Index : files[i] # NoFile}

(* The checks of open on the files it found, oldest first: an unbroken     *)
(* sequence of names, whole JSON, the index of the name, the link to the   *)
(* run before.                                                             *)
LinksToPrevious(i) == i > 0 => Front(files[i]) = files[i - 1]

Chained(n) ==
  \A i \in 0..(n - 1) :
    /\ files[i] \notin {NoFile, Torn}
    /\ Len(files[i]) = i + 1
    /\ LinksToPrevious(i)

(* verify_head: as many runs as the head counts, and its digest.           *)
HeadAcceptsCount(runs) == Len(head) = Len(runs)

HeadAccepts(runs) == Len(head) = Len(runs) /\ head = runs

-----------------------------------------------------------------------------
(* open, and the verify that append_report starts with                     *)

(* open on a new handle; an old one is dropped.  The directory is listed.  *)
Open(h) ==
  /\ pc[h] \in {"closed", "ready"}
  /\ Goto(h, "scanned")
  /\ mem' = [mem EXCEPT ![h] = <<>>]
  /\ listed' = [listed EXCEPT ![h] = Present]
  /\ UNCHANGED <<dir, disk, report, loaded, acked, faults>>

(* append_report: verify opens the directory again and lists it.           *)
AppendReport(h, r) ==
  /\ pc[h] = "ready"
  /\ Len(mem[h]) < MaxRuns
  /\ Goto(h, "scanned")
  /\ report' = [report EXCEPT ![h] = r]
  /\ listed' = [listed EXCEPT ![h] = Present]
  /\ UNCHANGED <<dir, disk, mem, loaded, acked, faults>>

(* The listed files are read.  All but the newest never change once they   *)
(* are whole, so one step stands for reading them one after the other.     *)
ReadRuns(h) ==
  /\ pc[h] = "scanned"
  /\ \/ \E n \in 0..MaxRuns :
           /\ listed[h] = 0..(n - 1)
           /\ Chained(n)
           /\ loaded' = [loaded EXCEPT ![h] = IF n = 0 THEN <<>> ELSE files[n - 1]]
           /\ Goto(h, "loaded")
           /\ UNCHANGED <<report, listed>>
     \/ /\ \A n \in 0..MaxRuns : listed[h] = 0..(n - 1) => ~Chained(n)
        /\ ReturnErr(h)
  /\ UNCHANGED <<dir, disk, mem, acked, faults>>

(* The head is read last, and only now compared with the runs.  An open    *)
(* that passes has its handle; a verify that passes is compared with the   *)
(* runs in memory, and append_report goes on.                              *)
VerifyHead(h) ==
  /\ pc[h] = "loaded"
  /\ \/ /\ HeadAccepts(loaded[h])
        /\ report[h] = NoReport
        /\ mem' = [mem EXCEPT ![h] = loaded[h]]
        /\ Return(h, "ready")
     \/ /\ HeadAccepts(loaded[h])
        /\ report[h] # NoReport
        /\ loaded[h] = mem[h]
        /\ Goto(h, "create")
        /\ UNCHANGED <<mem, report, listed, loaded>>
     \/ /\ \/ ~HeadAccepts(loaded[h])
           \/ report[h] # NoReport /\ loaded[h] # mem[h]
        /\ ReturnErr(h)
        /\ UNCHANGED mem
  /\ UNCHANGED <<dir, disk, acked, faults>>

-----------------------------------------------------------------------------
(* append_report after its verify                                          *)

(* create_new: the one call that tells two appenders apart.                *)
CreateRunFile(h) ==
  /\ pc[h] = "create"
  /\ \/ /\ NameIsFree(h)
        /\ files' = [files EXCEPT ![Slot(h)] = Torn]
        /\ dirty' = dirty \cup {Slot(h)}
        /\ Goto(h, "write")
        /\ UNCHANGED <<report, listed, loaded>>
     \/ /\ ~NameIsFree(h)
        /\ ReturnErr(h)
        /\ UNCHANGED <<files, dirty>>
  /\ UNCHANGED <<head, tmp, diskFiles, diskHead, mem, acked, faults>>

WriteRunFile(h) ==
  /\ pc[h] = "write"
  /\ files' = [files EXCEPT ![Slot(h)] = NewRun(h)]
  /\ Goto(h, "fsync")
  /\ UNCHANGED <<head, tmp, disk, mem, report, listed, loaded, acked, faults>>

(* sync_all makes the bytes durable; the directory entry may not be yet.   *)
SyncRunFile(h) ==
  /\ pc[h] = "fsync"
  /\ diskFiles' = [diskFiles EXCEPT ![Slot(h)] = IF @ = NoFile THEN @ ELSE NewRun(h)]
  /\ dirty' = dirty \ {Slot(h)}
  /\ Goto(h, "syncRun")
  /\ UNCHANGED <<dir, diskHead, mem, report, listed, loaded, acked, faults>>

(* sync_directory, then the run is pushed in memory.                       *)
SyncRunDirectory(h) ==
  /\ pc[h] = "syncRun"
  /\ SyncDirectory
  /\ mem' = [mem EXCEPT ![h] = NewRun(h)]
  /\ Goto(h, "stage")
  /\ UNCHANGED <<dir, dirty, report, listed, loaded, acked, faults>>

(* write_head_atomic: a stale staging file of this process id goes, a new  *)
(* one is created, written and synchronised.                               *)
StageHead(h) ==
  /\ pc[h] = "stage"
  /\ tmp' = [tmp EXCEPT ![ProcessOf[h]] = StagedHead(h)]
  /\ Goto(h, "rename")
  /\ UNCHANGED <<files, head, disk, mem, report, listed, loaded, acked, faults>>

(* The rename commits the run.                                             *)
RenameHead(h) ==
  /\ pc[h] = "rename"
  /\ tmp[ProcessOf[h]] # NoFile
  /\ head' = tmp[ProcessOf[h]]
  /\ tmp' = [tmp EXCEPT ![ProcessOf[h]] = NoFile]
  /\ Goto(h, "syncHead")
  /\ UNCHANGED <<files, disk, mem, report, listed, loaded, acked, faults>>

(* The last sync_directory; append_report returns Ok.                      *)
SyncHeadDirectory(h) ==
  /\ pc[h] = "syncHead"
  /\ SyncDirectory
  /\ acked' = acked \cup {mem[h]}
  /\ Return(h, "ready")
  /\ UNCHANGED <<dir, dirty, mem, faults>>

(* After write_head_atomic failed: remove_file, whose own error is ignored.*)
RemoveRunFile(h) ==
  /\ pc[h] = "undo"
  /\ files' = Removed(h)
  /\ dirty' = dirty \ {Slot(h)}
  /\ ReturnErr(h)
  /\ UNCHANGED <<head, tmp, diskFiles, diskHead, mem, acked, faults>>

-----------------------------------------------------------------------------
(* Faults                                                                  *)

(* A read, a create, a sync_directory or the removal fails and nothing     *)
(* compensates: the call returns its error and the directory stays as is.  *)
(* After "syncHead" the run is committed although the caller sees Err.     *)
FailCall(h) ==
  /\ pc[h] \in {"scanned", "loaded", "create", "syncRun", "syncHead", "undo"}
  /\ Fault(pc[h])
  /\ ReturnErr(h)
  /\ UNCHANGED <<dir, disk, mem, acked>>

(* write_new_synced fails after create_new: the file stays, whole or not.  *)
FailRunFile(h) ==
  /\ pc[h] \in {"write", "fsync"}
  /\ Fault(pc[h])
  /\ \/ UNCHANGED files
     \/ files' = [files EXCEPT ![Slot(h)] = Torn]
  /\ ReturnErr(h)
  /\ UNCHANGED <<head, tmp, disk, mem, acked>>

(* write_head_atomic fails: the pushed run is popped, its file is to go.   *)
FailHead(h) ==
  /\ pc[h] \in {"stage", "rename"}
  /\ Fault(pc[h])
  /\ \/ UNCHANGED tmp
     \/ pc[h] = "stage" /\ tmp' = [tmp EXCEPT ![ProcessOf[h]] = Torn]
  /\ mem' = [mem EXCEPT ![h] = Popped(h)]
  /\ Goto(h, "undo")
  /\ UNCHANGED <<files, head, disk, report, listed, loaded, acked>>

Forget(gone) ==
  /\ pc' = [h \in Handle |-> IF h \in gone THEN "closed" ELSE pc[h]]
  /\ mem' = [h \in Handle |-> IF h \in gone THEN <<>> ELSE mem[h]]
  /\ report' = [h \in Handle |-> IF h \in gone THEN NoReport ELSE report[h]]
  /\ listed' = [h \in Handle |-> IF h \in gone THEN {} ELSE listed[h]]
  /\ loaded' = [h \in Handle |-> IF h \in gone THEN <<>> ELSE loaded[h]]

(* A process dies; the kernel keeps what it wrote.                         *)
Kill(p) ==
  /\ \E h \in Handle : ProcessOf[h] = p /\ pc[h] # "closed"
  /\ Fault("kill")
  /\ Forget({h \in Handle : ProcessOf[h] = p})
  /\ UNCHANGED <<dir, disk, acked>>

(* Power is lost.  Each directory entry changed since the last directory   *)
(* synchronisation is kept or undone on its own; bytes not yet synchronised*)
(* may be torn; staging files left over mean nothing to anyone.            *)
LosePower ==
  /\ Fault("power")
  /\ head' \in {head, diskHead}
  /\ \E kept \in SUBSET Index, torn \in SUBSET dirty :
       files' = [i \in Index |-> IF i \in torn THEN Torn
                                 ELSE IF i \in kept THEN files[i] ELSE diskFiles[i]]
  /\ tmp' = [p \in Process |-> NoFile]
  /\ diskHead' = head'
  /\ diskFiles' = files'
  /\ dirty' = {}
  /\ Forget(Handle)
  /\ UNCHANGED acked

-----------------------------------------------------------------------------
Init ==
  /\ files = [i \in Index |-> NoFile]
  /\ head = <<>>
  /\ tmp = [p \in Process |-> NoFile]
  /\ dirty = {}
  /\ diskFiles = files
  /\ diskHead = head
  /\ mem = [h \in Handle |-> <<>>]
  /\ pc = [h \in Handle |-> "closed"]
  /\ report = [h \in Handle |-> NoReport]
  /\ listed = [h \in Handle |-> {}]
  /\ loaded = [h \in Handle |-> <<>>]
  /\ acked = {}
  /\ faults = 0

Call(h) == Open(h) \/ \E r \in Report : AppendReport(h, r)

Step(h) ==
  \/ ReadRuns(h)
  \/ VerifyHead(h)
  \/ CreateRunFile(h)
  \/ WriteRunFile(h)
  \/ SyncRunFile(h)
  \/ SyncRunDirectory(h)
  \/ StageHead(h)
  \/ RenameHead(h)
  \/ SyncHeadDirectory(h)
  \/ RemoveRunFile(h)

Fail(h) == FailCall(h) \/ FailRunFile(h) \/ FailHead(h)

Next ==
  \/ \E h \in Handle : Call(h) \/ Step(h) \/ Fail(h)
  \/ \E p \in Process : Kill(p)
  \/ LosePower

Spec == Init /\ [][Next]_vars

(* The calls of a live thread return.  Callers keep trying: every scan     *)
(* opens the history and appends to it.                                    *)
Fairness ==
  \A h \in Handle :
    /\ WF_vars(Step(h))
    /\ SF_vars(Open(h))
    /\ SF_vars(\E r \in Report : AppendReport(h, r))

FairSpec == Spec /\ Fairness

-----------------------------------------------------------------------------
(* Properties                                                              *)

(* What append_report has created and not yet committed or taken back.     *)
InLimbo(h) == pc[h] \in {"write", "fsync", "syncRun", "stage", "rename", "undo"}

(* The runs the handle answers for: without the one pushed ahead of its    *)
(* head.                                                                   *)
Base(h) == IF pc[h] \in {"stage", "rename"} THEN Front(mem[h]) ELSE mem[h]

(* create_new of the next run file is the only mutual exclusion there is:  *)
(* no two handles, threads of one process or not, are ever past it with a  *)
(* run the head does not cover.  So they never share a staging file either.*)
OneAppender == \A g, h \in Handle : g # h => ~(InLimbo(g) /\ InLimbo(h))

(* Each handle's runs are a prefix of the one committed history: appenders *)
(* that raced, failed and retried never leave two histories behind, and an *)
(* open never returns a run that was taken back.                           *)
NoFork == \A h \in Handle : IsPrefix(Base(h), head)

(* Whatever fails, every run the head counts has its file, whole and       *)
(* linked to the one before: the head is never ahead of the runs.          *)
HeadCovered == \A i \in 0..(Len(head) - 1) : files[i] = SubSeq(head, 1, i + 1)

(* A run whose append returned Ok is part of the history from then on,     *)
(* through crashes and through power losses.                               *)
AckedStay == \A c \in acked : IsPrefix(c, head) /\ IsPrefix(c, diskHead)

(* The directory implements the abstract append-only log.                  *)
Log == INSTANCE RunLog WITH log <- head, stable <- diskHead

RefinesRunLog == Log!Spec

(* The failures after which append_report leaves no trace.                 *)
Compensated == {"scanned", "loaded", "create", "stage", "rename", "syncHead"}

(* When the steps that fail are those the code compensates for, the        *)
(* directory is left as the next open wants it: no orphan run, no gap.     *)
Resting == \A h \in Handle : pc[h] \in {"closed", "ready"}

RestIsOpenable == Resting => Present = 0..(Len(head) - 1) /\ Chained(Len(head))

(* Handles get in each other's way, and turn each other away, but never    *)
(* stop the history from growing.                                          *)
HistoryGrows == <>(Len(head) = MaxRuns)
=============================================================================
