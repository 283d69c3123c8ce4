--------------------------- MODULE HistoryProofs ----------------------------
(***************************************************************************)
(* Theorems about History, for every set of handles, processes and reports *)
(* and every choice of faults.                                             *)
(***************************************************************************)
EXTENDS History, Facts

-----------------------------------------------------------------------------
(* The inductive invariant                                                 *)

(* A handle whose append is past create_new works on the history as it is: *)
(* it has its next slot, and until the head is renamed nobody else can.    *)
LimboOK(h) ==
  /\ pc[h] \notin {"stage", "rename"} => mem[h] = head
  /\ pc[h] \in {"stage", "rename"} => mem[h] = Append(head, report[h])
  /\ report[h] \in Report
  /\ Len(head) < MaxRuns
  /\ files[Len(head)] # NoFile

LimboInv == \A h \in Handle : InLimbo(h) => LimboOK(h)

(* How far the new run has got at each step: written, its bytes            *)
(* synchronised, its directory entry synchronised, its head staged.        *)
NewRunOK(h) ==
  /\ pc[h] \in {"fsync", "syncRun", "stage", "rename"} =>
       files[Len(head)] = Append(head, report[h])
  /\ pc[h] \in {"syncRun", "stage", "rename"} => Len(head) \notin dirty
  /\ pc[h] \in {"stage", "rename"} => diskFiles[Len(head)] = Append(head, report[h])
  /\ pc[h] = "rename" => tmp[ProcessOf[h]] = mem[h]

NewRunInv == \A h \in Handle : InLimbo(h) => NewRunOK(h)

(* The other handles hold a prefix of the history.                         *)
MemInv == \A h \in Handle : ~InLimbo(h) => IsPrefix(mem[h], head)

(* What a call has checked before it goes on.                              *)
CallOK(h) ==
  /\ pc[h] = "create" => report[h] \in Report
  /\ pc[h] \in {"closed", "ready"} => report[h] = NoReport
  /\ pc[h] \in {"scanned", "loaded", "create"} /\ report[h] # NoReport => Len(mem[h]) < MaxRuns
  /\ pc[h] = "syncHead" => report[h] \in Report /\ mem[h] # <<>>

CallInv == \A h \in Handle : CallOK(h)

(* Runs the head counts survive a power loss that keeps the head.          *)
DurableInv ==
  /\ Len(head) <= MaxRuns
  /\ IsPrefix(diskHead, head)
  /\ \A i \in 0..(Len(head) - 1) :
       /\ diskFiles[i] = SubSeq(head, 1, i + 1)
       /\ i \notin dirty

AckedInv == \A c \in acked : IsPrefix(c, diskHead)

IInv ==
  /\ TypeOK
  /\ OneAppender
  /\ LimboInv
  /\ NewRunInv
  /\ MemInv
  /\ CallInv
  /\ HeadCovered
  /\ DurableInv
  /\ AckedInv

-----------------------------------------------------------------------------
(* Facts about chains of reports, in the form the steps below cite         *)

LEMMA ChainPrefixes ==
  /\ \A s \in Seq(Report) : IsPrefix(s, s) /\ IsPrefix(<<>>, s)
  /\ \A s, t, u \in Seq(Report) : IsPrefix(s, t) /\ IsPrefix(t, u) => IsPrefix(s, u)
  /\ \A s, t \in Seq(Report) : IsPrefix(s, t) => Len(s) <= Len(t)
  /\ \A s, t \in Seq(Report) : IsPrefix(s, t) /\ Len(s) = Len(t) => s = t
  /\ \A s, t \in Seq(Report) :
       IsPrefix(s, t) => \A i \in 1..Len(s) : SubSeq(s, 1, i) = SubSeq(t, 1, i)
  /\ \A s \in Seq(Report), x \in Report : IsPrefix(s, Append(s, x))
  BY PrefixOrder

LEMMA ChainAppends ==
  \A s \in Seq(Report), x \in Report :
    /\ Append(s, x) \in Seq(Report)
    /\ Len(Append(s, x)) = Len(s) + 1
    /\ Front(Append(s, x)) = s
    /\ \A i \in 1..Len(s) : SubSeq(Append(s, x), 1, i) = SubSeq(s, 1, i)
    /\ SubSeq(Append(s, x), 1, Len(s) + 1) = Append(s, x)
  BY AppendFacts

-----------------------------------------------------------------------------
(* What the invariant says of a handle whose run is in limbo               *)

LEMMA SlotIsNext ==
  ASSUME IInv, NEW h \in Handle, InLimbo(h)
  PROVE  /\ Slot(h) = Len(head)
         /\ Slot(h) \in Index
         /\ pc[h] \notin {"stage", "rename"} => NewRun(h) = Append(head, report[h])
         /\ pc[h] \in {"stage", "rename"} => Popped(h) = head
         /\ Append(head, report[h]) \in Seq(Report)
         /\ \A g \in Handle : g # h => ~InLimbo(g)
  <1>1. /\ head \in Seq(Report) /\ MaxRuns \in Nat /\ report[h] \in Report
        /\ pc[h] \notin {"stage", "rename"} => mem[h] = head
        /\ pc[h] \in {"stage", "rename"} => mem[h] = Append(head, report[h])
        /\ Len(head) < MaxRuns
    BY HistoryAssumption DEF IInv, TypeOK, LimboInv, LimboOK
  <1>2. /\ Append(head, report[h]) \in Seq(Report)
        /\ Len(Append(head, report[h])) = Len(head) + 1
        /\ Front(Append(head, report[h])) = head
    BY <1>1, ChainAppends
  <1>3. Len(head) \in Nat
    BY <1>1, LenProperties
  <1>4. Slot(h) = Len(head)
    BY <1>1, <1>2, <1>3 DEF Slot
  <1>5. \A g \in Handle : g # h => ~InLimbo(g)
    BY DEF IInv, OneAppender
  <1>6. Slot(h) \in Index
    BY <1>1, <1>3, <1>4 DEF Index
  <1>7. /\ pc[h] \notin {"stage", "rename"} => NewRun(h) = Append(head, report[h])
        /\ pc[h] \in {"stage", "rename"} => Popped(h) = head
    BY <1>1, <1>2 DEF NewRun, Popped
  <1>8. QED
    BY <1>2, <1>4, <1>5, <1>6, <1>7

(* A step after which every handle is where it was, or outside limbo with  *)
(* a prefix of the history, and which leaves the directory alone.          *)
LEMMA QuietStep ==
  ASSUME IInv, TypeOK', UNCHANGED <<dir, disk, acked>>,
         \A g \in Handle :
           \/ pc'[g] = pc[g] /\ mem'[g] = mem[g] /\ report'[g] = report[g]
           \/ ~InLimbo(g)' /\ IsPrefix(mem'[g], head) /\ CallOK(g)'
  PROVE  IInv'
  <1> USE DEF dir, disk
  <1>1. \A g \in Handle : InLimbo(g)' =>
          InLimbo(g) /\ pc'[g] = pc[g] /\ mem'[g] = mem[g] /\ report'[g] = report[g]
    BY DEF InLimbo
  <1>2. OneAppender'
    BY <1>1 DEF IInv, OneAppender
  <1>3. LimboInv'
    BY <1>1 DEF IInv, LimboInv, LimboOK
  <1>4. NewRunInv'
    BY <1>1 DEF IInv, NewRunInv, NewRunOK
  <1>5. MemInv'
    BY DEF IInv, MemInv, InLimbo
  <1>6. CallInv'
    BY DEF IInv, CallInv, CallOK
  <1>7. HeadCovered'
    BY DEF IInv, HeadCovered
  <1>8. DurableInv'
    BY DEF IInv, DurableInv
  <1>9. AckedInv'
    BY DEF IInv, AckedInv
  <1>10. QED
    BY <1>2, <1>3, <1>4, <1>5, <1>6, <1>7, <1>8, <1>9 DEF IInv

(* A step of the only handle that is, or comes to be, in limbo: it touches *)
(* nothing the head covers.                                                *)
LEMMA WriterStep ==
  ASSUME IInv, TypeOK', NEW h \in Handle,
         head' = head, acked' = acked, diskHead' \in {diskHead, head},
         \A g \in Handle : g # h =>
           ~InLimbo(g) /\ pc'[g] = pc[g] /\ mem'[g] = mem[g] /\ report'[g] = report[g],
         \A i \in 0..(Len(head) - 1) :
           /\ files'[i] = files[i]
           /\ diskFiles'[i] \in {diskFiles[i], files[i]}
           /\ i \in dirty' => i \in dirty,
         InLimbo(h)' => LimboOK(h)' /\ NewRunOK(h)',
         ~InLimbo(h)' => IsPrefix(mem'[h], head),
         CallOK(h)'
  PROVE  IInv'
  <1>1. head \in Seq(Report) /\ diskHead \in Seq(Report) /\ acked \subseteq Seq(Report)
    BY DEF IInv, TypeOK
  <1>2. \A g \in Handle : g # h => ~InLimbo(g)'
    BY DEF InLimbo
  <1>3. OneAppender'
    BY <1>2 DEF OneAppender
  <1>4. LimboInv' /\ NewRunInv'
    BY <1>2 DEF LimboInv, NewRunInv
  <1>5. MemInv'
    BY <1>2 DEF IInv, MemInv
  <1>6. CallInv'
    BY DEF IInv, CallInv, CallOK
  <1>7. HeadCovered'
    BY DEF IInv, HeadCovered
  <1>8. DurableInv'
    <2>1. IsPrefix(diskHead, head) /\ IsPrefix(head, head)
      BY <1>1, ChainPrefixes DEF IInv, DurableInv
    <2>2. IsPrefix(diskHead', head')
      BY <2>1
    <2>3. QED
      BY <2>2 DEF IInv, DurableInv, HeadCovered
  <1>9. AckedInv'
    <2>1. \A c \in acked : IsPrefix(c, diskHead) /\ IsPrefix(c, head)
      BY <1>1, ChainPrefixes DEF IInv, AckedInv, DurableInv
    <2>2. QED
      BY <2>1 DEF AckedInv
  <1>10. QED
    BY <1>3, <1>4, <1>5, <1>6, <1>7, <1>8, <1>9 DEF IInv

-----------------------------------------------------------------------------
(* The types                                                               *)

LEMMA ReturnTypes ==
  ASSUME TypeOK, NEW h \in Handle, NEW to \in {"closed", "ready"}, Return(h, to)
  PROVE  /\ pc' \in [Handle -> Steps \cup {"closed", "ready"}]
         /\ report' \in [Handle -> Report \cup {NoReport}]
         /\ listed' \in [Handle -> SUBSET Index]
         /\ loaded' \in [Handle -> Seq(Report)]
  BY EmptySeq DEF TypeOK, Return, Goto

LEMMA ForgetTypes ==
  ASSUME TypeOK, NEW gone, Forget(gone)
  PROVE  /\ pc' \in [Handle -> Steps \cup {"closed", "ready"}]
         /\ mem' \in [Handle -> Seq(Report)]
         /\ report' \in [Handle -> Report \cup {NoReport}]
         /\ listed' \in [Handle -> SUBSET Index]
         /\ loaded' \in [Handle -> Seq(Report)]
  BY EmptySeq DEF TypeOK, Forget

LEMMA FaultTypes ==
  ASSUME TypeOK, NEW kind, Fault(kind)
  PROVE  faults' \in 0..MaxFaults
  BY HistoryAssumption DEF TypeOK, Fault

LEMMA ReadRunsTypes ==
  ASSUME TypeOK, NEW h \in Handle, ReadRuns(h)
  PROVE  TypeOK'
  <1>1. CASE ReturnErr(h)
    BY <1>1, ReturnTypes DEF TypeOK, ReadRuns, ReturnErr, dir, disk
  <1>2. ASSUME NEW n \in 0..MaxRuns, Chained(n), Goto(h, "loaded"),
               loaded' = [loaded EXCEPT ![h] = IF n = 0 THEN <<>> ELSE files[n - 1]],
               UNCHANGED <<report, listed>>
        PROVE  TypeOK'
    <2>1. n # 0 => files[n - 1] \in Seq(Report)
      <3>1. n # 0 => n - 1 \in Index /\ n - 1 \in 0..(n - 1)
        BY HistoryAssumption DEF Index
      <3>2. QED
        BY <1>2, <3>1 DEF Chained, TypeOK, Content
    <2>2. loaded' \in [Handle -> Seq(Report)]
      BY <1>2, <2>1, EmptySeq DEF TypeOK
    <2>3. QED
      BY <1>2, <2>2 DEF TypeOK, ReadRuns, Goto, Steps, dir, disk
  <1>3. QED
    BY <1>1, <1>2 DEF ReadRuns

LEMMA VerifyHeadTypes ==
  ASSUME TypeOK, NEW h \in Handle, VerifyHead(h)
  PROVE  TypeOK'
  <1>1. CASE UNCHANGED mem /\ ReturnErr(h)
    BY <1>1, ReturnTypes DEF TypeOK, VerifyHead, ReturnErr, dir, disk
  <1>2. CASE mem' = [mem EXCEPT ![h] = loaded[h]] /\ Return(h, "ready")
    BY <1>2, ReturnTypes DEF TypeOK, VerifyHead, dir, disk
  <1>3. CASE Goto(h, "create") /\ UNCHANGED <<mem, report, listed, loaded>>
    BY <1>3 DEF TypeOK, VerifyHead, Goto, Steps, dir, disk
  <1>4. QED
    BY <1>1, <1>2, <1>3 DEF VerifyHead

(* Every step of a handle in limbo keeps the types.                        *)
LEMMA LimboTypes ==
  ASSUME IInv, NEW h \in Handle, InLimbo(h),
         \/ WriteRunFile(h) \/ SyncRunFile(h) \/ SyncRunDirectory(h) \/ StageHead(h)
         \/ RenameHead(h) \/ RemoveRunFile(h) \/ FailRunFile(h) \/ FailHead(h)
  PROVE  TypeOK'
  <1> USE DEF TypeOK, dir, disk, Content
  <1>1. /\ TypeOK /\ Slot(h) \in Index /\ ProcessOf[h] \in Process
        /\ pc[h] \notin {"stage", "rename"} => NewRun(h) \in Seq(Report)
        /\ pc[h] \in {"stage", "rename"} => Popped(h) \in Seq(Report)
        /\ pc[h] = "rename" => tmp[ProcessOf[h]] \in Seq(Report)
    BY SlotIsNext, HistoryAssumption DEF IInv, NewRunInv, NewRunOK
  <1>2. CASE WriteRunFile(h)
    BY <1>1, <1>2 DEF WriteRunFile, Goto, Steps
  <1>3. CASE SyncRunFile(h)
    BY <1>1, <1>3 DEF SyncRunFile, Goto, Steps
  <1>4. CASE SyncRunDirectory(h)
    BY <1>1, <1>4 DEF SyncRunDirectory, SyncDirectory, Goto, Steps
  <1>5. CASE StageHead(h)
    BY <1>1, <1>5 DEF StageHead, StagedHead, Goto, Steps
  <1>6. CASE RenameHead(h)
    BY <1>1, <1>6 DEF RenameHead, Goto, Steps
  <1>7. CASE RemoveRunFile(h)
    <2>1. files' \in [Index -> Content] /\ dirty' \subseteq Index
      BY <1>1, <1>7 DEF RemoveRunFile, Removed
    <2>2. QED
      BY <1>1, <1>7, <2>1, ReturnTypes DEF RemoveRunFile, ReturnErr
  <1>8. CASE FailRunFile(h)
    <2>1. files' \in [Index -> Content]
      BY <1>1, <1>8 DEF FailRunFile
    <2>2. faults' \in 0..MaxFaults
      BY <1>1, <1>8, FaultTypes DEF FailRunFile
    <2>3. QED
      BY <1>1, <1>8, <2>1, <2>2, ReturnTypes DEF FailRunFile, ReturnErr
  <1>9. CASE FailHead(h)
    <2>1. tmp' \in [Process -> Content] /\ mem' \in [Handle -> Seq(Report)]
      BY <1>1, <1>9 DEF FailHead
    <2>2. faults' \in 0..MaxFaults
      BY <1>1, <1>9, FaultTypes DEF FailHead
    <2>3. QED
      BY <1>1, <1>9, <2>1, <2>2 DEF FailHead, Goto, Steps
  <1>10. QED
    BY <1>2, <1>3, <1>4, <1>5, <1>6, <1>7, <1>8, <1>9

-----------------------------------------------------------------------------
(* Calls, reads and errors                                                 *)

LEMMA OpenStep ==
  ASSUME IInv, NEW h \in Handle, Open(h)
  PROVE  IInv'
  <1>1. TypeOK'
    BY EmptySeq DEF IInv, TypeOK, Open, Present, Goto, Steps, dir, disk
  <1>2. /\ pc'[h] = "scanned" /\ mem'[h] = <<>> /\ report'[h] = NoReport
        /\ \A g \in Handle : g # h =>
             pc'[g] = pc[g] /\ mem'[g] = mem[g] /\ report'[g] = report[g]
    BY DEF IInv, TypeOK, CallInv, CallOK, Open, Goto
  <1>3. IsPrefix(<<>>, head)
    BY ChainPrefixes DEF IInv, TypeOK
  <1>4. ~InLimbo(h)' /\ CallOK(h)'
    BY <1>2 DEF InLimbo, CallOK
  <1>5. QED
    BY <1>1, <1>2, <1>3, <1>4, QuietStep DEF Open

LEMMA AppendReportStep ==
  ASSUME IInv, NEW h \in Handle, NEW r \in Report, AppendReport(h, r)
  PROVE  IInv'
  <1>1. TypeOK'
    BY DEF IInv, TypeOK, AppendReport, Present, Goto, Steps, dir, disk
  <1>2. /\ pc'[h] = "scanned" /\ mem'[h] = mem[h] /\ report'[h] = r
        /\ \A g \in Handle : g # h =>
             pc'[g] = pc[g] /\ mem'[g] = mem[g] /\ report'[g] = report[g]
    BY DEF IInv, TypeOK, AppendReport, Goto
  <1>3. IsPrefix(mem[h], head)
    BY DEF IInv, MemInv, InLimbo, AppendReport
  <1>4. ~InLimbo(h)' /\ CallOK(h)'
    BY <1>2 DEF InLimbo, CallOK, AppendReport
  <1>5. QED
    BY <1>1, <1>2, <1>3, <1>4, QuietStep DEF AppendReport

(* A call that returns an error: its handle keeps a prefix of the history. *)
LEMMA ReturnErrStep ==
  ASSUME IInv, TypeOK', NEW h \in Handle, pc[h] \notin {"stage", "rename"},
         ReturnErr(h), UNCHANGED <<dir, disk, mem, acked>>
  PROVE  IInv'
  <1>1. /\ pc'[h] \in {"closed", "ready"} /\ report'[h] = NoReport
        /\ \A g \in Handle : g # h =>
             pc'[g] = pc[g] /\ mem'[g] = mem[g] /\ report'[g] = report[g]
    BY DEF IInv, TypeOK, ReturnErr, Return, Goto
  <1>2. IsPrefix(mem[h], head)
    BY ChainPrefixes DEF IInv, TypeOK, MemInv, LimboInv, LimboOK
  <1>3. ~InLimbo(h)' /\ CallOK(h)'
    BY <1>1 DEF InLimbo, CallOK
  <1>4. QED
    BY <1>1, <1>2, <1>3, QuietStep

LEMMA ReadRunsStep ==
  ASSUME IInv, NEW h \in Handle, ReadRuns(h)
  PROVE  IInv'
  <1>1. TypeOK'
    BY ReadRunsTypes DEF IInv
  <1>2. CASE ReturnErr(h)
    BY <1>1, <1>2, ReturnErrStep DEF ReadRuns
  <1>3. CASE Goto(h, "loaded") /\ UNCHANGED report
    <2>1. /\ pc'[h] = "loaded" /\ mem'[h] = mem[h] /\ report'[h] = report[h]
          /\ \A g \in Handle : g # h =>
               pc'[g] = pc[g] /\ mem'[g] = mem[g] /\ report'[g] = report[g]
      BY <1>3 DEF IInv, TypeOK, ReadRuns, Goto
    <2>2. IsPrefix(mem[h], head)
      BY DEF IInv, MemInv, InLimbo, ReadRuns
    <2>3. ~InLimbo(h)' /\ CallOK(h)'
      BY <2>1 DEF IInv, CallInv, InLimbo, CallOK, ReadRuns
    <2>4. QED
      BY <1>1, <2>1, <2>2, <2>3, QuietStep DEF ReadRuns
  <1>4. QED
    BY <1>2, <1>3 DEF ReadRuns

LEMMA VerifyHeadStep ==
  ASSUME IInv, NEW h \in Handle, VerifyHead(h)
  PROVE  IInv'
  <1>1. TypeOK' /\ pc[h] = "loaded" /\ head \in Seq(Report)
    BY VerifyHeadTypes DEF IInv, TypeOK, VerifyHead
  <1>2. CASE ReturnErr(h) /\ UNCHANGED mem
    BY <1>1, <1>2, ReturnErrStep DEF VerifyHead
  <1>3. CASE /\ HeadAccepts(loaded[h])
             /\ mem' = [mem EXCEPT ![h] = loaded[h]]
             /\ Return(h, "ready")
    <2>1. /\ pc'[h] = "ready" /\ mem'[h] = head /\ report'[h] = NoReport
          /\ \A g \in Handle : g # h =>
               pc'[g] = pc[g] /\ mem'[g] = mem[g] /\ report'[g] = report[g]
      BY <1>3 DEF IInv, TypeOK, HeadAccepts, Return, Goto
    <2>2. IsPrefix(mem'[h], head) /\ ~InLimbo(h)' /\ CallOK(h)'
      BY <1>1, <2>1, ChainPrefixes DEF InLimbo, CallOK
    <2>3. QED
      BY <1>1, <2>1, <2>2, QuietStep DEF VerifyHead
  <1>4. CASE report[h] # NoReport /\ Goto(h, "create") /\ UNCHANGED <<mem, report>>
    <2>1. /\ pc'[h] = "create" /\ mem'[h] = mem[h] /\ report'[h] = report[h]
          /\ \A g \in Handle : g # h =>
               pc'[g] = pc[g] /\ mem'[g] = mem[g] /\ report'[g] = report[g]
      BY <1>4 DEF IInv, TypeOK, Goto
    <2>2. IsPrefix(mem[h], head)
      BY <1>1 DEF IInv, MemInv, InLimbo
    <2>3. ~InLimbo(h)' /\ CallOK(h)'
      BY <1>1, <1>4, <2>1 DEF IInv, TypeOK, CallInv, InLimbo, CallOK
    <2>4. QED
      BY <1>1, <2>1, <2>2, <2>3, QuietStep DEF VerifyHead
  <1>5. QED
    BY <1>2, <1>3, <1>4 DEF VerifyHead

LEMMA FailCallStep ==
  ASSUME IInv, NEW h \in Handle, FailCall(h)
  PROVE  IInv'
  <1>1. TypeOK'
    BY ReturnTypes, FaultTypes DEF IInv, TypeOK, FailCall, ReturnErr, dir, disk
  <1>2. QED
    BY <1>1, ReturnErrStep DEF FailCall

LEMMA KillStep ==
  ASSUME IInv, NEW p \in Process, Kill(p)
  PROVE  IInv'
  <1> DEFINE gone == {h \in Handle : ProcessOf[h] = p}
  <1>1. Forget(gone) /\ UNCHANGED <<dir, disk, acked>> /\ Fault("kill")
    BY DEF Kill
  <1> HIDE DEF gone
  <1>2. TypeOK'
    BY <1>1, ForgetTypes, FaultTypes DEF IInv, TypeOK, dir, disk
  <1>3. ASSUME NEW g \in Handle
        PROVE  \/ pc'[g] = pc[g] /\ mem'[g] = mem[g] /\ report'[g] = report[g]
               \/ ~InLimbo(g)' /\ IsPrefix(mem'[g], head) /\ CallOK(g)'
    <2>1. CASE g \in gone
      <3>1. pc'[g] = "closed" /\ mem'[g] = <<>> /\ report'[g] = NoReport
        BY <1>1, <2>1 DEF Forget
      <3>2. IsPrefix(<<>>, head)
        BY ChainPrefixes DEF IInv, TypeOK
      <3>3. QED
        BY <3>1, <3>2 DEF InLimbo, CallOK
    <2>2. CASE g \notin gone
      BY <1>1, <2>2 DEF Forget
    <2>3. QED
      BY <2>1, <2>2
  <1>4. QED
    BY <1>1, <1>2, <1>3, QuietStep

-----------------------------------------------------------------------------
(* The steps that write                                                    *)

(* Every run the head counts has a file, so the name of the next run is    *)
(* free only for a handle that has them all.                               *)
LEMMA CountedRunsHaveFiles ==
  ASSUME IInv, NEW i \in 0..(Len(head) - 1)
  PROVE  /\ files[i] \in Seq(Report) /\ Len(files[i]) = i + 1 /\ files[i] # NoFile
         /\ files[i] # Torn /\ i \in Index
  <1>1. head \in Seq(Report) /\ Len(head) \in Nat /\ Len(head) <= MaxRuns /\ MaxRuns \in Nat
    BY LenProperties, HistoryAssumption DEF IInv, TypeOK, DurableInv
  <1>2. files[i] = SubSeq(head, 1, i + 1)
    BY DEF IInv, HeadCovered
  <1>3. SubSeq(head, 1, i + 1) \in Seq(Report) /\ Len(SubSeq(head, 1, i + 1)) = i + 1
    BY <1>1, SubSeqProperties
  <1>4. i \in Index
    BY <1>1 DEF Index
  <1>5. QED
    BY <1>2, <1>3, <1>4, HistoryAssumption

LEMMA FreeNameIsNext ==
  ASSUME IInv, NEW h \in Handle, pc[h] = "create", NameIsFree(h)
  PROVE  mem[h] = head /\ Slot(h) = Len(head)
  <1>1. /\ Slot(h) = Len(mem[h]) /\ mem[h] \in Seq(Report) /\ head \in Seq(Report)
        /\ IsPrefix(mem[h], head)
    BY DEF Slot, IInv, TypeOK, MemInv, InLimbo
  <1>2. Len(mem[h]) \in Nat /\ Len(head) \in Nat /\ Len(mem[h]) <= Len(head)
    BY <1>1, ChainPrefixes, LenProperties
  <1>3. ~(Len(mem[h]) < Len(head))
    BY <1>1, <1>2, CountedRunsHaveFiles DEF NameIsFree
  <1>4. QED
    BY <1>1, <1>2, <1>3, ChainPrefixes

(* create_new succeeds only for a handle that holds the whole history, and *)
(* then no other handle is in limbo: its file would have the same name.    *)
LEMMA CreateRunFileStep ==
  ASSUME IInv, NEW h \in Handle, CreateRunFile(h)
  PROVE  IInv'
  <1>1. /\ pc[h] = "create" /\ Slot(h) = Len(mem[h]) /\ report[h] \in Report
        /\ mem[h] \in Seq(Report) /\ head \in Seq(Report) /\ IsPrefix(mem[h], head)
        /\ Len(mem[h]) < MaxRuns /\ TypeOK
    BY HistoryAssumption
    DEF CreateRunFile, Slot, IInv, TypeOK, CallInv, CallOK, MemInv, InLimbo
  <1>2. Len(mem[h]) \in Nat /\ Len(head) \in Nat /\ Len(mem[h]) <= Len(head)
    BY <1>1, ChainPrefixes, LenProperties
  <1>3. Slot(h) \in Index
    BY <1>1, <1>2, HistoryAssumption DEF Index
  <1>4. CASE ReturnErr(h) /\ UNCHANGED <<files, dirty>>
    <2>1. UNCHANGED <<dir, disk, mem, acked>> /\ UNCHANGED faults
      BY <1>4 DEF CreateRunFile, dir, disk
    <2>2. TypeOK'
      BY <1>1, <1>4, <2>1, ReturnTypes DEF TypeOK, ReturnErr, dir, disk
    <2>3. QED
      BY <1>1, <1>4, <2>1, <2>2, ReturnErrStep
  <1>5. CASE /\ NameIsFree(h)
             /\ files' = [files EXCEPT ![Slot(h)] = Torn]
             /\ dirty' = dirty \cup {Slot(h)}
             /\ Goto(h, "write")
             /\ UNCHANGED report
    <2>1. mem[h] = head
      BY <1>1, <1>5, FreeNameIsNext
    <2>2. \A g \in Handle : ~InLimbo(g)
      BY <1>1, <1>5, <2>1 DEF IInv, LimboInv, LimboOK, NameIsFree
    <2>3. TypeOK'
      BY <1>1, <1>3, <1>5 DEF CreateRunFile, TypeOK, Content, Goto, Steps
    <2>4. /\ pc'[h] = "write" /\ mem'[h] = head /\ report'[h] = report[h]
          /\ head' = head /\ acked' = acked /\ diskHead' = diskHead
          /\ diskFiles' = diskFiles /\ mem' = mem /\ report' = report
          /\ \A g \in Handle : g # h => pc'[g] = pc[g]
      BY <1>1, <1>5, <2>1 DEF CreateRunFile, TypeOK, Goto
    <2>5. files'[Len(head)] = Torn /\ Torn # NoFile
      BY <1>1, <1>3, <1>5, <2>1, HistoryAssumption DEF TypeOK
    <2>6. /\ InLimbo(h)' /\ CallOK(h)' /\ LimboOK(h)' /\ NewRunOK(h)'
      BY <1>1, <2>1, <2>4, <2>5 DEF InLimbo, CallOK, LimboOK, NewRunOK
    <2>7. \A i \in 0..(Len(head) - 1) :
            files'[i] = files[i] /\ (i \in dirty' => i \in dirty)
      BY <1>1, <1>2, <1>5, <2>1 DEF TypeOK
    <2>8. QED
      BY <2>2, <2>3, <2>4, <2>6, <2>7, WriterStep
  <1>6. QED
    BY <1>4, <1>5 DEF CreateRunFile

LEMMA WriteRunFileStep ==
  ASSUME IInv, NEW h \in Handle, WriteRunFile(h)
  PROVE  IInv'
  <1>1. InLimbo(h) /\ pc[h] = "write" /\ TypeOK
    BY DEF IInv, WriteRunFile, InLimbo
  <1>2. /\ Slot(h) = Len(head) /\ Slot(h) \in Index
        /\ NewRun(h) = Append(head, report[h]) /\ NewRun(h) \in Seq(Report)
        /\ \A g \in Handle : g # h => ~InLimbo(g)
        /\ Len(head) \in Nat /\ LimboOK(h)
    BY <1>1, SlotIsNext, LenProperties DEF IInv, TypeOK, LimboInv
  <1>3. TypeOK'
    BY <1>1, LimboTypes
  <1>4. /\ pc'[h] = "fsync" /\ mem' = mem /\ report' = report /\ head' = head
        /\ files'[Len(head)] = NewRun(h)
        /\ dirty' = dirty /\ diskFiles' = diskFiles /\ diskHead' = diskHead /\ acked' = acked
        /\ \A g \in Handle : g # h => pc'[g] = pc[g]
        /\ \A i \in 0..(Len(head) - 1) : files'[i] = files[i]
    BY <1>1, <1>2 DEF WriteRunFile, TypeOK, Goto, disk
  <1>5. NewRun(h) # NoFile
    BY <1>2, HistoryAssumption
  <1>6. InLimbo(h)' /\ CallOK(h)' /\ LimboOK(h)' /\ NewRunOK(h)'
    BY <1>1, <1>2, <1>4, <1>5 DEF InLimbo, CallOK, LimboOK, NewRunOK
  <1>7. QED
    BY <1>2, <1>3, <1>4, <1>6, WriterStep

LEMMA SyncRunFileStep ==
  ASSUME IInv, NEW h \in Handle, SyncRunFile(h)
  PROVE  IInv'
  <1>1. InLimbo(h) /\ pc[h] = "fsync" /\ TypeOK
    BY DEF IInv, SyncRunFile, InLimbo
  <1>2. /\ Slot(h) = Len(head) /\ Slot(h) \in Index
        /\ \A g \in Handle : g # h => ~InLimbo(g)
        /\ Len(head) \in Nat /\ LimboOK(h) /\ NewRunOK(h)
    BY <1>1, SlotIsNext, LenProperties DEF IInv, TypeOK, LimboInv, NewRunInv
  <1>3. TypeOK'
    BY <1>1, LimboTypes
  <1>4. /\ pc'[h] = "syncRun" /\ mem' = mem /\ report' = report /\ head' = head
        /\ files' = files /\ dirty' = dirty \ {Len(head)}
        /\ diskHead' = diskHead /\ acked' = acked
        /\ \A g \in Handle : g # h => pc'[g] = pc[g]
        /\ \A i \in 0..(Len(head) - 1) : diskFiles'[i] = diskFiles[i]
    BY <1>1, <1>2 DEF SyncRunFile, TypeOK, Goto, dir
  <1>5. InLimbo(h)' /\ CallOK(h)' /\ LimboOK(h)' /\ NewRunOK(h)'
    BY <1>1, <1>2, <1>4 DEF InLimbo, CallOK, LimboOK, NewRunOK
  <1>6. QED
    BY <1>2, <1>3, <1>4, <1>5, WriterStep

LEMMA SyncRunDirectoryStep ==
  ASSUME IInv, NEW h \in Handle, SyncRunDirectory(h)
  PROVE  IInv'
  <1>1. InLimbo(h) /\ pc[h] = "syncRun" /\ TypeOK
    BY DEF IInv, SyncRunDirectory, InLimbo
  <1>2. /\ NewRun(h) = Append(head, report[h])
        /\ \A g \in Handle : g # h => ~InLimbo(g)
        /\ LimboOK(h) /\ NewRunOK(h)
    BY <1>1, SlotIsNext DEF IInv, LimboInv, NewRunInv
  <1>3. TypeOK'
    BY <1>1, LimboTypes
  <1>4. /\ pc'[h] = "stage" /\ mem'[h] = Append(head, report[h]) /\ report' = report
        /\ head' = head /\ files' = files /\ dirty' = dirty
        /\ diskFiles' = files /\ diskHead' = head /\ acked' = acked
        /\ \A g \in Handle : g # h => pc'[g] = pc[g] /\ mem'[g] = mem[g]
    BY <1>1, <1>2 DEF SyncRunDirectory, SyncDirectory, TypeOK, Goto, dir
  <1>5. InLimbo(h)' /\ CallOK(h)' /\ LimboOK(h)' /\ NewRunOK(h)'
    BY <1>1, <1>2, <1>4 DEF InLimbo, CallOK, LimboOK, NewRunOK
  <1>6. QED
    BY <1>2, <1>3, <1>4, <1>5, WriterStep

LEMMA StageHeadStep ==
  ASSUME IInv, NEW h \in Handle, StageHead(h)
  PROVE  IInv'
  <1>1. InLimbo(h) /\ pc[h] = "stage" /\ TypeOK
    BY DEF IInv, StageHead, InLimbo
  <1>2. /\ \A g \in Handle : g # h => ~InLimbo(g)
        /\ LimboOK(h) /\ NewRunOK(h) /\ ProcessOf[h] \in Process
    BY <1>1, SlotIsNext, HistoryAssumption DEF IInv, LimboInv, NewRunInv
  <1>3. TypeOK'
    BY <1>1, LimboTypes
  <1>4. /\ pc'[h] = "rename" /\ mem' = mem /\ report' = report /\ head' = head
        /\ files' = files /\ dirty' = dirty /\ diskFiles' = diskFiles
        /\ diskHead' = diskHead /\ acked' = acked
        /\ tmp'[ProcessOf[h]] = mem[h]
        /\ \A g \in Handle : g # h => pc'[g] = pc[g]
    BY <1>1, <1>2 DEF StageHead, StagedHead, TypeOK, Goto, disk
  <1>5. InLimbo(h)' /\ CallOK(h)' /\ LimboOK(h)' /\ NewRunOK(h)'
    BY <1>1, <1>2, <1>4 DEF InLimbo, CallOK, LimboOK, NewRunOK
  <1>6. QED
    BY <1>2, <1>3, <1>4, <1>5, WriterStep

(* The commit.  The head takes in the one run in limbo, whose file and     *)
(* directory entry are durable by now.                                     *)
LEMMA RenameHeadStep ==
  ASSUME IInv, NEW h \in Handle, RenameHead(h)
  PROVE  IInv' /\ report[h] \in Report /\ head' = Append(head, report[h])
  <1> DEFINE new == Append(head, report[h])
  <1>1. InLimbo(h) /\ pc[h] = "rename" /\ TypeOK
    BY DEF IInv, RenameHead, InLimbo
  <1>2. /\ \A g \in Handle : g # h => ~InLimbo(g)
        /\ LimboOK(h) /\ NewRunOK(h) /\ head \in Seq(Report) /\ diskHead \in Seq(Report)
        /\ acked \subseteq Seq(Report)
    BY <1>1, SlotIsNext DEF IInv, TypeOK, LimboInv, NewRunInv
  <1>3. TypeOK'
    BY <1>1, LimboTypes
  <1>4. /\ new \in Seq(Report) /\ Len(new) = Len(head) + 1 /\ Len(head) \in Nat
        /\ \A i \in 1..Len(head) : SubSeq(new, 1, i) = SubSeq(head, 1, i)
        /\ SubSeq(new, 1, Len(head) + 1) = new
        /\ IsPrefix(head, new) /\ IsPrefix(new, new)
    BY <1>2, ChainAppends, ChainPrefixes, LenProperties DEF LimboOK
  <1>5. /\ head' = new /\ mem' = mem /\ mem[h] = new /\ report' = report
        /\ pc'[h] = "syncHead" /\ \A g \in Handle : g # h => pc'[g] = pc[g]
        /\ files' = files /\ dirty' = dirty /\ diskFiles' = diskFiles
        /\ diskHead' = diskHead /\ acked' = acked
    BY <1>1, <1>2 DEF RenameHead, TypeOK, Goto, disk, LimboOK, NewRunOK
  <1>6. /\ files[Len(head)] = new /\ diskFiles[Len(head)] = new /\ Len(head) \notin dirty
        /\ report[h] \in Report /\ Len(head) < MaxRuns
    BY <1>1, <1>2 DEF LimboOK, NewRunOK
  <1> HIDE DEF new
  <1>7. \A g \in Handle : ~InLimbo(g)'
    BY <1>2, <1>5 DEF InLimbo
  <1>8. OneAppender' /\ LimboInv' /\ NewRunInv'
    BY <1>7 DEF OneAppender, LimboInv, NewRunInv
  <1>9. MemInv'
    <2>1. ASSUME NEW g \in Handle
          PROVE  IsPrefix(mem[g], new)
      <3>1. CASE g = h
        BY <1>4, <1>5, <3>1
      <3>2. CASE g # h
        <4>1. IsPrefix(mem[g], head) /\ mem[g] \in Seq(Report)
          BY <1>1, <1>2, <3>2 DEF IInv, MemInv, TypeOK
        <4>2. QED
          BY <1>2, <1>4, <4>1, ChainPrefixes
      <3>3. QED
        BY <3>1, <3>2
    <2>2. QED
      BY <1>5, <2>1 DEF MemInv
  <1>10. CallInv'
    <2>1. new # <<>>
      BY <1>4, EmptySeq
    <2>2. CallOK(h)'
      BY <1>5, <1>6, <2>1 DEF CallOK
    <2>3. QED
      BY <1>5, <2>2 DEF IInv, CallInv, CallOK
  <1>11. HeadCovered' /\ DurableInv'
    <2>1. \A i \in 0..(Len(head) - 1) :
            /\ files[i] = SubSeq(new, 1, i + 1)
            /\ diskFiles[i] = SubSeq(new, 1, i + 1)
            /\ i \notin dirty
      <3>1. \A i \in 0..(Len(head) - 1) : SubSeq(new, 1, i + 1) = SubSeq(head, 1, i + 1)
        BY <1>4
      <3>2. QED
        BY <3>1 DEF IInv, HeadCovered, DurableInv
    <2>2. \A i \in 0..(Len(new) - 1) :
            /\ files[i] = SubSeq(new, 1, i + 1)
            /\ diskFiles[i] = SubSeq(new, 1, i + 1)
            /\ i \notin dirty
      <3>1. ASSUME NEW i \in 0..(Len(new) - 1), i # Len(head)
            PROVE  i \in 0..(Len(head) - 1)
        BY <1>4, <3>1
      <3>2. QED
        BY <1>4, <1>6, <2>1, <3>1
    <2>3. Len(new) <= MaxRuns
      BY <1>4, <1>6, HistoryAssumption
    <2>4. IsPrefix(diskHead, head)
      BY DEF IInv, DurableInv
    <2>5. IsPrefix(diskHead, new)
      BY <1>2, <1>4, <2>4, ChainPrefixes
    <2>6. QED
      BY <1>5, <2>2, <2>3, <2>5 DEF HeadCovered, DurableInv
  <1>12. AckedInv'
    BY <1>5 DEF IInv, AckedInv
  <1>13. QED
    BY <1>3, <1>5, <1>6, <1>8, <1>9, <1>10, <1>11, <1>12 DEF IInv, new

(* The return of Ok.  Another handle may be in limbo already.              *)
LEMMA SyncHeadDirectoryStep ==
  ASSUME IInv, NEW h \in Handle, SyncHeadDirectory(h)
  PROVE  IInv'
  <1>1. /\ pc[h] = "syncHead" /\ TypeOK /\ ~InLimbo(h)
        /\ head \in Seq(Report) /\ diskHead \in Seq(Report) /\ mem[h] \in Seq(Report)
        /\ acked \subseteq Seq(Report)
    BY DEF IInv, TypeOK, SyncHeadDirectory, InLimbo
  <1>2. /\ files' = files /\ head' = head /\ tmp' = tmp /\ dirty' = dirty /\ mem' = mem
        /\ diskFiles' = files /\ diskHead' = head /\ acked' = acked \cup {mem[h]}
        /\ pc'[h] = "ready" /\ report'[h] = NoReport
        /\ \A g \in Handle : g # h => pc'[g] = pc[g] /\ report'[g] = report[g]
    BY <1>1 DEF SyncHeadDirectory, SyncDirectory, Return, Goto, TypeOK, dir
  <1>3. TypeOK'
    BY <1>1, <1>2, ReturnTypes DEF SyncHeadDirectory, TypeOK
  <1>4. /\ ~InLimbo(h)' /\ CallOK(h)'
        /\ \A g \in Handle : g # h => (InLimbo(g)' <=> InLimbo(g))
    BY <1>2 DEF InLimbo, CallOK
  <1>5. OneAppender'
    BY <1>4 DEF IInv, OneAppender
  <1>6. LimboInv'
    BY <1>2, <1>4 DEF IInv, LimboInv, LimboOK
  <1>7. NewRunInv'
    BY <1>2, <1>4 DEF IInv, NewRunInv, NewRunOK
  <1>8. MemInv'
    BY <1>1, <1>2, <1>4 DEF IInv, MemInv
  <1>9. CallInv'
    BY <1>2, <1>4 DEF IInv, CallInv, CallOK
  <1>10. HeadCovered' /\ DurableInv'
    <2>1. IsPrefix(head, head)
      BY <1>1, ChainPrefixes
    <2>2. QED
      BY <1>2, <2>1 DEF IInv, HeadCovered, DurableInv
  <1>11. AckedInv'
    <2>1. IsPrefix(mem[h], head)
      BY <1>1 DEF IInv, MemInv
    <2>2. \A c \in acked : IsPrefix(c, head)
      BY <1>1, ChainPrefixes DEF IInv, AckedInv, DurableInv
    <2>3. QED
      BY <1>2, <2>1, <2>2 DEF AckedInv
  <1>12. QED
    BY <1>3, <1>5, <1>6, <1>7, <1>8, <1>9, <1>10, <1>11 DEF IInv

LEMMA RemoveRunFileStep ==
  ASSUME IInv, NEW h \in Handle, RemoveRunFile(h)
  PROVE  IInv'
  <1>1. InLimbo(h) /\ pc[h] = "undo" /\ TypeOK
    BY DEF IInv, RemoveRunFile, InLimbo
  <1>2. /\ Slot(h) = Len(head) /\ Slot(h) \in Index /\ Len(head) \in Nat
        /\ \A g \in Handle : g # h => ~InLimbo(g)
        /\ mem[h] = head /\ IsPrefix(head, head)
    BY <1>1, SlotIsNext, LenProperties, ChainPrefixes
    DEF IInv, TypeOK, LimboInv, LimboOK
  <1>3. TypeOK'
    BY <1>1, LimboTypes
  <1>4. /\ pc'[h] \in {"closed", "ready"} /\ mem' = mem /\ report'[h] = NoReport
        /\ head' = head /\ diskFiles' = diskFiles /\ diskHead' = diskHead /\ acked' = acked
        /\ dirty' = dirty \ {Len(head)}
        /\ \A g \in Handle : g # h => pc'[g] = pc[g] /\ report'[g] = report[g]
        /\ \A i \in 0..(Len(head) - 1) : files'[i] = files[i]
    BY <1>1, <1>2 DEF RemoveRunFile, Removed, ReturnErr, Return, TypeOK, Goto
  <1>5. ~InLimbo(h)' /\ CallOK(h)' /\ IsPrefix(mem'[h], head)
    BY <1>2, <1>4 DEF InLimbo, CallOK
  <1>6. QED
    BY <1>2, <1>3, <1>4, <1>5, WriterStep

LEMMA FailRunFileStep ==
  ASSUME IInv, NEW h \in Handle, FailRunFile(h)
  PROVE  IInv'
  <1>1. InLimbo(h) /\ pc[h] \in {"write", "fsync"} /\ TypeOK
    BY DEF IInv, FailRunFile, InLimbo
  <1>2. /\ Slot(h) = Len(head) /\ Slot(h) \in Index /\ Len(head) \in Nat
        /\ \A g \in Handle : g # h => ~InLimbo(g)
        /\ mem[h] = head /\ IsPrefix(head, head)
    BY <1>1, SlotIsNext, LenProperties, ChainPrefixes
    DEF IInv, TypeOK, LimboInv, LimboOK
  <1>3. TypeOK'
    BY <1>1, LimboTypes
  <1>4. /\ pc'[h] \in {"closed", "ready"} /\ mem' = mem /\ report'[h] = NoReport
        /\ head' = head /\ diskFiles' = diskFiles /\ diskHead' = diskHead /\ acked' = acked
        /\ dirty' = dirty
        /\ \A g \in Handle : g # h => pc'[g] = pc[g] /\ report'[g] = report[g]
    BY <1>1 DEF FailRunFile, ReturnErr, Return, TypeOK, Goto, disk
  <1>5. \A i \in 0..(Len(head) - 1) : files'[i] = files[i]
    <2>1. CASE files' = [files EXCEPT ![Len(head)] = Torn]
      BY <1>1, <1>2, <2>1 DEF TypeOK
    <2>2. CASE files' = files
      BY <2>2
    <2>3. QED
      BY <1>2, <2>1, <2>2 DEF FailRunFile
  <1>6. ~InLimbo(h)' /\ CallOK(h)' /\ IsPrefix(mem'[h], head)
    BY <1>2, <1>4 DEF InLimbo, CallOK
  <1>7. QED
    BY <1>2, <1>3, <1>4, <1>5, <1>6, WriterStep

LEMMA FailHeadStep ==
  ASSUME IInv, NEW h \in Handle, FailHead(h)
  PROVE  IInv'
  <1>1. InLimbo(h) /\ pc[h] \in {"stage", "rename"} /\ TypeOK
    BY DEF IInv, FailHead, InLimbo
  <1>2. /\ Popped(h) = head /\ LimboOK(h)
        /\ \A g \in Handle : g # h => ~InLimbo(g)
    BY <1>1, SlotIsNext DEF IInv, LimboInv
  <1>3. TypeOK'
    BY <1>1, LimboTypes
  <1>4. /\ pc'[h] = "undo" /\ mem'[h] = head /\ report' = report
        /\ head' = head /\ files' = files /\ diskFiles' = diskFiles /\ diskHead' = diskHead
        /\ dirty' = dirty /\ acked' = acked
        /\ \A g \in Handle : g # h => pc'[g] = pc[g] /\ mem'[g] = mem[g]
    BY <1>1, <1>2 DEF FailHead, TypeOK, Goto, disk
  <1>5. InLimbo(h)' /\ CallOK(h)' /\ LimboOK(h)' /\ NewRunOK(h)'
    BY <1>2, <1>4 DEF InLimbo, CallOK, LimboOK, NewRunOK
  <1>6. QED
    BY <1>2, <1>3, <1>4, <1>5, WriterStep

(* Whatever entries a power loss keeps, the head it keeps is covered.      *)
LEMMA LosePowerStep ==
  ASSUME IInv, LosePower
  PROVE  IInv'
  <1>1. PICK kept \in SUBSET Index, torn \in SUBSET dirty :
          files' = [i \in Index |-> IF i \in torn THEN Torn
                                    ELSE IF i \in kept THEN files[i] ELSE diskFiles[i]]
    BY DEF LosePower
  <1>2. /\ head' \in {head, diskHead} /\ diskHead' = head' /\ diskFiles' = files'
        /\ dirty' = {} /\ acked' = acked /\ TypeOK
        /\ head \in Seq(Report) /\ diskHead \in Seq(Report) /\ head' \in Seq(Report)
    BY DEF IInv, TypeOK, LosePower
  <1>3. \A g \in Handle : pc'[g] = "closed" /\ mem'[g] = <<>> /\ report'[g] = NoReport
    BY DEF LosePower, Forget
  <1>4. TypeOK'
    <2>1. files' \in [Index -> Content] /\ tmp' \in [Process -> Content]
      BY <1>1, <1>2 DEF LosePower, TypeOK, Content
    <2>2. faults' \in 0..MaxFaults
      BY <1>2, FaultTypes DEF LosePower
    <2>3. QED
      BY <1>2, <2>1, <2>2, ForgetTypes DEF LosePower, TypeOK
  <1>5. \A g \in Handle : ~InLimbo(g)' /\ CallOK(g)'
    BY <1>3 DEF InLimbo, CallOK
  <1>6. OneAppender' /\ LimboInv' /\ NewRunInv' /\ CallInv'
    BY <1>5 DEF OneAppender, LimboInv, NewRunInv, CallInv
  <1>7. MemInv'
    <2>1. IsPrefix(<<>>, head')
      BY <1>2, ChainPrefixes
    <2>2. QED
      BY <1>3, <2>1 DEF MemInv
  <1>8. /\ IsPrefix(head', head) /\ IsPrefix(head', head') /\ IsPrefix(diskHead, head)
        /\ Len(head) \in Nat /\ Len(head') \in Nat /\ Len(head') <= Len(head)
        /\ \A i \in 1..Len(head') : SubSeq(head', 1, i) = SubSeq(head, 1, i)
    <2>1. IsPrefix(diskHead, head)
      BY DEF IInv, DurableInv
    <2>2. IsPrefix(head', head)
      BY <1>2, <2>1, ChainPrefixes
    <2>3. QED
      BY <1>2, <2>1, <2>2, ChainPrefixes, LenProperties
  <1>9. \A i \in 0..(Len(head') - 1) : files'[i] = SubSeq(head', 1, i + 1)
    <2>1. ASSUME NEW i \in 0..(Len(head') - 1)
          PROVE  files'[i] = SubSeq(head', 1, i + 1)
      <3>1. i \in 0..(Len(head) - 1) /\ i + 1 \in 1..Len(head')
        BY <1>8
      <3>2. files[i] = SubSeq(head, 1, i + 1)
        BY <3>1 DEF IInv, HeadCovered
      <3>3. diskFiles[i] = SubSeq(head, 1, i + 1) /\ i \notin dirty /\ Len(head) <= MaxRuns
        BY <3>1 DEF IInv, DurableInv
      <3>4. i \in Index
        BY <1>8, <3>1, <3>3, HistoryAssumption DEF Index
      <3>5. files'[i] = SubSeq(head, 1, i + 1)
        BY <1>1, <3>2, <3>3, <3>4
      <3>6. QED
        BY <1>8, <3>1, <3>5
    <2>2. QED
      BY <2>1
  <1>10. HeadCovered' /\ DurableInv'
    <2>1. Len(head') <= MaxRuns
      BY <1>8, HistoryAssumption DEF IInv, DurableInv
    <2>2. QED
      BY <1>2, <1>8, <1>9, <2>1 DEF HeadCovered, DurableInv
  <1>11. AckedInv'
    <2>1. \A c \in acked : IsPrefix(c, diskHead) /\ c \in Seq(Report)
      BY DEF IInv, TypeOK, AckedInv
    <2>2. \A c \in acked : IsPrefix(c, head')
      BY <1>2, <1>8, <2>1, ChainPrefixes
    <2>3. QED
      BY <1>2, <2>2 DEF AckedInv
  <1>12. QED
    BY <1>4, <1>6, <1>7, <1>10, <1>11 DEF IInv

-----------------------------------------------------------------------------
(* The invariant                                                           *)

LEMMA InitIInv == Init => IInv
  <1> SUFFICES ASSUME Init PROVE IInv
    OBVIOUS
  <1>1. <<>> \in Seq(Report) /\ Len(<<>>) = 0 /\ IsPrefix(<<>>, <<>>)
    BY EmptySeq, ChainPrefixes
  <1>2. TypeOK
    BY <1>1, HistoryAssumption DEF Init, TypeOK, Content
  <1>3. \A h \in Handle : ~InLimbo(h) /\ CallOK(h)
    BY DEF Init, InLimbo, CallOK
  <1>4. OneAppender /\ LimboInv /\ NewRunInv /\ CallInv
    BY <1>3 DEF OneAppender, LimboInv, NewRunInv, CallInv
  <1>5. MemInv /\ AckedInv
    BY <1>1 DEF Init, MemInv, AckedInv
  <1>6. HeadCovered /\ DurableInv
    BY <1>1, HistoryAssumption DEF Init, HeadCovered, DurableInv
  <1>7. QED
    BY <1>2, <1>4, <1>5, <1>6 DEF IInv

LEMMA StutterIInv ==
  ASSUME IInv, UNCHANGED vars
  PROVE  IInv'
  <1>1. TypeOK'
    BY DEF IInv, TypeOK, vars, dir, disk, local
  <1>2. QED
    BY <1>1, QuietStep DEF vars, local

LEMMA NextIInv ==
  ASSUME IInv, [Next]_vars
  PROVE  IInv'
  <1>1. ASSUME NEW h \in Handle, Call(h)
        PROVE  IInv'
    BY <1>1, OpenStep, AppendReportStep DEF Call
  <1>2. ASSUME NEW h \in Handle, Step(h)
        PROVE  IInv'
    BY <1>2, ReadRunsStep, VerifyHeadStep, CreateRunFileStep, WriteRunFileStep,
       SyncRunFileStep, SyncRunDirectoryStep, StageHeadStep, RenameHeadStep,
       SyncHeadDirectoryStep, RemoveRunFileStep DEF Step
  <1>3. ASSUME NEW h \in Handle, Fail(h)
        PROVE  IInv'
    BY <1>3, FailCallStep, FailRunFileStep, FailHeadStep DEF Fail
  <1>4. ASSUME NEW p \in Process, Kill(p)
        PROVE  IInv'
    BY <1>4, KillStep
  <1>5. CASE LosePower
    BY <1>5, LosePowerStep
  <1>6. CASE UNCHANGED vars
    BY <1>6, StutterIInv
  <1>7. QED
    BY <1>1, <1>2, <1>3, <1>4, <1>5, <1>6 DEF Next

(* The invariant holds in every reachable state, whatever the number of    *)
(* handles, processes, runs and faults.                                    *)
THEOREM Invariant == Spec => []IInv
  <1>1. Init => IInv
    BY InitIInv
  <1>2. IInv /\ [Next]_vars => IInv'
    BY NextIInv
  <1>3. QED
    BY <1>1, <1>2, PTL DEF Spec

-----------------------------------------------------------------------------
(* Safety                                                                  *)

(* The variables keep their types: in particular an append only ever       *)
(* addresses a run file within the bound, and a staged head is a whole one *)
(* when it is renamed.                                                     *)
THEOREM TypeCorrect == Spec => []TypeOK
  <1>1. IInv => TypeOK
    BY DEF IInv
  <1>2. QED
    BY <1>1, Invariant, PTL

(* create_new is enough: no two appenders ever work past it at a time.     *)
THEOREM AppendersExclude == Spec => []OneAppender
  <1>1. IInv => OneAppender
    BY DEF IInv
  <1>2. QED
    BY <1>1, Invariant, PTL

(* What any handle holds is a prefix of the one committed history.         *)
THEOREM HistoryNeverForks == Spec => []NoFork
  <1>1. IInv => NoFork
    <2>1. SUFFICES ASSUME IInv, NEW h \in Handle
                   PROVE  IsPrefix(Base(h), head)
      BY DEF NoFork
    <2>2. head \in Seq(Report)
      BY <2>1 DEF IInv, TypeOK
    <2>3. IsPrefix(head, head)
      BY <2>2, ChainPrefixes
    <2>4. CASE InLimbo(h)
      <3>1. LimboOK(h) /\ (pc[h] \in {"stage", "rename"} => Front(mem[h]) = head)
        BY <2>1, <2>4, SlotIsNext DEF IInv, LimboInv, Popped
      <3>2. Base(h) = head
        BY <3>1 DEF Base, LimboOK
      <3>3. QED
        BY <2>3, <3>2
    <2>5. CASE ~InLimbo(h)
      BY <2>1, <2>5 DEF IInv, MemInv, Base, InLimbo
    <2>6. QED
      BY <2>4, <2>5
  <1>2. QED
    BY <1>1, Invariant, PTL

(* The head never counts a run whose file is missing, torn or another's,   *)
(* power losses and unfinished appends included.                           *)
THEOREM HeadIsCovered == Spec => []HeadCovered
  <1>1. IInv => HeadCovered
    BY DEF IInv
  <1>2. QED
    BY <1>1, Invariant, PTL

(* An append that returned Ok is never taken back.                         *)
THEOREM AckedAreKept == Spec => []AckedStay
  <1>1. IInv => AckedStay
    <2>1. ASSUME IInv, NEW c \in acked
          PROVE  IsPrefix(c, head) /\ IsPrefix(c, diskHead)
      <3>1. /\ c \in Seq(Report) /\ diskHead \in Seq(Report) /\ head \in Seq(Report)
            /\ IsPrefix(c, diskHead) /\ IsPrefix(diskHead, head)
        BY <2>1 DEF IInv, TypeOK, AckedInv, DurableInv
      <3>2. QED
        BY <3>1, ChainPrefixes
    <2>2. QED
      BY <2>1 DEF AckedStay
  <1>2. QED
    BY <1>1, Invariant, PTL

-----------------------------------------------------------------------------
(* What a failed append leaves behind                                      *)

(* There is no file beyond those the head counts, but the one of an append *)
(* under way.                                                              *)
TailInv ==
  \A i \in Index : files[i] # NoFile =>
    i < Len(head) \/ (i = Len(head) /\ \E h \in Handle : InLimbo(h))

LEMMA TailQuiet ==
  ASSUME TailInv, UNCHANGED dir, \A h \in Handle : InLimbo(h) => InLimbo(h)'
  PROVE  TailInv'
  BY DEF TailInv, dir

LEMMA TailOfStep ==
  ASSUME IInv, TailInv, NEW h \in Handle, Step(h)
  PROVE  TailInv'
  <1>1. TypeOK /\ head \in Seq(Report) /\ Len(head) \in Nat
    BY LenProperties DEF IInv, TypeOK
  <1>2. CASE ReadRuns(h) \/ VerifyHead(h) \/ SyncRunFile(h) \/ SyncRunDirectory(h) \/ StageHead(h)
             \/ SyncHeadDirectory(h)
    <2>1. files' = files /\ head' = head
      BY <1>2 DEF ReadRuns, VerifyHead, SyncRunFile, SyncRunDirectory, StageHead,
         SyncHeadDirectory, dir
    <2>2. \A g \in Handle : InLimbo(g) => InLimbo(g)'
      BY <1>1, <1>2 DEF ReadRuns, VerifyHead, SyncRunFile, SyncRunDirectory, StageHead,
         SyncHeadDirectory, TypeOK, InLimbo, Goto, Return, ReturnErr
    <2>3. QED
      BY <2>1, <2>2 DEF TailInv
  <1>3. CASE CreateRunFile(h)
    <2>1. CASE files' = files
      <3>1. \A g \in Handle : InLimbo(g) => InLimbo(g)'
        BY <1>1, <1>3 DEF CreateRunFile, TypeOK, InLimbo, Goto, Return, ReturnErr
      <3>2. QED
        BY <1>3, <2>1, <3>1 DEF CreateRunFile, TailInv
    <2>2. CASE NameIsFree(h) /\ files' = [files EXCEPT ![Slot(h)] = Torn] /\ Goto(h, "write")
      <3>1. Slot(h) = Len(head) /\ head' = head /\ InLimbo(h)'
        BY <1>1, <1>3, <2>2, FreeNameIsNext DEF CreateRunFile, TypeOK, InLimbo, Goto
      <3>2. \A i \in Index : i # Len(head) => files'[i] = files[i]
        BY <1>1, <2>2, <3>1 DEF TypeOK
      <3>3. QED
        BY <3>1, <3>2 DEF TailInv
    <2>3. QED
      BY <1>3, <2>1, <2>2 DEF CreateRunFile
  <1>4. CASE WriteRunFile(h)
    <2>1. InLimbo(h) /\ InLimbo(h)' /\ head' = head
      BY <1>1, <1>4 DEF WriteRunFile, TypeOK, InLimbo, Goto
    <2>2. \A i \in Index : i # Len(head) => files'[i] = files[i]
      BY <1>1, <1>4, <2>1, SlotIsNext DEF WriteRunFile, TypeOK
    <2>3. QED
      BY <2>1, <2>2 DEF TailInv
  <1>5. CASE RenameHead(h)
    <2>1. files' = files /\ Len(head') = Len(head) + 1
      BY <1>1, <1>5, RenameHeadStep, ChainAppends DEF RenameHead
    <2>2. QED
      BY <1>1, <2>1 DEF TailInv, Index
  <1>6. CASE RemoveRunFile(h)
    <2>1. InLimbo(h) /\ head' = head
      BY <1>6 DEF RemoveRunFile, InLimbo
    <2>2. /\ files'[Len(head)] = NoFile /\ \A i \in Index : i # Len(head) => files'[i] = files[i]
      BY <1>1, <1>6, <2>1, SlotIsNext DEF RemoveRunFile, Removed, TypeOK
    <2>3. QED
      BY <2>1, <2>2 DEF TailInv
  <1>7. QED
    BY <1>2, <1>3, <1>4, <1>5, <1>6 DEF Step

LEMMA TailStep ==
  ASSUME Faults \subseteq Compensated
  PROVE  IInv /\ TailInv /\ [Next]_vars => TailInv'
  <1> SUFFICES ASSUME IInv, TailInv, [Next]_vars
               PROVE  TailInv'
    OBVIOUS
  <1>1. ASSUME NEW h \in Handle, Call(h)
        PROVE  TailInv'
    <2>1. UNCHANGED dir /\ \A g \in Handle : InLimbo(g) => InLimbo(g)'
      BY <1>1 DEF Call, Open, AppendReport, IInv, TypeOK, InLimbo, Goto
    <2>2. QED
      BY <2>1, TailQuiet
  <1>2. ASSUME NEW h \in Handle, Step(h)
        PROVE  TailInv'
    BY <1>2, TailOfStep
  <1>3. ASSUME NEW h \in Handle, Fail(h)
        PROVE  TailInv'
    <2>1. CASE FailCall(h)
      <3>1. pc[h] \in {"scanned", "loaded", "create", "syncHead"}
        BY <2>1 DEF FailCall, Fault, Compensated
      <3>2. UNCHANGED dir /\ \A g \in Handle : InLimbo(g) => InLimbo(g)'
        BY <2>1, <3>1 DEF FailCall, IInv, TypeOK, InLimbo, Goto, Return, ReturnErr
      <3>3. QED
        BY <3>2, TailQuiet
    <2>2. ~FailRunFile(h)
      BY DEF FailRunFile, Fault, Compensated
    <2>3. CASE FailHead(h)
      <3>1. files' = files /\ head' = head /\ \A g \in Handle : InLimbo(g) => InLimbo(g)'
        BY <2>3 DEF FailHead, IInv, TypeOK, InLimbo, Goto
      <3>2. QED
        BY <3>1 DEF TailInv
    <2>4. QED
      BY <1>3, <2>1, <2>2, <2>3 DEF Fail
  <1>4. ~LosePower /\ \A p \in Process : ~Kill(p)
    BY DEF LosePower, Kill, Fault, Compensated
  <1>5. CASE UNCHANGED vars
    BY <1>5, TailQuiet DEF vars, local, InLimbo
  <1>6. QED
    BY <1>1, <1>2, <1>3, <1>4, <1>5 DEF Next

(* When only those steps fail that append_report compensates for, whoever  *)
(* races and however often, the directory is one that opens whenever no    *)
(* call is under way: the runs of the head, linked, and no other file.     *)
THEOREM FailuresLeaveItOpenable ==
  ASSUME Faults \subseteq Compensated
  PROVE  Spec => []RestIsOpenable
  <1>1. Init => TailInv
    BY DEF Init, TailInv
  <1>2. IInv /\ TailInv /\ [Next]_vars => TailInv'
    BY TailStep
  <1>3. IInv /\ TailInv => RestIsOpenable
    <2> SUFFICES ASSUME IInv, TailInv, Resting
                 PROVE  Present = 0..(Len(head) - 1) /\ Chained(Len(head))
      BY DEF RestIsOpenable
    <2>1. head \in Seq(Report) /\ Len(head) \in Nat /\ \A h \in Handle : ~InLimbo(h)
      BY LenProperties DEF IInv, TypeOK, Resting, InLimbo
    <2>2. Present = 0..(Len(head) - 1)
      BY <2>1, CountedRunsHaveFiles DEF Present, TailInv, Index
    <2>3. ASSUME NEW i \in 0..(Len(head) - 1), i > 0
          PROVE  Front(files[i]) = files[i - 1]
      <3>1. files[i] = SubSeq(head, 1, i + 1) /\ files[i - 1] = SubSeq(head, 1, i)
        BY <2>1, <2>3 DEF IInv, HeadCovered
      <3>2. QED
        BY <2>1, <2>3, <3>1, FrontOfPrefix
    <2>4. QED
      BY <2>1, <2>2, <2>3, CountedRunsHaveFiles DEF Chained, LinksToPrevious
  <1>4. QED
    BY <1>1, <1>2, <1>3, Invariant, PTL DEF Spec

-----------------------------------------------------------------------------
(* Refinement                                                              *)

LEMMA StepsOfTheLog ==
  ASSUME IInv, [Next]_vars
  PROVE  [Log!Next]_<<head, diskHead, acked>>
  <1> DEFINE logVars == <<head, diskHead, acked>>
  <1>1. ASSUME NEW h \in Handle, Call(h) \/ Fail(h)
        PROVE  UNCHANGED logVars
    BY <1>1 DEF Call, Open, AppendReport, Fail, FailCall, FailRunFile, FailHead, dir, disk
  <1>2. ASSUME NEW h \in Handle, Step(h)
        PROVE  Log!Next \/ UNCHANGED logVars
    <2>1. CASE RenameHead(h)
      <3>1. report[h] \in Report /\ head' = Append(head, report[h])
        BY <2>1, RenameHeadStep
      <3>2. QED
        BY <2>1, <3>1 DEF RenameHead, disk, Log!Next, Log!Commit
    <2>2. CASE SyncRunDirectory(h)
      BY <2>2 DEF SyncRunDirectory, SyncDirectory, dir, Log!Next, Log!Harden
    <2>3. CASE SyncHeadDirectory(h)
      <3>1. /\ IsPrefix(mem[h], head) /\ mem[h] # <<>>
            /\ mem[h] \in Seq(Report) /\ head \in Seq(Report)
        BY <2>3 DEF SyncHeadDirectory, IInv, TypeOK, MemInv, CallInv, CallOK, InLimbo
      <3>2. Len(mem[h]) <= Len(head) /\ mem[h] = SubSeq(head, 1, Len(mem[h]))
        <4>1. /\ Len(mem[h]) <= Len(head)
              /\ \A i \in 1..Len(mem[h]) : SubSeq(mem[h], 1, i) = SubSeq(head, 1, i)
          BY <3>1, ChainPrefixes
        <4>2. Len(mem[h]) \in Nat \ {0}
          BY <3>1, EmptySeq, LenProperties
        <4>3. SubSeq(mem[h], 1, Len(mem[h])) = mem[h]
          BY <3>1, SubSeqFull
        <4>4. QED
          BY <4>1, <4>2, <4>3
      <3>3. Len(mem[h]) \in 1..Len(head)
        BY <3>1, <3>2, EmptySeq, LenProperties
      <3>4. /\ diskHead' = head /\ head' = head
            /\ acked' = acked \cup {SubSeq(head, 1, Len(mem[h]))}
        BY <2>3, <3>2 DEF SyncHeadDirectory, SyncDirectory, dir
      <3>5. QED
        BY <3>3, <3>4 DEF Log!Next, Log!Acknowledge
    <2>4. CASE \/ ReadRuns(h) \/ VerifyHead(h) \/ CreateRunFile(h) \/ WriteRunFile(h)
               \/ SyncRunFile(h) \/ StageHead(h) \/ RemoveRunFile(h)
      BY <2>4 DEF ReadRuns, VerifyHead, CreateRunFile, WriteRunFile, SyncRunFile,
         StageHead, RemoveRunFile, dir, disk
    <2>5. QED
      BY <1>2, <2>1, <2>2, <2>3, <2>4 DEF Step
  <1>3. ASSUME NEW p \in Process, Kill(p)
        PROVE  UNCHANGED logVars
    BY <1>3 DEF Kill, dir, disk
  <1>4. CASE LosePower
    BY <1>4 DEF LosePower, Log!Next, Log!LosePower
  <1>5. CASE UNCHANGED vars
    BY <1>5 DEF vars, dir, disk
  <1>6. QED
    BY <1>1, <1>2, <1>3, <1>4, <1>5 DEF Next

(* The directory implements the abstract log: the rename of head.json is   *)
(* the only step at which a run enters the history, a power loss takes     *)
(* away no more than what was not yet hard, and Ok is returned for a run   *)
(* that is.                                                                *)
THEOREM ImplementsRunLog == Spec => RefinesRunLog
  <1>1. Init => Log!Init
    BY DEF Init, Log!Init
  <1>2. IInv /\ [Next]_vars => [Log!Next]_(Log!logVars)
    BY StepsOfTheLog DEF Log!logVars
  <1>3. QED
    BY <1>1, <1>2, Invariant, PTL DEF Spec, RefinesRunLog, Log!Spec
=============================================================================
