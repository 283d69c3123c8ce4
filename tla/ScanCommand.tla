----------------------------- MODULE ScanCommand -----------------------------
(***************************************************************************)
(* `diagprint scan` (run_scan of src/bin/diagprint.rs): discover the       *)
(* project, check that its Git worktree is clean, collect evidence from    *)
(* tools, analyze, write the output, check the worktree again, record the  *)
(* report in the history, bind Git provenance to that run, write a         *)
(* capsule that names both, and exit with a status.  Any step may fail,    *)
(* and then nothing after it is done and the status is 2.                  *)
(*                                                                         *)
(* Meanwhile others work on the project and commit, append to the same     *)
(* history and bind commits to its runs.  A commit and a state of the      *)
(* worktree are named by the content they have; a report is what was read. *)
(***************************************************************************)
EXTENDS Integers, SequencesExt

CONSTANTS
  Scans,        \* processes running the command
  Arguments,    \* command lines to choose from
  Contents,     \* what a project may hold
  Faulty,       \* the contents whose report has an error
  MaxEdits,     \* bound: changes of the project
  MaxHistory,   \* bound: runs of the history
  MaxFailures   \* bound: steps that fail

VARIABLES
  head, work,   \* the commit checked out, the content of the worktree
  history,      \* the runs: [by, report]
  provenance,   \* per run: the record bound to it, or none
  capsules,     \* the capsule at each scan's destination
  outputs,      \* the scans whose output was written
  asked,        \* per scan: its arguments, parsed
  done,         \* per scan: the steps done
  seen,         \* per scan: what discovery read, and the tools
  snapshot,     \* per scan: the commit of the first check
  recorded,     \* per scan: the history as it recorded its run
  status,       \* per scan: its exit status, or that it has none yet
  edits, failures

scanVars == <<head, work, history, provenance, capsules, outputs, asked, done, seen, snapshot,
              recorded, status, edits, failures>>

Nothing == "nothing"
Other == "other"
NoCapsule == [report |-> Nothing]
NoRecord == [binding |-> "none", run |-> <<>>, commit |-> Nothing]
MaxRun == 1..MaxHistory

-----------------------------------------------------------------------------
(* The command line                                                        *)

TakesValue == {"--profile", "--format", "--output", "--capsule", "--history",
               "--history-label"}

Defaults == [path |-> Nothing, profile |-> "standard", format |-> "compiler",
             output |-> FALSE, capsule |-> FALSE, history |-> FALSE, label |-> FALSE,
             git |-> FALSE, pending |-> Nothing, stop |-> "no"]

(* The value of an option: any argument, whatever it looks like.           *)
WithValue(o, value) ==
  LET taken == [o EXCEPT !.pending = Nothing]
  IN CASE o.pending = "--profile" ->
            IF value \in {"static", "standard", "deep"} THEN [taken EXCEPT !.profile = value]
            ELSE [taken EXCEPT !.stop = "error"]
       [] o.pending = "--format" ->
            IF value \in {"compiler", "plain", "audit", "markdown", "html"}
            THEN [taken EXCEPT !.format = value] ELSE [taken EXCEPT !.stop = "error"]
       [] o.pending = "--output" -> [taken EXCEPT !.output = TRUE]
       [] o.pending = "--capsule" -> [taken EXCEPT !.capsule = TRUE]
       [] o.pending = "--history" -> [taken EXCEPT !.history = TRUE]
       [] o.pending = "--history-label" -> [taken EXCEPT !.label = TRUE]

Flags == {"--help", "--static", "--deep", "--git-provenance", "--unknown"}

WithArgument(o, arg) ==
  CASE o.stop # "no" -> o
    [] o.stop = "no" /\ o.pending # Nothing -> WithValue(o, arg)
    [] o.stop = "no" /\ o.pending = Nothing ->
         CASE arg \in TakesValue -> [o EXCEPT !.pending = arg]
           [] arg = "--help" -> [o EXCEPT !.stop = "help"]
           [] arg = "--static" -> [o EXCEPT !.profile = "static"]
           [] arg = "--deep" -> [o EXCEPT !.profile = "deep"]
           [] arg = "--git-provenance" -> [o EXCEPT !.git = TRUE]
           [] arg = "--unknown" -> [o EXCEPT !.stop = "error"]
           [] arg \notin TakesValue \cup Flags ->
                IF o.path = Nothing THEN [o EXCEPT !.path = arg] ELSE [o EXCEPT !.stop = "error"]

ParseScanArgs(args) == FoldLeft(WithArgument, Defaults, args)

(* An option without its value, or without the option it needs, is refused.*)
UsageError(o) ==
  \/ o.stop = "error"
  \/ o.stop = "no" /\ (o.pending # Nothing \/ ((o.label \/ o.git) /\ ~o.history))

-----------------------------------------------------------------------------
(* The steps                                                               *)

(* The order of run_scan, and the steps that its arguments ask for.        *)
Place == [discover |-> 1, clean |-> 2, resolve |-> 3, tools |-> 4, output |-> 5, reclean |-> 6,
          verify |-> 7, record |-> 8, bind |-> 9, capsule |-> 10, exit |-> 11]

Wanted(o, what) ==
  CASE what \in {"clean", "resolve", "reclean", "verify", "bind"} -> o.git
    [] what = "tools" -> o.profile # "static"
    [] what = "record" -> o.history
    [] what = "capsule" -> o.capsule
    [] what \in {"discover", "output", "exit"} -> TRUE

At(p, what) ==
  /\ status[p] = "running" /\ what \notin done[p] /\ Wanted(asked[p], what)
  /\ \A other \in DOMAIN Place \ done[p] :
       Wanted(asked[p], other) => Place[what] <= Place[other]

Passed(p, what) == done' = [done EXCEPT ![p] = @ \cup {what}] /\ UNCHANGED status

Exit(p, code) == status' = [status EXCEPT ![p] = code] /\ UNCHANGED done

(* A step whose effect is there, and which may fail after it.              *)
PassedOrFailed(p, what) ==
  \/ Passed(p, what) /\ UNCHANGED failures
  \/ failures < MaxFailures /\ failures' = failures + 1 /\ Exit(p, "2")

project == <<head, work, edits>>

BeginScan(p, args) ==
  /\ status[p] = "idle"
  /\ asked' = [asked EXCEPT ![p] = ParseScanArgs(args)]
  /\ status' = [status EXCEPT ![p] =
       IF UsageError(asked'[p]) THEN "2" ELSE IF asked'[p].stop = "no" THEN "running" ELSE "0"]
  /\ UNCHANGED <<project, history, provenance, capsules, outputs, done, seen, snapshot, recorded,
                 failures>>

(* ProjectContext::discover reads every file it keeps.                     *)
Discover(p) ==
  /\ At(p, "discover") /\ Passed(p, "discover")
  /\ seen' = [seen EXCEPT ![p].files = work]
  /\ UNCHANGED <<project, history, provenance, capsules, outputs, asked, snapshot, recorded,
                 failures>>

(* git status, of capture_clean_git_snapshot: first, and when the snapshot *)
(* is verified.  Git is asked for HEAD in a command of its own.            *)
Clean == work = head

CheckClean(p) ==
  /\ \E what \in {"clean", "reclean"} :
       At(p, what) /\ (IF Clean THEN Passed(p, what) ELSE Exit(p, "2"))
  /\ UNCHANGED <<project, history, provenance, capsules, outputs, asked, seen, snapshot, recorded,
                 failures>>

CaptureSnapshot(p) ==
  /\ At(p, "resolve") /\ Passed(p, "resolve")
  /\ snapshot' = [snapshot EXCEPT ![p] = head]
  /\ UNCHANGED <<project, history, provenance, capsules, outputs, asked, seen, recorded, failures>>

(* collect_external_evidence: a tool that fails is evidence too.           *)
CollectEvidence(p) ==
  /\ At(p, "tools") /\ Passed(p, "tools")
  /\ seen' = [seen EXCEPT ![p].tools = work]
  /\ UNCHANGED <<project, history, provenance, capsules, outputs, asked, snapshot, recorded,
                 failures>>

(* scan, render_report, write_output                                       *)
WriteOutput(p) ==
  /\ At(p, "output") /\ Passed(p, "output")
  /\ outputs' = outputs \cup {p}
  /\ UNCHANGED <<project, history, provenance, capsules, asked, seen, snapshot, recorded, failures>>

(* verify_clean_git_snapshot                                               *)
VerifySnapshot(p) ==
  /\ At(p, "verify")
  /\ IF head = snapshot[p] THEN Passed(p, "verify") ELSE Exit(p, "2")
  /\ UNCHANGED <<project, history, provenance, capsules, outputs, asked, seen, snapshot, recorded,
                 failures>>

(* record_scan_history.  append_report may fail after the run was          *)
(* committed: it is part of the history, the scan does not know it.        *)
ScanReport(p) == seen[p]

RecordHistory(p) ==
  /\ At(p, "record") /\ Len(history) < MaxHistory
  /\ history' = Append(history, [by |-> p, report |-> ScanReport(p)])
  /\ \/ /\ recorded' = [recorded EXCEPT ![p] = history']
        /\ Passed(p, "record") /\ UNCHANGED failures
     \/ /\ failures < MaxFailures /\ failures' = failures + 1
        /\ Exit(p, "2") /\ UNCHANGED recorded
  /\ UNCHANGED <<project, provenance, capsules, outputs, asked, seen, snapshot>>

(* record_captured_git_provenance: the history is opened again, the run of *)
(* the index must have the digest recorded.                                *)
LatestRun(p) == Len(history)

RecordedRun(p) == Len(recorded[p])

RunDigest(n) == SubSeq(history, 1, n)

BindProvenance(p) ==
  /\ At(p, "bind")
  /\ LET n == RecordedRun(p)
         record == [binding |-> "captured", run |-> RunDigest(n), commit |-> snapshot[p]]
     IN  IF provenance[n] \in {NoRecord, record}
         THEN provenance' = [provenance EXCEPT ![n] = record] /\ PassedOrFailed(p, "bind")
         ELSE Exit(p, "2") /\ UNCHANGED <<provenance, failures>>
  /\ UNCHANGED <<project, history, capsules, outputs, asked, seen, snapshot, recorded>>

(* write_scan_capsule: every file, or none (ArtifactCommit).               *)
WriteCapsule(p) ==
  /\ At(p, "capsule") /\ PassedOrFailed(p, "capsule")
  /\ capsules' = [capsules EXCEPT ![p] =
       [report |-> ScanReport(p), history |-> recorded[p],
        provenance |-> IF asked[p].git THEN provenance[RecordedRun(p)] ELSE NoRecord]]
  /\ UNCHANGED <<project, history, provenance, outputs, asked, seen, snapshot, recorded>>

(* DiagnosticReport::exit_code                                             *)
HasErrors(p) == {seen[p].files, seen[p].tools} \cap Faulty # {}

ExitWithReport(p) ==
  /\ At(p, "exit")
  /\ Exit(p, IF HasErrors(p) THEN "1" ELSE "0")
  /\ UNCHANGED <<project, history, provenance, capsules, outputs, asked, seen, snapshot, recorded,
                 failures>>

(* The ? of any step that has had no effect yet.                           *)
FailScan(p) ==
  /\ \E what \in DOMAIN Place \ {"tools", "exit"} : At(p, what)
  /\ failures < MaxFailures /\ failures' = failures + 1
  /\ Exit(p, "2")
  /\ UNCHANGED <<project, history, provenance, capsules, outputs, asked, seen, snapshot, recorded>>

-----------------------------------------------------------------------------
(* Others                                                                  *)

(* An edit; a commit of what is there; a checkout.                         *)
ChangeProject ==
  /\ edits < MaxEdits /\ edits' = edits + 1
  /\ \E c \in Contents : \/ work' = c /\ UNCHANGED head
                         \/ head' = work /\ UNCHANGED work
                         \/ work = head /\ head' = c /\ work' = c
  /\ UNCHANGED <<history, provenance, capsules, outputs, asked, done, seen, snapshot, recorded,
                 status, failures>>

AppendElsewhere ==
  /\ Len(history) < MaxHistory
  /\ history' = Append(history, [by |-> Other, report |-> Nothing])
  /\ UNCHANGED <<project, provenance, capsules, outputs, asked, done, seen, snapshot, recorded,
                 status, failures>>

(* history git-bind                                                        *)
HistoryGitBind ==
  /\ \E n \in 1..Len(history), commit \in Contents :
       /\ provenance[n] = NoRecord
       /\ provenance' = [provenance EXCEPT ![n] =
            [binding |-> "asserted", run |-> RunDigest(n), commit |-> commit]]
  /\ UNCHANGED <<project, history, capsules, outputs, asked, done, seen, snapshot, recorded,
                 status, failures>>

ScanInit ==
  /\ head \in Contents /\ work \in Contents
  /\ provenance = [n \in MaxRun |-> NoRecord]
  /\ capsules = [p \in Scans |-> NoCapsule]
  /\ outputs = {}
  /\ asked = [p \in Scans |-> Defaults]
  /\ done = [p \in Scans |-> {}]
  /\ seen = [p \in Scans |-> [files |-> Nothing, tools |-> Nothing]]
  /\ snapshot = [p \in Scans |-> Nothing]
  /\ recorded = [p \in Scans |-> <<>>]
  /\ history = <<>> /\ edits = 0 /\ failures = 0
  /\ status = [p \in Scans |-> "idle"]

ScanStep(p) ==
  \/ \E args \in Arguments : BeginScan(p, args)
  \/ Discover(p) \/ CheckClean(p) \/ CaptureSnapshot(p) \/ CollectEvidence(p) \/ WriteOutput(p)
  \/ VerifySnapshot(p) \/ RecordHistory(p) \/ BindProvenance(p) \/ WriteCapsule(p)
  \/ ExitWithReport(p) \/ FailScan(p)

ScanNext ==
  \/ \E p \in Scans : ScanStep(p)
  \/ ChangeProject \/ AppendElsewhere \/ HistoryGitBind

ScanSpec == ScanInit /\ [][ScanNext]_scanVars

-----------------------------------------------------------------------------
(* Properties                                                              *)

(* A status other than 2 tells that everything asked for is there and      *)
(* about this scan: its report is a run of the history, the provenance of  *)
(* that run is the commit it verified, the capsule names both, whoever     *)
(* appended and bound meanwhile.  And a capsule never names what is not    *)
(* there, whatever the status.                                             *)
Tells(p) ==
  /\ p \in outputs
  /\ asked[p].history =>
       /\ IsPrefix(recorded[p], history)
       /\ Last(recorded[p]) = [by |-> p, report |-> seen[p]]
  /\ asked[p].git =>
       provenance[Len(recorded[p])] =
         [binding |-> "captured", run |-> recorded[p], commit |-> snapshot[p]]
  /\ asked[p].capsule => capsules[p] # NoCapsule

Anchored(capsule) ==
  /\ IsPrefix(capsule.history, history)
  /\ capsule.history # <<>> => Last(capsule.history).report = capsule.report
  /\ capsule.provenance # NoRecord =>
       /\ capsule.provenance.run = capsule.history
       /\ provenance[Len(capsule.history)] = capsule.provenance

ScanExitTells ==
  \A p \in Scans :
    /\ status[p] \in {"0", "1"} /\ asked[p].stop = "no" => Tells(p)
    /\ capsules[p] # NoCapsule => Anchored(capsules[p])

(* "captured_clean therefore means the committed Git tree represented the  *)
(* clean worktree surrounding that scan": the files of a captured run are  *)
(* those of its commit, if the project was changed once at most.           *)
CapturedWasScanned ==
  edits <= 1 =>
    \A n \in 1..Len(history) :
      provenance[n].binding = "captured" => history[n].report.files = provenance[n].commit
=============================================================================
