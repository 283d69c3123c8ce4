-------------------------------- MODULE Replay --------------------------------
(***************************************************************************)
(* Remediation evidence and its replay (src/remediation_evidence.rs,       *)
(* src/remediation_replay.rs), and what the command line makes of a        *)
(* lineage and a timeline (src/bin/diagprint.rs).  A receipt is the effect *)
(* and the status of a plan that was applied between two reports; evidence *)
(* is a receipt the history accepted for two adjacent runs.                *)
(***************************************************************************)
EXTENDS Forensics

(* RemediationReceipt::from_successful_apply, of a plan with so many       *)
(* verification checks, all of which passed.                               *)
Status(checks) == IF checks = 0 THEN "applied" ELSE "verified"

Receipt(before, after, checks) ==
  [before |-> before, after |-> after, effect |-> EffectFromReceipt(before, after),
   status |-> Status(checks)]

(* record_remediation_evidence; verify_record makes the same comparisons   *)
(* of a record it loads.                                                   *)
Accepts(log, k, receipt) ==
  /\ k \in 2..Len(log)
  /\ receipt.before = log[k - 1] /\ receipt.after = log[k]
  /\ receipt.effect = EffectFromHistory(log[k - 1], log[k])

(* observation_digests, sorted.                                            *)
Digests(log, fp, k) == ByDigest(log[k], fp)

ClassifyTransition(before, after) ==
  CASE before = <<>> /\ after = <<>> -> "Absent"
    [] before = <<>> /\ after # <<>> -> "Introduced"
    [] before # <<>> /\ after = <<>> -> "Resolved"
    [] before # <<>> /\ after # <<>> -> IF before = after THEN "Persisting" ELSE "Changed"

(* The first run that holds the diagnostic, from the start.                *)
FirstObservation(log, fp, start) ==
  LET later == {k \in DOMAIN log : Instances(log[k], fp) # 0}
  IN  IF later = {} THEN NoRun ELSE Min(later)

FirstLaterObservation(log, fp, start) ==
  LET later == {k \in start..Len(log) : Instances(log[k], fp) # 0}
  IN  IF later = {} THEN NoRun ELSE Min(later)

(* build_step                                                              *)
ReplayStep(log, fp, k, status) ==
  LET before   == Digests(log, fp, k - 1)
      after    == Digests(log, fp, k)
      observed == ClassifyTransition(before, after)
      later    == IF observed = "Resolved" THEN FirstLaterObservation(log, fp, k + 1) ELSE NoRun
  IN  [before     |-> Len(before),
       after      |-> Len(after),
       transition |-> observed,
       later      |-> later,
       regression |-> status = "verified" /\ later # NoRun]

(* DiagnosticHistory::remediation_replay, of a history with evidence for   *)
(* every pair of adjacent runs.                                            *)
RemediationReplay(log, fp, checks) ==
  [k \in 2..Len(log) |-> ReplayStep(log, fp, k, Status(checks))]

(* latest_reappearances: the diagnostics a scan reports as come back.      *)
LatestReappearances(log) ==
  {fp \in Fingerprints :
     LET steps == Lineage(log, fp)
     IN  /\ Len(log) > 1
         /\ steps[Len(log)].active # 0 /\ steps[Len(log) - 1].active = 0
         /\ \E k \in 1..(Len(log) - 1) : steps[k].active # 0}

(* timeline_marker: the sign of a row in the TRACK line of "history        *)
(* timeline", after the first of its events in this order.                 *)
MarkerOrder == <<"Reappeared", "SeverityIncreased", "Changed", "Resolved", "FirstSeen">>

TimelineMarker(row) ==
  LET shown == {k \in DOMAIN MarkerOrder : MarkerOrder[k] \in row.events}
  IN  IF shown # {} THEN MarkerOrder[Min(shown)]
      ELSE IF row.phase = "Active" THEN "Active" ELSE "Clean"

-----------------------------------------------------------------------------
(* A receipt is accepted for exactly the adjacent runs that recorded its   *)
(* two reports.  The replay of the evidence agrees with the timeline: it   *)
(* calls a transition resolved, introduced or changed where the timeline   *)
(* has such an event, a reappearance later is the next Reappeared event,   *)
(* and only a verified plan can regress.  The track of the timeline shows  *)
(* exactly the active runs as active, every return as one, and the last    *)
(* row returned exactly of the diagnostics a scan reports.                 *)
ReplayAgrees ==
  /\ \A k, j \in 2..Len(runs) :
       Accepts(runs, j, Receipt(runs[k - 1], runs[k], 0)) <=>
         runs[j - 1] = runs[k - 1] /\ runs[j] = runs[k]
  /\ {fp \in Known : TimelineMarker(Timeline(runs, fp)[Len(runs)]) = "Reappeared"}
       = LatestReappearances(runs)
  /\ \A fp \in Known :
       LET rows == Timeline(runs, fp)
           Has(k, event) == event \in rows[k].events
           track == <<>> \o [k \in DOMAIN rows |-> TimelineMarker(rows[k])]
       IN  /\ \A checks \in 0..1, k \in 2..Len(runs) :
                LET step    == RemediationReplay(runs, fp, checks)[k]
                    returns == {j \in (k + 1)..Len(runs) : Has(j, "Reappeared")}
                IN  /\ (step.transition = "Resolved") <=> Has(k, "Resolved")
                    /\ (step.transition = "Introduced")
                         <=> (Has(k, "FirstSeen") \/ Has(k, "Reappeared"))
                    /\ (step.transition = "Absent") <=> (track[k] = "Clean")
                    /\ step.transition = "Persisting" => rows[k].events = {"Persisting"}
                    /\ step.later = IF Has(k, "Resolved") /\ returns # {} THEN Min(returns)
                                    ELSE NoRun
                    /\ step.regression <=> checks > 0 /\ step.later # NoRun
           /\ \A k \in DOMAIN rows :
                /\ (track[k] \in {"Resolved", "Clean"}) <=> rows[k].phase # "Active"
                /\ (track[k] = "Reappeared") <=> Has(k, "Reappeared")
=============================================================================
