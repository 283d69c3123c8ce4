------------------------------ MODULE Forensics ------------------------------
(***************************************************************************)
(* What diagprint says about the life of one logical diagnostic: the       *)
(* lineage (src/history.rs), the case file and the timeline                *)
(* (src/forensics.rs).  Each is computed from the recorded runs whenever   *)
(* it is asked for; runs are numbered from 1 here, and 0 is no run.        *)
(***************************************************************************)
EXTENDS ObservationCompare

NoRun == 0

NoReport == [d \in Contents |-> 0]

Counted(log, fp, k, counts) ==
  [to_run |-> k, new |-> counts.new, resolved |-> counts.resolved,
   changed |-> counts.changed, increases |-> counts.increases,
   active |-> Instances(log[k], fp)]

(* A first step that compares the first run with itself.                   *)
LineageStepOfPairs(log, fp, k) ==
  Counted(log, fp, k, CompareObservations(log[IF k = 1 THEN 1 ELSE k - 1], log[k], fp))

(* One lineage step a run: against the run before, all new in the first.   *)
LineageStep(log, fp, k) ==
  Counted(log, fp, k,
          CompareObservations(IF k = 1 THEN NoReport ELSE log[k - 1], log[k], fp))

(* The concatenation has TLC compute the steps once.                       *)
Lineage(log, fp) == <<>> \o [k \in DOMAIN log |-> LineageStep(log, fp, k)]

Total(steps, part) == FoldLeft(LAMBDA sum, step : sum + step[part], 0, steps)

(* reappeared_after_absence, one pass with two flags.                      *)
ReappearedAfterAbsence(steps) ==
  LET pass == FoldLeft(
        LAMBDA flags, step :
          [seen     |-> flags.seen \/ step.active # 0,
           absent   |-> flags.absent \/ (step.active = 0 /\ flags.seen),
           returned |-> flags.returned \/ (step.active # 0 /\ flags.absent)],
        [seen |-> FALSE, absent |-> FALSE, returned |-> FALSE], steps)
  IN  pass.returned

-----------------------------------------------------------------------------
(* The case file                                                           *)

Opened(step) ==
  [started |-> step.to_run, last |-> step.to_run, resolved |-> NoRun,
   observed |-> 1, instances |-> step.active, peak |-> step.active]

(* One that does not move its end.                                         *)
ExtendedInPlace(episode, step) ==
  [episode EXCEPT !.observed = @ + 1, !.instances = @ + step.active]

Extended(episode, step) ==
  [episode EXCEPT !.last = step.to_run, !.observed = @ + 1,
                  !.instances = @ + step.active, !.peak = Max({@, step.active})]

(* build_episodes: "current" holds the episode that is still open, if any. *)
Visit(pass, step) ==
  IF step.active # 0
  THEN [pass EXCEPT !.current =
          IF @ = <<>> THEN <<Opened(step)>> ELSE <<Extended(@[1], step)>>]
  ELSE IF pass.current # <<>>
  THEN [episodes |-> Append(pass.episodes, [pass.current[1] EXCEPT !.resolved = step.to_run]),
        current  |-> <<>>]
  ELSE pass

BuildEpisodes(steps) ==
  LET pass == FoldLeft(Visit, [episodes |-> <<>>, current |-> <<>>], steps)
  IN  pass.episodes \o pass.current

Seen(log, fp) == \E k \in DOMAIN log : Instances(log[k], fp) # 0

(* Only of a fingerprint some run holds.                                   *)
CaseFile(log, fp) ==
  LET steps    == Lineage(log, fp)
      active   == {k \in DOMAIN log : steps[k].active # 0}
      episodes == BuildEpisodes(steps)
  IN  [first        |-> Min(active),
       last         |-> Max(active),
       status       |-> IF steps[Len(log)].active # 0 THEN "Active" ELSE "Resolved",
       observed     |-> Cardinality(active),
       instances    |-> Total(steps, "active"),
       digests      |-> Cardinality({d \in Of(fp) : \E k \in DOMAIN log : log[k][d] # 0}),
       introduced   |-> Total(steps, "new"),
       resolved     |-> Total(steps, "resolved"),
       changed      |-> Total(steps, "changed"),
       increases    |-> Total(steps, "increases"),
       reappearances |-> SatSub(Len(episodes), 1),
       episodes     |-> episodes]

-----------------------------------------------------------------------------
(* The timeline: one row a run.                                            *)

(* Only a gap the diagnostic came back from counts as an absence.          *)
PhaseOfGaps(steps, k) ==
  IF steps[k].active # 0 THEN "Active"
  ELSE IF /\ \E j \in 1..(k - 1) : steps[j].active # 0
          /\ \E j \in k..Len(steps) : steps[j].active # 0
       THEN "Absent" ELSE "Unseen"

Phase(steps, k) ==
  IF steps[k].active # 0 THEN "Active"
  ELSE IF \E j \in 1..(k - 1) : steps[j].active # 0 THEN "Absent" ELSE "Unseen"

(* The arrival of every episode is the first.                              *)
EventsOfArrivals(steps, k) ==
  LET previous == k > 1 /\ steps[k - 1].active # 0
  IN  IF steps[k].active # 0
      THEN IF previous THEN {"Persisting"} ELSE {"FirstSeen"}
      ELSE IF previous THEN {"Resolved"} ELSE {}

Events(steps, k) ==
  LET previous == k > 1 /\ steps[k - 1].active # 0
      before   == \E j \in 1..(k - 1) : steps[j].active # 0
      arrival  == IF ~before THEN {"FirstSeen"}
                  ELSE IF ~previous THEN {"Reappeared"} ELSE {}
      shift    == {e \in {"Changed", "SeverityIncreased"} :
                     steps[k][IF e = "Changed" THEN "changed" ELSE "increases"] # 0}
      notable  == arrival \cup shift
  IN  IF steps[k].active # 0
      THEN IF previous /\ notable = {} THEN {"Persisting"} ELSE notable
      ELSE IF previous THEN {"Resolved"} ELSE {}

(* The number of episodes begun so far, in an active run.                  *)
EpisodeOf(steps, k) ==
  IF steps[k].active = 0 THEN NoRun
  ELSE Cardinality({j \in 1..k : steps[j].active # 0 /\ (j > 1 => steps[j - 1].active = 0)})

Timeline(log, fp) ==
  LET steps == Lineage(log, fp)
  IN  <<>> \o [k \in DOMAIN log |->
        [phase |-> Phase(steps, k), episode |-> EpisodeOf(steps, k), events |-> Events(steps, k)]]

(* The maximal stretches of rows that are not active; their starts order   *)
(* them.                                                                   *)
CleanWindows(rows) ==
  LET active     == {k \in DOMAIN rows : rows[k].phase = "Active"}
      starts     == {k \in DOMAIN rows \ active : k > 1 => k - 1 \in active}
      EndOf(k)   == Min({Len(rows)} \cup {j - 1 : j \in {i \in active : i > k}})
      KindOf(k)  == IF EndOf(k) < Min(active) THEN "BeforeFirstSeen"
                    ELSE IF EndOf(k) < Max(active) THEN "BetweenEpisodes"
                    ELSE "AfterResolution"
  IN  {[kind |-> KindOf(start), start |-> start, end |-> EndOf(start)] : start \in starts}

-----------------------------------------------------------------------------
(* Properties                                                              *)

Known == {fp \in Fingerprints : Seen(runs, fp)}

ActiveRuns(fp) == {k \in DOMAIN runs : Instances(runs[k], fp) # 0}

(* The books balance: up to the last run, and so to every run, the         *)
(* instances a lineage calls new less those it calls resolved are the ones *)
(* that are there, and a direct comparison with a run far back has the     *)
(* same balance as the steps in between.                                   *)
LineageBalances ==
  \A fp \in Fingerprints :
    LET steps   == Lineage(runs, fp)
        balance == FoldLeft(LAMBDA sums, step : Append(sums, sums[Len(sums)] + step.new - step.resolved),
                            <<0>>, steps)
        last    == Len(runs)
    IN  last > 0 =>
          /\ balance[last + 1] = steps[last].active
          /\ \A j \in 1..last :
               LET direct == CompareObservations(runs[j], runs[last], fp)
               IN  balance[last + 1] - balance[j + 1] = direct.new - direct.resolved

(* Case file, timeline and lineage tell one story: as many reappearances,  *)
(* Reappeared events and clean windows between episodes; one FirstSeen,    *)
(* in the first run; a Resolved event in exactly the runs that end an      *)
(* episode; every active row in the episode the case file puts it in.  The *)
(* episodes are the maximal stretches of active runs, in order: each is    *)
(* active throughout, and ends where it says it was resolved or is the     *)
(* last one of a diagnostic that is still active.                          *)
ViewsAgree ==
  \A fp \in Known :
    LET case     == CaseFile(runs, fp)
        episodes == case.episodes
        Span(e)  == episodes[e].started..episodes[e].last
        rows     == Timeline(runs, fp)
        windows  == CleanWindows(rows)
        RowsWith(event) == {k \in DOMAIN rows : event \in rows[k].events}
    IN  /\ case.reappearances = Cardinality(RowsWith("Reappeared"))
        /\ case.reappearances = Cardinality({w \in windows : w.kind = "BetweenEpisodes"})
        /\ (case.reappearances > 0) <=> ReappearedAfterAbsence(Lineage(runs, fp))
        /\ RowsWith("FirstSeen") = {case.first}
        /\ RowsWith("Resolved") = {episodes[e].resolved : e \in DOMAIN episodes} \ {NoRun}
        /\ \A k \in ActiveRuns(fp) : k \in Span(rows[k].episode)
        /\ UNION {Span(e) : e \in DOMAIN episodes} = ActiveRuns(fp)
        /\ \A e \in DOMAIN episodes :
             /\ episodes[e].observed = Cardinality(Span(e))
             /\ e > 1 => episodes[e].started > episodes[e - 1].resolved
             /\ IF e = Len(episodes) /\ case.status = "Active"
                THEN episodes[e].resolved = NoRun /\ episodes[e].last = Len(runs)
                ELSE episodes[e].resolved = episodes[e].last + 1
        /\ (case.status = "Resolved") <=> \E w \in windows : w.kind = "AfterResolution"
        /\ case.status = "Active" <=> rows[Len(runs)].phase = "Active"

(* Recording a run rewrites nothing that was reported: the rows of the     *)
(* timeline stay as they are, a resolved episode too, and the one that was *)
(* open keeps its start.                                                   *)
PastIsFinal ==
  [][\A fp \in Known :
       LET before == BuildEpisodes(Lineage(runs, fp))
           after  == BuildEpisodes(Lineage(runs', fp))
       IN  /\ IsPrefix(Timeline(runs, fp), Timeline(runs', fp))
           /\ Len(before) <= Len(after)
           /\ \A e \in DOMAIN before :
                /\ before[e].resolved # NoRun => after[e] = before[e]
                /\ after[e].started = before[e].started]_vars
=============================================================================
