-------------------------- MODULE ObservationCompare -------------------------
(***************************************************************************)
(* Comparing two reports.  diagprint does it twice: compare_observations   *)
(* (src/history.rs) on the observations two runs of a history keep, and    *)
(* DiagnosticDelta::between (src/delta.rs) on the diagnostics of two       *)
(* reports; a delta policy (src/delta_policy.rs) then judges a delta.      *)
(*                                                                         *)
(* A diagnostic is its content, which its digest stands for; the content   *)
(* determines the fingerprint and the severity, and the order of digests,  *)
(* a hash, is any order.  A report is a bag of contents.                   *)
(***************************************************************************)
EXTENDS Integers, FiniteSets, SequencesExt, FiniteSetsExt

CONSTANTS
  Contents,         \* the contents a diagnostic may have (its digest)
  Fingerprint,      \* their logical identity
  Severity,         \* their severity, as severity_rank numbers it
  Copies,           \* bound: copies of a content in one report
  MaxRuns,          \* bound: reports recorded, whatever they hold
  LongRuns,         \* bound: reports recorded, when they are narrow: no content
  LongContents,     \*   but these and no content twice,
  LongOrders        \*   and only these orders of the digests

Error == 4

ASSUME ObservationAssumption ==
  /\ IsFiniteSet(Contents)
  /\ DOMAIN Fingerprint = Contents
  /\ Severity \in [Contents -> 0..5]
  /\ Copies \in [Contents -> Nat]
  /\ MaxRuns \in Nat /\ LongRuns \in Nat
  /\ LongContents \subseteq Contents

VARIABLES
  order,            \* the contents in the order of their digests
  runs              \* the reports a history has recorded, oldest first

vars == <<order, runs>>

Fingerprints == {Fingerprint[d] : d \in Contents}

Reports == {r \in [Contents -> 0..Max({0} \cup {Copies[d] : d \in Contents})] :
              \A d \in Contents : r[d] <= Copies[d]}

Rank(d) == CHOOSE n \in DOMAIN order : order[n] = d

Of(fp) == {d \in Contents : Fingerprint[d] = fp}

SatSub(m, n) == IF m > n THEN m - n ELSE 0

(* The instances of one fingerprint, sorted by digest.                     *)
ByDigest(report, fp) ==
  FlattenSeq([n \in DOMAIN order |->
                IF order[n] \in Of(fp)
                THEN [k \in 1..report[order[n]] |-> order[n]] ELSE <<>>])

Instances(report, fp) == MapThenSumSet(LAMBDA d : report[d], Of(fp))

AtOrAbove(report, fp, minimum) ==
  MapThenSumSet(LAMBDA d : report[d], {d \in Of(fp) : Severity[d] >= minimum})

-----------------------------------------------------------------------------
(* The history's comparison of one fingerprint in two runs.                *)

(* Exact digests are paired first; or not at all.                          *)
NothingShared(baseline, candidate) == [d \in Contents |-> 0]

Shared(baseline, candidate) ==
  [d \in Contents |-> Min({baseline[d], candidate[d]})]

Without(report, shared) == [d \in Contents |-> report[d] - shared[d]]

CompareObservations(baseline, candidate, fp) ==
  LET shared  == Shared(baseline, candidate)
      left    == ByDigest(Without(baseline, shared), fp)
      right   == ByDigest(Without(candidate, shared), fp)
      changed == Min({Len(left), Len(right)})
  IN  [persisting |-> Instances(shared, fp),
       changed    |-> changed,
       resolved   |-> Len(left) - changed,
       new        |-> Len(right) - changed,
       increases  |-> Cardinality({k \in 1..changed : Severity[right[k]] > Severity[left[k]]}),
       introduced |-> SatSub(AtOrAbove(candidate, fp, Error), AtOrAbove(baseline, fp, Error))]

(* Over the fingerprints of either run; those of neither add nothing.      *)
CompareRuns(baseline, candidate) ==
  FoldLeft(LAMBDA sum, fp :
             LET counts == CompareObservations(baseline, candidate, fp)
             IN  [persisting |-> sum.persisting + counts.persisting,
                  changed    |-> sum.changed + counts.changed,
                  resolved   |-> sum.resolved + counts.resolved,
                  new        |-> sum.new + counts.new,
                  increases  |-> sum.increases + counts.increases,
                  introduced |-> sum.introduced + counts.introduced],
           [persisting |-> 0, changed |-> 0, resolved |-> 0, new |-> 0,
            increases |-> 0, introduced |-> 0],
           SetToSeq(Fingerprints))

-----------------------------------------------------------------------------
(* The delta: two sorted lists walked together, then what is left over     *)
(* paired in the order the walk left it.                                   *)

Walk(baseline, candidate) ==
  LET from[at \in (1..(Len(baseline) + 1)) \X (1..(Len(candidate) + 1))] ==
        LET b == at[1]
            c == at[2]
        IN  IF b > Len(baseline) \/ c > Len(candidate)
            THEN [persisting |-> <<>>,
                  left       |-> SubSeq(baseline, b, Len(baseline)),
                  right      |-> SubSeq(candidate, c, Len(candidate))]
            ELSE IF baseline[b] = candidate[c]
            THEN [from[<<b + 1, c + 1>>] EXCEPT !.persisting = <<baseline[b]>> \o @]
            ELSE IF Rank(baseline[b]) < Rank(candidate[c])
            THEN [from[<<b + 1, c>>] EXCEPT !.left = <<baseline[b]>> \o @]
            ELSE [from[<<b, c + 1>>] EXCEPT !.right = <<candidate[c]>> \o @]
  IN  from[<<1, 1>>]

ClassifyBucket(baseline, candidate) ==
  LET walk    == Walk(baseline, candidate)
      changed == Min({Len(walk.left), Len(walk.right)})
  IN  [persisting |-> walk.persisting,
       changed    |-> [k \in 1..changed |-> <<walk.left[k], walk.right[k]>>],
       resolved   |-> SubSeq(walk.left, changed + 1, Len(walk.left)),
       new        |-> SubSeq(walk.right, changed + 1, Len(walk.right))]

(* The entries of all buckets, by kind.                                    *)
Between(baseline, candidate) ==
  FoldLeft(LAMBDA delta, fp :
             LET bucket == ClassifyBucket(ByDigest(baseline, fp), ByDigest(candidate, fp))
             IN  [persisting |-> delta.persisting \o bucket.persisting,
                  changed    |-> delta.changed \o bucket.changed,
                  resolved   |-> delta.resolved \o bucket.resolved,
                  new        |-> delta.new \o bucket.new],
           [persisting |-> <<>>, changed |-> <<>>, resolved |-> <<>>, new |-> <<>>],
           SetToSeq(Fingerprints))

CountEntries(delta, kind) == Len(delta[kind])

CountWhere(seq, Test(_)) == Cardinality({k \in DOMAIN seq : Test(seq[k])})

(* Differences that count instances and not what they hold.                *)
DifferencesInNumber(delta) == CountEntries(delta, "new") + CountEntries(delta, "resolved")

Differences(delta) ==
  CountEntries(delta, "new") + CountEntries(delta, "resolved") + CountEntries(delta, "changed")

(* What the entries of a delta say of either report: one digest for each   *)
(* diagnostic of the baseline, and of the candidate.                       *)
BaselineDigests(delta) ==
  delta.persisting \o delta.resolved
  \o [k \in DOMAIN delta.changed |-> delta.changed[k][1]]

CandidateDigests(delta) ==
  delta.persisting \o delta.new
  \o [k \in DOMAIN delta.changed |-> delta.changed[k][2]]

(* By fingerprint, how many more there are at or above a severity.         *)
IntroducedAtOrAbove(delta, minimum) ==
  LET Reach(digests, fp) ==
        CountWhere(digests, LAMBDA d : Fingerprint[d] = fp /\ Severity[d] >= minimum)
      before == BaselineDigests(delta)
      after  == CandidateDigests(delta)
      excess == [fp \in Fingerprints |-> SatSub(Reach(after, fp), Reach(before, fp))]
  IN  MapThenSumSet(LAMBDA fp : excess[fp], Fingerprints)

IsSeverityIncrease(pair) == Severity[pair[2]] > Severity[pair[1]]

SeverityIncreasesAtOrAbove(delta, minimum) ==
  CountWhere(delta.changed,
             LAMBDA pair : IsSeverityIncrease(pair) /\ Severity[pair[2]] >= minimum)

(* A threshold that leaves its own level out.                              *)
CountNewAbove(delta, minimum) == CountWhere(delta.new, LAMBDA d : Severity[d] > minimum)

CountNewAtOrAbove(delta, minimum) == CountWhere(delta.new, LAMBDA d : Severity[d] >= minimum)

(* A delta policy: the severity each rule starts at.  A rule that is off   *)
(* starts above every severity, and counts nothing.                        *)
Off == 6

Permissive == [any |-> FALSE, new |-> Off, introduced |-> Off, increase |-> Off]

(* DeltaPolicy::ci                                                         *)
CiPolicy == [Permissive EXCEPT !.new = Error, !.increase = Error]

Count(policy, delta) ==
  [any        |-> IF policy.any THEN Differences(delta) ELSE 0,
   new        |-> CountNewAtOrAbove(delta, policy.new),
   introduced |-> IntroducedAtOrAbove(delta, policy.introduced),
   increase   |-> SeverityIncreasesAtOrAbove(delta, policy.increase)]

(* DeltaPolicy::evaluate: the rules that fail, each with its count.        *)
Evaluate(policy, delta) ==
  {[rule |-> rule, count |-> Count(policy, delta)[rule]] :
     rule \in {r \in DOMAIN Permissive : Count(policy, delta)[r] # 0}}

Passes(policy, delta) == Evaluate(policy, delta) = {}

PassesCi(delta) == Passes(CiPolicy, delta)

ArtifactCounts(delta) ==
  LET both == CountEntries(delta, "persisting") + CountEntries(delta, "changed")
  IN  [baseline_total  |-> CountEntries(delta, "resolved") + both,
       candidate_total |-> CountEntries(delta, "new") + both,
       differences     |-> Differences(delta)]

ArtifactEvaluation(delta, policy) ==
  [violations |-> Evaluate(policy, delta),
   exit_code  |-> IF Passes(policy, delta) THEN 0 ELSE 1]

(* DeltaArtifact::evaluated: the entries by their digests, the counts, the *)
(* policy with what it found.                                              *)
DeltaArtifact(delta, policy) ==
  [baseline |-> BaselineDigests(delta), candidate |-> CandidateDigests(delta),
   counts |-> ArtifactCounts(delta), evaluation |-> ArtifactEvaluation(delta, policy)]

(* The effect of a remediation: as a receipt has it from the delta of the  *)
(* report before and the report after, and as the history has it from the  *)
(* runs that recorded them.                                                *)
EffectFromReceipt(before, after) ==
  LET delta  == Between(before, after)
      counts == DeltaArtifact(delta, Permissive).counts
  IN  [before |-> counts.baseline_total, after |-> counts.candidate_total,
       new |-> CountEntries(delta, "new"), resolved |-> CountEntries(delta, "resolved"),
       persisting |-> CountEntries(delta, "persisting"),
       changed |-> CountEntries(delta, "changed"),
       introduced |-> IntroducedAtOrAbove(delta, Error),
       increases |-> SeverityIncreasesAtOrAbove(delta, 0)]

Diagnostics(report) == MapThenSumSet(LAMBDA d : report[d], Contents)

EffectFromHistory(before, after) ==
  LET counts == CompareRuns(before, after)
  IN  [before |-> Diagnostics(before), after |-> Diagnostics(after),
       new |-> counts.new, resolved |-> counts.resolved, persisting |-> counts.persisting,
       changed |-> counts.changed, introduced |-> counts.introduced,
       increases |-> counts.increases]

-----------------------------------------------------------------------------
(* A history that records reports, as CLI and library callers feed it.     *)

Narrow(report) == \A d \in Contents : report[d] <= IF d \in LongContents THEN 1 ELSE 0

Fits(history) ==
  \/ Len(history) <= MaxRuns
  \/ /\ Len(history) <= LongRuns /\ order \in LongOrders
     /\ \A k \in DOMAIN history : Narrow(history[k])

Record ==
  /\ \E report \in Reports : Fits(Append(runs, report)) /\ runs' = Append(runs, report)
  /\ UNCHANGED order

Init ==
  /\ order \in SetToSeqs(Contents)
  /\ runs = <<>>

Next == Record

Spec == Init /\ [][Next]_vars

-----------------------------------------------------------------------------
(* Properties.  Each is about every recorded run and the last one; as      *)
(* every history is recorded, so is each about every two reports.          *)

Past == ToSet(runs)

(* The two comparisons agree: the same counts, as many severity increases, *)
(* as many introduced errors.  A receipt made of two reports                *)
(* (src/remediation_receipt.rs) then always fits the runs that recorded    *)
(* them; record_remediation_evidence (src/remediation_evidence.rs) refuses *)
(* any other with EffectMismatch.                                          *)
DeltaAgreesWithHistory ==
  \A b \in Past : EffectFromReceipt(b, Last(runs)) = EffectFromHistory(b, Last(runs))

(* A candidate that passes a policy on what is new and on what increases,  *)
(* both from one severity on, has for no logical diagnostic more instances *)
(* at that severity or any above it than the baseline: the CI preset is    *)
(* that policy at Error.                                                   *)
CiStopsGrowth ==
  \A b \in Past, from \in {Severity[d] : d \in Contents} \cup {Error} :
    LET c == Last(runs)
    IN  Passes([CiPolicy EXCEPT !.new = from, !.increase = from], Between(b, c)) =>
          /\ \A fp \in Fingerprints, minimum \in from..5 :
               AtOrAbove(c, fp, minimum) <= AtOrAbove(b, fp, minimum)
          /\ Passes([Permissive EXCEPT !.introduced = from], Between(b, c))

(* A delta artifact loses nothing: both reports, diagnostic by diagnostic, *)
(* can be told from its entries; it says "unchanged" exactly when the      *)
(* reports are the same; its exit code agrees with its violations.  And    *)
(* comparing the other way round turns the delta round: what is new was    *)
(* resolved, and the same instances are paired as changed.                 *)
DeltaLosesNothing ==
  \A b \in Past :
    LET c     == Last(runs)
        there == Between(b, c)
        back  == Between(c, b)
        artifact == DeltaArtifact(there, [Permissive EXCEPT !.any = TRUE])
        Holds(side, d) == CountWhere(side, LAMBDA e : e = d)
    IN  /\ \A d \in Contents : /\ Holds(artifact.baseline, d) = b[d]
                              /\ Holds(artifact.candidate, d) = c[d]
        /\ artifact.counts.baseline_total = Diagnostics(b)
        /\ artifact.counts.candidate_total = Diagnostics(c)
        /\ (artifact.counts.differences = 0) <=> (b = c)
        /\ (artifact.evaluation.exit_code = 0) <=> (b = c)
        /\ there.persisting = back.persisting
        /\ there.new = back.resolved
        /\ there.resolved = back.new
        /\ there.changed = [k \in DOMAIN back.changed |->
                              <<back.changed[k][2], back.changed[k][1]>>]

(* DeltaPolicy::ci (src/delta_policy.rs): "It does not reject an existing  *)
(* Error simply because its help, notes, labels, remediation, or other     *)
(* digest-bearing content changed."  Then a candidate passes when every    *)
(* fingerprint has no more instances of Error and of Fatal than before.    *)
CiIgnoresContent ==
  \A b \in Past :
    LET c == Last(runs)
        At(report, fp, level) == AtOrAbove(report, fp, level) - AtOrAbove(report, fp, level + 1)
    IN  (\A fp \in Fingerprints, level \in Error..5 : At(c, fp, level) <= At(b, fp, level))
          => PassesCi(Between(b, c))
=============================================================================
