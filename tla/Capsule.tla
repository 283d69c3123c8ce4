------------------------------- MODULE Capsule --------------------------------
(***************************************************************************)
(* A diagnostic capsule while it is built in memory (src/capsule.rs): the  *)
(* report it is made for, and what the caller adds to it.  Every addition  *)
(* inserts one or more entries and stops at the first that is refused, so  *)
(* a call that returns Err may have added part of what it was given.       *)
(* Builders take &mut self and touch no file.  An entry is a tuple of what *)
(* its bytes commit to.                                                    *)
(***************************************************************************)
EXTENDS Integers, Sequences, FiniteSets

CONSTANTS
  Report,       \* digests of diagnostic reports
  Plan,         \* digests of fix plan descriptors
  Text,         \* source texts
  NoPlan,       \* no plan is given
  MaxBuild      \* bound: calls that add to the capsule

VARIABLES
  report,       \* the report the capsule is made for
  policy,       \* what the caller allowed: a subset of {"sources", "plans"}
  entries,      \* the entries, by path
  built         \* calls made

capsuleVars == <<report, policy, entries, built>>

ASSUME CapsuleAssumption ==
  /\ Report # {} /\ MaxBuild \in Nat
  /\ NoPlan \notin Plan

(* Paths below the capsule's directory; the directory a path lies in does  *)
(* not matter to the entries.                                              *)
SourcePath == <<"sources/1", "sources/2">>

Paths == {"report", "rendered", "rendered.receipt", "provenance", "remediation", "plan",
          "sources/1", "sources/2", "sources/index"}

(* The immutable snapshot of a source cache: its texts in the order of     *)
(* their names.                                                            *)
Snapshots == UNION {[1..n -> Text] : n \in 0..2}

Receipts == [before : Report, after : Report, plan : Plan]

Entry(path, content) == [path |-> path, content |-> content]

(* insert_entry: no path twice.  The items go in one after the other; the  *)
(* first that is taken ends the call.                                      *)
Refused(items) ==
  {i \in 1..Len(items) : \/ items[i].path \in DOMAIN entries
                         \/ \E j \in 1..(i - 1) : items[j].path = items[i].path}

Accepted(items) ==
  {items[i] : i \in {i \in 1..Len(items) : \A j \in Refused(items) : i < j}}

Insert(items) ==
  LET new == Accepted(items)
  IN  entries' = [path \in DOMAIN entries \cup {entry.path : entry \in new} |->
                    IF path \in DOMAIN entries THEN entries[path]
                    ELSE (CHOOSE entry \in new : entry.path = path).content]

(* DiagnosticCapsule::with_policies: the report is the first entry.        *)
CapsuleInit ==
  /\ report \in Report
  /\ policy \in SUBSET {"sources", "plans"}
  /\ entries = [path \in {"report"} |-> <<report>>]
  /\ built = 0

Call ==
  /\ built < MaxBuild /\ built' = built + 1
  /\ UNCHANGED <<report, policy>>

(* add_rendered: an artifact whose receipt verifies, of this report.       *)
AddRendered(artifact) ==
  /\ Call
  /\ artifact.verifies /\ artifact.report = report
  /\ Insert(<<Entry("rendered", <<artifact.report>>),
              Entry("rendered.receipt", <<artifact.report>>)>>)

(* add_provenance                                                          *)
AddProvenance == Call /\ Insert(<<Entry("provenance", <<report>>)>>)

(* Whatever plan is given.                                                 *)
PlanWhenAllowed(receipt, plan) == plan # NoPlan /\ "plans" \in policy

(* The plan is an entry only when the policy allows it and the receipt     *)
(* names it.                                                               *)
PlanAllowed(receipt, plan) == plan # NoPlan /\ "plans" \in policy /\ receipt.plan = plan

(* add_remediation: the receipt goes in before the plan is looked at, and  *)
(* stays when the plan is refused.                                         *)
AddRemediation(receipt, plan) ==
  /\ Call
  /\ report \in {receipt.before, receipt.after}
  /\ LET first == Entry("remediation", <<receipt.before, receipt.after, receipt.plan>>)
     IN  Insert(IF PlanAllowed(receipt, plan)
                THEN <<first, Entry("plan", <<plan>>)>> ELSE <<first>>)

(* add_sources: the texts, then the index that names them.                 *)
AddSources(snapshot) ==
  /\ Call
  /\ "sources" \in policy
  /\ Insert([i \in 1..Len(snapshot) |-> Entry(SourcePath[i], <<snapshot[i]>>)]
            \o <<Entry("sources/index", snapshot)>>)

Build ==
  \/ \E verifies \in BOOLEAN, r \in Report : AddRendered([verifies |-> verifies, report |-> r])
  \/ AddProvenance
  \/ \E receipt \in Receipts, plan \in Plan \cup {NoPlan} : AddRemediation(receipt, plan)
  \/ \E snapshot \in Snapshots : AddSources(snapshot)

-----------------------------------------------------------------------------
(* Whatever calls are made on a capsule, the refused and the partial ones  *)
(* included: no source or plan is in it that the policy does not allow; a  *)
(* rendering, like the remediation, is of the capsule's report; a plan is  *)
(* the one the remediation receipt beside it names; and every source the   *)
(* index lists is there with the text the index gives its digest of        *)
(* (src/capsule.rs, add_rendered to add_sources).                          *)
CapsuleCoherent ==
  LET has(path) == path \in DOMAIN entries
  IN  /\ has("rendered") <=> has("rendered.receipt")
      /\ has("rendered") => entries["rendered"] = <<report>>
      /\ has("remediation") => report \in {entries["remediation"][1], entries["remediation"][2]}
      /\ has("plan") => /\ "plans" \in policy /\ has("remediation")
                        /\ entries["plan"][1] = entries["remediation"][3]
      /\ \A i \in 1..2 : has(SourcePath[i]) => "sources" \in policy
      /\ has("sources/index") =>
           \A i \in 1..Len(entries["sources/index"]) :
             /\ has(SourcePath[i])
             /\ entries[SourcePath[i]] = <<entries["sources/index"][i]>>
=============================================================================
