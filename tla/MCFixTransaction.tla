-------------------------- MODULE MCFixTransaction --------------------------
(* Instances of FixTransaction for TLC. *)
EXTENDS FixTransaction

CONSTANTS planA, planB, sugA, sugB, sugC, near, over, fileA, fileB, fileC, bakA, bakB, bakC

(* The backups, too, are paths. *)
BackupsOf ==
  (fileA :> bakA) @@ (fileB :> bakB) @@ (fileC :> bakC) @@
  (bakA :> fileA) @@ (bakB :> fileB) @@ (bakC :> fileC)

NoSuggestionChecks == [p \in {sugA, sugB, sugC} |-> {}]

(* One plan over three files, whose edits leave the second as it is, and a *)
(* diagnostic with three suggestions, one of them not machine-applicable;  *)
(* all keep backups, so that of fileA may be written by two suggestions.   *)
OnePlanFiles ==
  (planA :> <<fileA, fileB, fileC>>) @@ (sugA :> <<fileA, fileC>>) @@ (sugB :> <<fileA>>)
  @@ (sugC :> <<>>)
OnePlanChanges == [p \in FixPlan |-> ToSet(OnePlanFiles[p]) \ {fileB}]
OnePlanBackups == [p \in FixPlan |-> TRUE]
OneDiagnostic == <<sugA, sugC, sugB>>
NoDiagnostic == <<>>
OnePlanPre == NoSuggestionChecks @@ (planA :> {[kind |-> "exists", path |-> fileA],
                        [kind |-> "missing", path |-> bakB]})
OnePlanPost == NoSuggestionChecks @@ (planA :> {[kind |-> "contains", path |-> fileC, change |-> planA],
                         [kind |-> "equals", path |-> fileB, content |-> {}]})

(* Two plans, started by two processes, over one file. *)
TwoPlansFiles == (planA :> <<fileA>>) @@ (planB :> <<fileA>>)
TwoPlansChanges == (planA :> {fileA}) @@ (planB :> {fileA})
TwoPlansBackups == (planA :> FALSE) @@ (planB :> FALSE)
NoChecks == (planA :> {}) @@ (planB :> {})
=============================================================================
