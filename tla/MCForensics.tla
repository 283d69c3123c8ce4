----------------------------- MODULE MCForensics -----------------------------
(* An instance of Investigation for TLC. *)
EXTENDS Investigation

(* One fingerprint with a content per severity, one with a single content. *)
MixedFingerprint == [d \in Contents |-> IF d = "other" THEN "g" ELSE "f"]

MixedSeverity == [d \in Contents |->
  CASE d = "warning" -> 3 [] d = "fatal" -> 5 [] OTHER -> 4]

(* Two copies of one content, one of the rest.                             *)
MixedCopies == [d \in Contents |-> IF d = "error" THEN 2 ELSE 1]

(* Either order of the two contents of a long history.                     *)
LongOrder == {<<"warning", "error", "fatal", "other">>, <<"error", "warning", "fatal", "other">>}

Six == <<"a", "b", "c", "d", "e", "f">>
Bad == "bad name"
Relates(from, to, kind, evidence) ==
  [from |-> from, to |-> to, kind |-> kind, evidence |-> evidence, producer |-> "p"]

(* Two ways of different length from a to e, and on to f; cycles; both     *)
(* readings of a symmetric edge; and what is refused.                      *)
SomeRelationships ==
  {Relates("a", "b", "causes", "producer_declared"),
   Relates("b", "c", "contributes_to", "source_chain"),
   Relates("c", "e", "causes", "source_chain"),
   Relates("a", "d", "causes", "producer_declared"),
   Relates("d", "e", "causes", "producer_declared"),
   Relates("e", "f", "causes", "producer_declared"),
   Relates("f", "a", "depends_on", "inferred_correlation"),
   Relates("d", "c", "related_to", "inferred_correlation"),
   Relates("c", "d", "related_to", "inferred_correlation"),
   Relates("a", "f", "causes", "inferred_correlation"),
   Relates("a", "a", "precedes", "structural"),
   [Relates("a", "c", "derived_from", "structural") EXCEPT !.producer = Bad]}

TwoRuns == <<{"a", "b", "c", "d", "e", "f"}, {"a", "b"}>>
SomeQueries == {{"a"}, {"e"}, {"a", "e"}}
=============================================================================
