------------------------------- MODULE Identity --------------------------------
(***************************************************************************)
(* What a diagnostic is known by (src/fingerprint.rs, src/canonical.rs):   *)
(* its digest, of its meaningful content; its fingerprint, of what stays   *)
(* when its presentation changes; the digest of a report.  A hash stands   *)
(* for the sequence of fields it is fed, which the encoding keeps apart.   *)
(*                                                                         *)
(* A diagnostic is a record of its fields (src/diagnostic.rs).  A path is  *)
(* [abs |-> it is absolute, parts |-> its components]; the value of an     *)
(* attribute is [rank |-> its type, bytes |-> its canonical bytes].        *)
(***************************************************************************)
EXTENDS Integers, FiniteSets, SequencesExt

None == "none"                     \* an optional field that is not set

IdentityAttribute == "diagprint.identity"

CONSTANT AttributeNames            \* what an attribute may be named, in order

Place(name) == CHOOSE i \in DOMAIN AttributeNames : AttributeNames[i] = name

Field(seq, name) == [i \in DOMAIN seq |-> seq[i][name]]

(* By name alone.                                                          *)
ByName(a, b) == Place(a.name) < Place(b.name)

(* compare_attributes: by name, by type, by canonical bytes.               *)
CompareAttributes(a, b) ==
  \/ Place(a.name) < Place(b.name)
  \/ /\ a.name = b.name
     /\ \/ a.value.rank < b.value.rank
        \/ a.value.rank = b.value.rank /\ a.value.bytes < b.value.bytes

(* A stable sort.                                                          *)
Sorted(seq, Before(_, _)) ==
  FoldLeft(LAMBDA done, e :
             LET at == 1 + Cardinality({i \in DOMAIN done : ~ Before(e, done[i])})
             IN  InsertAt(done, at, e),
           <<>>, seq)

SortedByName(attributes) == Sorted(attributes, ByName)

SortedAttributes(attributes) == Sorted(attributes, CompareAttributes)

(* DiagnosticDigest::compute.  The revisions of labels, where and when the *)
(* diagnostic was made are not in it.                                      *)
DiagnosticDigest(d) ==
  [application |-> d.application, severity |-> d.severity, code |-> d.code,
   message |-> d.message, attributes |-> SortedAttributes(d.attributes),
   labels |-> [i \in DOMAIN d.labels |->
                 [kind |-> d.labels[i].kind, file |-> d.labels[i].file,
                  line |-> d.labels[i].line, column |-> d.labels[i].column,
                  length |-> d.labels[i].length, message |-> d.labels[i].message]],
   notes |-> d.notes, help |-> d.help, cause |-> d.cause, suggestions |-> d.suggestions]

(* ReportDigest::compute: the digests of its diagnostics, sorted.          *)
ReportDigest(diagnostics) ==
  LET digests == [i \in DOMAIN diagnostics |-> DiagnosticDigest(diagnostics[i])]
  IN  [digest \in ToSet(digests) |-> Cardinality({i \in DOMAIN digests : digests[i] = digest})]

(* portable_file_name                                                      *)
PortableFileName(file) == IF file.parts = <<>> THEN None ELSE Last(file.parts)

(* What a primary label adds under a policy.                               *)
LabelIdentity(label, policy) ==
  [source  |-> CASE policy.source = "omit" -> None
                 [] policy.source = "file_name" -> PortableFileName(label.file)
                 [] policy.source = "full" -> label.file,
   message |-> IF policy.label THEN label.message ELSE None]

IsPrimary(label) == label.kind = "primary"

(* The identities a producer gave, sorted.                                 *)
ExplicitIdentity(d, policy) ==
  IF policy.explicit
  THEN Field(SortedAttributes(SelectSeq(d.attributes,
                                        LAMBDA a : a.name = IdentityAttribute)), "value")
  ELSE <<>>

(* DiagnosticFingerprint::compute_with_policy.  Primary labels are sorted  *)
(* by what they add: how many add the same is what counts.                 *)
Fingerprint(d, policy) ==
  LET code     == IF policy.code THEN d.code ELSE "omitted"
      explicit == ExplicitIdentity(d, policy)
      primary  == SelectSeq(d.labels, IsPrimary)
      added    == [i \in DOMAIN primary |-> LabelIdentity(primary[i], policy)]
  IN  IF explicit # <<>> THEN <<"explicit", code, explicit>>
      ELSE <<"derived", code, IF policy.message THEN d.message ELSE "omitted",
             [a \in ToSet(added) |-> Cardinality({i \in DOMAIN added : added[i] = a})]>>

-----------------------------------------------------------------------------
(* Two diagnostics mean the same, whatever the digest says of them: they   *)
(* agree but for where and when they were made, for the revisions of their *)
(* labels and for the order of their attributes.                           *)
SameMeaning(d, e) ==
  LET plain(x) == [x EXCEPT !.hostname = None, !.pid = None, !.attributes = <<>>,
                            !.labels = [i \in DOMAIN @ |-> [@[i] EXCEPT !.revision = 0]]]
      number(x, a) == Cardinality({i \in DOMAIN x.attributes : x.attributes[i] = a})
  IN  /\ plain(d) = plain(e)
      /\ \A a \in ToSet(d.attributes) \cup ToSet(e.attributes) : number(d, a) = number(e, a)
=============================================================================
