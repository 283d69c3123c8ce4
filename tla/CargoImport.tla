----------------------------- MODULE CargoImport ------------------------------
(***************************************************************************)
(* A build imported line by line (src/cargo.rs, src/compiler.rs): Cargo's  *)
(* messages are summed up, and the suggestions of rustc become edits of    *)
(* the source as it is when each of their spans is imported; Fixer::apply  *)
(* (src/fixer.rs) applies what is machine applicable.  Others edit the     *)
(* source at any time.  A package is named, and its documentation pinned   *)
(* (src/documentation.rs), by the metadata of the workspace.               *)
(*                                                                         *)
(* The source has one file; a span lies in it, or in a file outside the    *)
(* root, or in none that can be read.                                      *)
(***************************************************************************)
EXTENDS EditApply

CONSTANTS
  Sources,        \* the texts of the file
  ContextLength,  \* bytes an insertion expects before it, at most
  Lines,          \* the lines a build emits
  Importers,      \* settings: [root, hydrate, cargo]
  Metadata,       \* what cargo metadata may say: [version, packages]
  MaxLines,       \* bound: lines imported
  MaxSourceEdits  \* bound: edits by others

NoNew == <<"no replacement">>

(* A span of rustc: the file it lies in, and what replaces it, if anything.*)
Strings == {text \in Seq(DOMAIN Width) : WellFormed(text)}

Spans ==
  [file : {"inside", "outside", "unreadable"}, start : Nat, end : Nat, new : {NoNew} \cup Strings,
   kind : {"MachineApplicable", "MaybeIncorrect", "HasPlaceholders", "Manual", "none"}]

ASSUME CargoImportAssumption ==
  /\ Sources \subseteq Strings
  /\ \A line \in Lines : line.helps \in Seq(Seq(Spans))
  /\ \A metadata \in Metadata : IsFiniteSet(metadata.packages)
  /\ ContextLength \in Nat /\ MaxLines \in Nat /\ MaxSourceEdits \in Nat

VARIABLES
  source,         \* the text of the file
  built,          \* the text the compiler read
  importer,       \* the settings of the importer
  workspace,      \* the packages cargo metadata named, if it was loaded
  read,           \* how many lines were imported
  diagnosis,      \* the diagnostic of a line: [package, children], or none
  summary,        \* CargoBuildSummary
  fix,            \* what Fixer::apply did last, or nothing
  sourceEdits     \* edits by others

importVars == <<source, built, importer, workspace, read, diagnosis, summary, fix, sourceEdits>>

NoDiagnosis == [package |-> "none", children |-> <<>>]
NoFix == [before |-> <<>>, children |-> <<>>]

(* The children with spans still to be hydrated.                           *)
Unread ==
  {c \in DOMAIN diagnosis.children :
     Len(diagnosis.children[c].reads) < Len(diagnosis.children[c].spans)}

Settled == Unread = {}

(* iter().filter(): those of a list a condition holds of, in its order.    *)
Only(list, Holds(_)) ==
  FlattenSeq([n \in DOMAIN list |-> IF Holds(list[n]) THEN <<list[n]>> ELSE <<>>])

-----------------------------------------------------------------------------
(* The workspace                                                           *)

(* CargoWorkspace::from_metadata_json: another version is refused.  The    *)
(* dependencies and features of packages are copied.                       *)
LoadMetadata(metadata) ==
  /\ workspace = {} /\ read = 0 /\ metadata.version = 1
  /\ workspace' = metadata.packages
  /\ UNCHANGED <<source, built, importer, read, diagnosis, summary, fix, sourceEdits>>

(* package_identity                                                        *)
PackageIdentity(id) ==
  LET known == {package \in workspace : package.id = id}
  IN  [id      |-> id,
       named   |-> {<<package.name, package.version>> : package \in known},
       member  |-> \E package \in known : package.member]

(* register_package_version, and the one version documentation is pinned   *)
(* to, or none.                                                            *)
PackageVersions(name) == {package.version : package \in {p \in workspace : p.name = name}}

UniquePackageVersion(name) ==
  IF Cardinality(PackageVersions(name)) = 1 THEN PackageVersions(name) ELSE {}

-----------------------------------------------------------------------------
(* Suggestions                                                             *)

(* compiler_suggestion: the spans that replace something.                  *)
Replaces(span) == span.new # NoNew

ReplacementSpans(child) == Only(child, Replaces)

ApplicabilityFromRustc(kind) ==
  IF kind \in {"MachineApplicable", "MaybeIncorrect", "HasPlaceholders"} THEN kind ELSE "Manual"

CombinedApplicability(spans) ==
  LET kinds == {ApplicabilityFromRustc(span.kind) : span \in ToSet(spans)}
  IN  IF kinds = {"MachineApplicable"} THEN "MachineApplicable"
      ELSE IF "Manual" \in kinds THEN "Manual"
      ELSE IF "HasPlaceholders" \in kinds THEN "HasPlaceholders"
      ELSE "MaybeIncorrect"

(* insertion_context: the last bytes before the offset, whole characters.  *)
InsertionContext(text, offset) ==
  LET least == IF offset > ContextLength THEN offset - ContextLength ELSE 0
      start == CHOOSE s \in least..offset :
                 /\ s = offset \/ IsCharBoundary(text, s)
                 /\ \A t \in least..(s - 1) : ~IsCharBoundary(text, t)
  IN  IF start = offset THEN NoGuard ELSE Slice(text, start, offset)

(* hydrate_span, of the text the file has now: an edit, or nothing.        *)
HydratedSpan(span, text) ==
  IF ~importer.hydrate \/ ~importer.root \/ span.file # "inside" \/ ~ValidRange(text, span)
  THEN <<>>
  ELSE IF span.start = span.end
       THEN <<Insert(span.start, InsertionContext(text, span.start), span.new)>>
       ELSE <<Replace(span.start, span.end, Slice(text, span.start, span.end), span.new)>>

(* The suggestion that the spans of a child became; one of what could be   *)
(* hydrated; and the one of the code, where a part is for a person.        *)
HydratedOnly(child) ==
  [applicability |-> CombinedApplicability(child.spans), edits |-> FlattenSeq(child.edits)]

CompilerSuggestion(child) ==
  LET combined   == CombinedApplicability(child.spans)
      edits_made == FlattenSeq(child.edits)
  IN  [applicability |->
         IF <<>> \in ToSet(child.edits) THEN "Manual"
         ELSE IF combined = "MachineApplicable" /\ \E edit \in ToSet(edits_made) : edit.insert
              THEN "MaybeIncorrect" ELSE combined,
       edits |-> edits_made]

-----------------------------------------------------------------------------
(* The stream                                                              *)

(* What import_line of the CompilerImporter makes of a line: it picks the  *)
(* diagnostics, of Cargo and of rustc itself.                              *)
Picked(line) ==
  CASE line.kind \in {"compiler-message", "rustc"} -> "diagnostic"
    [] line.kind \in {"broken", "unrecognized"} -> "error"
    [] OTHER -> "nothing"

(* What that of the CargoStreamImporter makes of it: it knows every kind   *)
(* of message, and keeps what it does not know.                            *)
Imported(line) ==
  CASE ~importer.cargo \/ line.kind = "text" -> Picked(line)
    [] importer.cargo /\ line.kind \in {"compiler-message", "broken", "unrecognized"} -> Picked(line)
    [] importer.cargo /\ line.kind \in {"rustc", "other"} -> "unknown"
    [] OTHER -> line.kind

SeverityFromRustc(level) ==
  CASE level = "error: internal compiler error" -> "fatal"
    [] level = "error" -> "error"
    [] level = "warning" -> "warning"
    [] OTHER -> "info"

(* CargoBuildSummary::observe                                              *)
Observed(line) ==
  LET outcome  == Imported(line)
      One(b)   == IF b THEN 1 ELSE 0
      severity == SeverityFromRustc(line.level)
      diagnostic == outcome = "diagnostic"
  IN  [diagnostics |-> summary.diagnostics + One(diagnostic),
       errors      |-> summary.errors + One(diagnostic /\ severity \in {"fatal", "error"}),
       warnings    |-> summary.warnings + One(diagnostic /\ severity = "warning"),
       artifacts   |-> summary.artifacts + One(outcome = "compiler-artifact"),
       fresh       |-> summary.fresh + One(outcome = "compiler-artifact" /\ line.level = "fresh"),
       scripts     |-> summary.scripts + One(outcome = "build-script-executed"),
       native      |-> summary.native + One(outcome = "build-script-executed" /\ line.level = "native"),
       unknown     |-> summary.unknown + One(outcome = "unknown"),
       success     |-> IF outcome = "build-finished" THEN line.level ELSE summary.success,
       packages    |-> summary.packages \cup
                         IF outcome \in {"diagnostic", "compiler-artifact", "build-script-executed"}
                         THEN {line.package} ELSE {}]

(* The children of a diagnostic that replace something, and of each its    *)
(* spans, to be hydrated one by one.                                       *)
Replacing(spans) == spans # <<>>

Converted(line) ==
  LET children == Only([c \in DOMAIN line.helps |-> ReplacementSpans(line.helps[c])], Replacing)
  IN  [package  |-> line.package,
       children |-> [c \in DOMAIN children |->
                      [spans |-> children[c], edits |-> <<>>, reads |-> <<>>]]]

(* What rustc says of a text lies within it.                               *)
ImportLine(line) ==
  /\ Settled /\ read < MaxLines
  /\ \A child \in ToSet(line.helps) : \A span \in ToSet(child) :
       span.file = "inside" => ValidRange(built, span)
  /\ read' = read + 1
  /\ summary' = IF importer.cargo THEN Observed(line) ELSE summary
  /\ diagnosis' = IF Imported(line) = "diagnostic" THEN Converted(line) ELSE NoDiagnosis
  /\ fix' = NoFix
  /\ UNCHANGED <<source, built, importer, workspace, sourceEdits>>

(* The next span; every one reads the file again.                          *)
HydrateSpan ==
  \E c \in Unread :
    /\ \A d \in Unread : c <= d
    /\ LET child == diagnosis.children[c]
           span  == child.spans[Len(child.reads) + 1]
       IN  diagnosis' = [diagnosis EXCEPT !.children[c] =
             [spans |-> child.spans,
              edits |-> Append(child.edits, HydratedSpan(span, source)),
              reads |-> Append(child.reads, source)]]
    /\ UNCHANGED <<source, built, importer, workspace, read, summary, fix, sourceEdits>>

Automatic(child) ==
  /\ CompilerSuggestion(child).applicability = "MachineApplicable"
  /\ CompilerSuggestion(child).edits # <<>>

(* apply_edits                                                             *)
ApplyAll(text, list) ==
  LET after[k \in 0..Len(list)] == IF k = 0 THEN text ELSE Spliced(after[k - 1], list[k])
  IN  after[Len(list)]

(* Fixer::apply of the diagnostic: the edits of every machine applicable   *)
(* suggestion together, or none.                                           *)
ApplyFix ==
  /\ Settled /\ diagnosis # NoDiagnosis /\ fix = NoFix
  /\ LET applicable == Only(diagnosis.children, Automatic)
         all == FlattenSeq([c \in DOMAIN applicable |-> CompilerSuggestion(applicable[c]).edits])
     IN  /\ applicable # <<>> /\ Valid(source, all)
         /\ source' = ApplyAll(source, Sorted(all, FromTheEnd))
         /\ fix' = [before |-> source, children |-> applicable]
  /\ UNCHANGED <<built, importer, workspace, read, diagnosis, summary, sourceEdits>>

EditSource(text) ==
  /\ sourceEdits < MaxSourceEdits /\ text # source
  /\ source' = text /\ sourceEdits' = sourceEdits + 1
  /\ fix' = NoFix
  /\ UNCHANGED <<built, importer, workspace, read, diagnosis, summary>>

ImportInit ==
  /\ source \in Sources /\ built = source
  /\ importer \in Importers
  /\ workspace = {} /\ read = 0
  /\ diagnosis = NoDiagnosis
  /\ summary = [diagnostics |-> 0, errors |-> 0, warnings |-> 0, artifacts |-> 0, fresh |-> 0,
                scripts |-> 0, native |-> 0, unknown |-> 0, success |-> "none", packages |-> {}]
  /\ fix = NoFix /\ sourceEdits = 0

ImportNext ==
  \/ \E metadata \in Metadata : LoadMetadata(metadata)
  \/ \E line \in Lines : ImportLine(line)
  \/ HydrateSpan
  \/ ApplyFix
  \/ \E text \in Sources : EditSource(text)

ImportSpec == ImportInit /\ [][ImportNext]_importVars

-----------------------------------------------------------------------------
(* Properties                                                              *)

(* What the spans of the applied suggestions say, as edits of what the     *)
(* compiler read.                                                          *)
Meant ==
  FlattenSeq([c \in DOMAIN fix.children |->
    [n \in DOMAIN fix.children[c].spans |->
       LET span == fix.children[c].spans[n]
       IN  Replace(span.start, span.end, Slice(built, span.start, span.end), span.new)]])

(* An automatic fix is the whole of every suggestion it applies, all of it *)
(* machine applicable, in the trusted root and replacing a text that is    *)
(* still what the importer read for it; if that is what the compiler read, *)
(* the fix does what the compiler meant, all at once.                      *)
FixesAreMeant ==
  fix # NoFix =>
    /\ \A child \in ToSet(fix.children) : \A n \in DOMAIN child.spans :
         LET span == child.spans[n]
         IN  /\ importer.root /\ importer.hydrate /\ span.file = "inside"
             /\ span.kind = "MachineApplicable" /\ span.start < span.end
             /\ Slice(fix.before, span.start, span.end) = Slice(child.reads[n], span.start, span.end)
    /\ (\A child \in ToSet(fix.children) : ToSet(child.reads) = {built}) =>
         source = AllAtOnce(fix.before, Meant)

(* The documentation of a package a diagnostic is about is pinned to the   *)
(* version that was built, or to none.                                     *)
DocumentationIsPinned ==
  \A named \in PackageIdentity(diagnosis.package).named :
    UniquePackageVersion(named[1]) \subseteq {named[2]}

ImportsAreFaithful == FixesAreMeant /\ DocumentationIsPinned
=============================================================================
