----------------------------- MODULE Publication ------------------------------
(***************************************************************************)
(* Diagnostics from the builder to what leaves the process: a diagnostic   *)
(* is built call by call (src/diagnostic.rs), gathered in a report         *)
(* (src/report.rs) and exported under a policy (src/export.rs) as JSON, as *)
(* SARIF, as GitHub annotations or as telemetry events, which have a       *)
(* policy of their own (crates/diagprint-otel).  An export is what it      *)
(* carries; how that is laid out is left out.                              *)
(***************************************************************************)
EXTENDS Identity

CONSTANTS
  Blank,               \* diagnostics to start from, as they are made or as an importer left them
  Codes, Attributes, Wordings, Labels, Fixes,   \* what builder calls are given
  Policies,            \* export policies
  TelemetryPolicies, FingerprintPolicies,
  SensitiveNames,      \* the names is_sensitive_key knows
  Bindings,            \* the revisions of snapshots: functions of paths
  MaxCalls,            \* bound: builder calls
  MaxReport            \* bound: diagnostics in a report

VARIABLES
  draft,               \* the diagnostic being built
  calls,               \* builder calls made
  report               \* the report, a sequence of diagnostics

pubVars == <<draft, calls, report>>

Redacted == "[REDACTED]"
Omitted == "omitted"   \* a field an export leaves out

Error == 4

Set(optional) == optional # None

-----------------------------------------------------------------------------
(* The builder, and the report.                                            *)

Built(next) ==
  /\ calls < MaxCalls /\ Len(report) < MaxReport
  /\ draft' = next /\ calls' = calls + 1
  /\ UNCHANGED report

SetCode(code) == Built([draft EXCEPT !.code = code])
AddAttribute(attribute) == Built([draft EXCEPT !.attributes = Append(@, attribute)])
AddNote(text) == Built([draft EXCEPT !.notes = Append(@, text)])
SetHelp(text) == Built([draft EXCEPT !.help = text])

(* cause: the cause of the first cause, in place of one it had.            *)
AddCause(text) ==
  Built([draft EXCEPT !.cause = IF @ = <<>> THEN <<text>> ELSE <<Head(@), text>>])

AddLabel(label) == Built([draft EXCEPT !.labels = Append(@, label)])
AddSuggestion(suggestion) == Built([draft EXCEPT !.suggestions = Append(@, suggestion)])

(* bind_source_revisions: labels of the snapshot that have no revision yet. *)
Bound(labels, binding) ==
  [i \in DOMAIN labels |->
     IF labels[i].revision = 0 /\ labels[i].file \in DOMAIN binding
     THEN [labels[i] EXCEPT !.revision = binding[labels[i].file]] ELSE labels[i]]

BindSourceRevisions(binding) == Built([draft EXCEPT !.labels = Bound(@, binding)])

(* The next diagnostic matters when there is room for it.                  *)
Push(blank) ==
  /\ Len(report) < MaxReport
  /\ report' = Append(report, draft)
  /\ draft' = IF Len(report') < MaxReport THEN blank ELSE draft
  /\ UNCHANGED calls

Filtered(diagnostics, minimum) == SelectSeq(diagnostics, LAMBDA d : d.severity >= minimum)

RetainMinSeverity(minimum) ==
  /\ report # <<>>
  /\ report' = Filtered(report, minimum)
  /\ UNCHANGED <<draft, calls>>

(* The part of the order of sort_deterministic the instances tell apart.   *)
SortDeterministic ==
  /\ report # <<>>
  /\ report' = Sorted(report, LAMBDA d, e : d.severity > e.severity)
  /\ UNCHANGED <<draft, calls>>

PubInit == draft \in Blank /\ calls = 0 /\ report = <<>>

PubNext ==
  \/ \E code \in Codes : SetCode(code)
  \/ \E attribute \in Attributes : AddAttribute(attribute)
  \/ \E text \in Wordings : AddNote(text) \/ SetHelp(text) \/ AddCause(text)
  \/ \E label \in Labels : AddLabel(label)
  \/ \E suggestion \in Fixes : AddSuggestion(suggestion)
  \/ \E binding \in Bindings : BindSourceRevisions(binding)
  \/ \E blank \in Blank : Push(blank)
  \/ \E minimum \in {1, Error} : RetainMinSeverity(minimum)
  \/ SortDeterministic

(* DiagnosticReport::status_at, counts                                     *)
Fails(diagnostics, threshold) == \E i \in DOMAIN diagnostics : diagnostics[i].severity >= threshold

Failures(diagnostics) == Cardinality({i \in DOMAIN diagnostics : diagnostics[i].severity >= Error})

-----------------------------------------------------------------------------
(* What a policy does to a text, a path, a URL, the attributes.            *)

Optional(Apply(_), value) == IF Set(value) THEN Apply(value) ELSE None

ExportText(policy, text) == IF policy.text = "redact" THEN Redacted ELSE text

ExportTexts(policy, texts) == [i \in DOMAIN texts |-> ExportText(policy, texts[i])]

(* sanitize_path: the last component, where it is a name.                  *)
Nameless(path) == path.parts = <<>> \/ Last(path.parts) = ".."

SanitizePath(path) ==
  [abs |-> FALSE, parts |-> <<IF Nameless(path) THEN Redacted ELSE Last(path.parts)>>]

SafeRelativePath(parts) == parts # <<>> /\ ".." \notin ToSet(parts)

(* The path below a root, and its name wherever that would climb.          *)
RelativeTo(root, path) ==
  LET below == IF path.abs THEN SubSeq(path.parts, Len(root) + 1, Len(path.parts))
               ELSE path.parts
  IN  IF (path.abs => IsPrefix(root, path.parts)) /\ SafeRelativePath(below)
      THEN [abs |-> FALSE, parts |-> below]
      ELSE SanitizePath(path)

ExportPath(policy, path) ==
  CASE policy.paths = "omit"      -> [abs |-> FALSE, parts |-> <<Omitted>>]
    [] policy.paths = "file_name" -> SanitizePath(path)
    [] policy.paths = "full_path" -> path
    [] policy.paths = "relative"  -> RelativeTo(policy.root, path)

(* A URL is a record of its parts; the tokens it is written with.          *)
Written(url) ==
  url.scheme \o (IF url.user = <<>> THEN <<>> ELSE Append(url.user, "@")) \o url.host \o url.path
  \o (IF url.query = <<>> THEN <<>> ELSE <<"?">> \o url.query)
  \o (IF url.fragment = <<>> THEN <<>> ELSE <<"#">> \o url.fragment)

(* split_once: what is before and after a token, all before when there is  *)
(* none.                                                                   *)
Before(tokens, at) == IF at = 0 THEN tokens ELSE SubSeq(tokens, 1, at - 1)
After(tokens, at) == SubSeq(tokens, at + 1, Len(tokens))
First(tokens, token) == SelectInSeq(tokens, LAMBDA t : t = token)

(* What is after the first @ of an authority.                              *)
HostAfterFirst(authority) == After(authority, First(authority, "@"))

(* What is after the last @ of an authority, all of it when there is none. *)
Host(authority) == After(authority, SelectLastInSeq(authority, LAMBDA t : t = "@"))

SanitizeUrl(url) ==
  LET whole  == Before(url, First(url, "#"))
      plain  == Before(whole, First(whole, "?"))
      scheme == IF First(plain, "//") = 1 THEN 1 ELSE First(plain, "://")
      rest   == After(plain, scheme)
      slash  == First(rest, "/")
  IN  IF scheme = 0 THEN plain
      ELSE SubSeq(plain, 1, scheme) \o Host(Before(rest, slash))
           \o (IF slash = 0 THEN <<>> ELSE SubSeq(rest, slash, Len(rest)))

ExportUrl(policy, url) ==
  CASE policy.urls = "omit" -> Omitted
    [] policy.urls = "sanitize" -> SanitizeUrl(Written(url))
    [] policy.urls = "full" -> Written(url)

IsSensitiveKey(name) == name \in SensitiveNames

ExportAttributes(policy, attributes) ==
  LET redacted(a) == [a EXCEPT !.value = Redacted]
  IN  CASE policy.attributes = "omit" -> <<>>
        [] policy.attributes = "redact" -> [i \in DOMAIN attributes |-> redacted(attributes[i])]
        [] policy.attributes = "redact_sensitive" ->
             [i \in DOMAIN attributes |->
                IF IsSensitiveKey(attributes[i].name) THEN redacted(attributes[i])
                ELSE attributes[i]]
        [] policy.attributes = "full" -> attributes

(* ExportPolicyDescriptor, which receipts and capsules say of a policy:    *)
(* its modes, and not the root.                                            *)
Descriptor(policy) == [mode \in DOMAIN policy \ {"root"} |-> policy[mode]]

-----------------------------------------------------------------------------
(* The exports.                                                            *)

(* A label whose message is not text.                                      *)
LabelKeepsMessage(policy, label) ==
  [label EXCEPT !.file = ExportPath(policy, @)]

ExportLabel(policy, label) ==
  [label EXCEPT !.file = ExportPath(policy, @),
                !.message = Optional(LAMBDA text : ExportText(policy, text), @)]

ExportSuggestion(policy, s) ==
  [title         |-> ExportText(policy, s.title),
   applicability |-> s.applicability,
   documentation |-> [i \in DOMAIN s.documentation |->
                        [label |-> ExportText(policy, s.documentation[i].label),
                         url   |-> ExportUrl(policy, s.documentation[i].url)]],
   edits         |-> Len(s.edits)]

(* ExportDiagnostic::with_policy, which JSON documents, capsules and delta *)
(* artifacts carry.                                                        *)
ExportDiagnostic(policy, d) ==
  [application |-> IF policy.application THEN d.application ELSE Omitted,
   hostname    |-> IF policy.hostname THEN d.hostname ELSE Omitted,
   pid         |-> IF policy.pid THEN d.pid ELSE Omitted,
   severity    |-> d.severity, code |-> d.code,
   message     |-> ExportText(policy, d.message),
   attributes  |-> ExportAttributes(policy, d.attributes),
   count       |-> Len(d.attributes),
   labels      |-> [i \in DOMAIN d.labels |-> ExportLabel(policy, d.labels[i])],
   notes       |-> ExportTexts(policy, d.notes),
   help        |-> Optional(LAMBDA text : ExportText(policy, text), d.help),
   cause       |-> ExportTexts(policy, d.cause),
   suggestions |-> IF policy.remediation = "omit" THEN <<>>
                   ELSE [i \in DOMAIN d.suggestions |-> ExportSuggestion(policy, d.suggestions[i])]]

(* JsonRenderer::try_render_report_with_policy                             *)
Json(policy, diagnostics) ==
  [i \in DOMAIN diagnostics |-> ExportDiagnostic(policy, diagnostics[i])]

(* The first primary label, else the first: 0 when there is none.          *)
PrimaryLabelIndex(labels) ==
  LET primary == SelectInSeq(labels, IsPrimary)
  IN  IF primary # 0 THEN primary ELSE IF labels # <<>> THEN 1 ELSE 0

(* Texts joined to one, which is redacted as one.                          *)
Joined(policy, texts) == IF policy.text = "redact" THEN <<Redacted>> ELSE texts

OfOption(optional) == IF Set(optional) THEN <<optional>> ELSE <<>>

RuleId(d) == IF Set(d.code) THEN <<"code", d.code>> ELSE <<"uncoded", d.severity>>

SarifLevel(severity) ==
  CASE severity <= 1 -> "none" [] severity = 2 -> "note" [] severity = 3 -> "warning"
    [] severity >= Error -> "error"

SarifLocation(policy, label, id) ==
  [id |-> id, file |-> ExportPath(policy, label.file), line |-> label.line,
   message |-> Optional(LAMBDA text : ExportText(policy, text), label.message),
   revision |-> label.revision]

(* The rule of an id, made of the first diagnostic of it.                  *)
SarifRule(policy, diagnostics, id) ==
  LET d == diagnostics[SelectInSeq(diagnostics, LAMBDA x : RuleId(x) = id)]
  IN  [id |-> id, text |-> ExportText(policy, d.message), level |-> SarifLevel(d.severity),
       help |-> Optional(LAMBDA text : ExportText(policy, text), d.help)]

(* The result of a diagnostic, which names its rule by its place.          *)
SarifResult(policy, d, ids) ==
  LET main    == PrimaryLabelIndex(d.labels)
      related == IF main = 0 THEN <<>> ELSE RemoveAt(d.labels, main)
  IN  [rule      |-> RuleId(d),
       index     |-> First(ids, RuleId(d)),
       level     |-> SarifLevel(d.severity),
       message   |-> Joined(policy, <<d.message>> \o d.notes \o OfOption(d.help) \o d.cause),
       locations |-> IF main = 0 THEN <<>> ELSE <<SarifLocation(policy, d.labels[main], 0)>>,
       related   |-> [i \in DOMAIN related |-> SarifLocation(policy, related[i], i)]]

(* One rule for each id, in an order of theirs, and one result for each    *)
(* diagnostic.                                                             *)
Sarif(policy, diagnostics) ==
  LET ids == SetToSeq({RuleId(diagnostics[i]) : i \in DOMAIN diagnostics})
  IN  [rules   |-> [i \in DOMAIN ids |-> SarifRule(policy, diagnostics, ids[i])],
       results |-> [i \in DOMAIN diagnostics |-> SarifResult(policy, diagnostics[i], ids)]]

GithubCommand(severity) ==
  CASE severity <= 2 -> "notice" [] severity = 3 -> "warning" [] severity >= Error -> "error"

(* GithubActionsRenderer::render_annotation, of a label or, with <<>>, of  *)
(* none: a secondary label is a notice with its own message.               *)
Annotation(policy, d, label) ==
  LET secondary == label # <<>> /\ ~ IsPrimary(label[1])
      own       == IF label = <<>> THEN <<>> ELSE OfOption(label[1].message)
      message   == IF secondary
                   THEN IF own # <<>> THEN own ELSE <<"related", d.message>>
                   ELSE <<d.message>> \o own \o d.notes \o OfOption(d.help)
  IN  [command |-> IF secondary THEN "notice" ELSE GithubCommand(d.severity),
       file    |-> [i \in DOMAIN label |-> ExportPath(policy, label[i].file)],
       title   |-> (IF secondary THEN <<"related">> ELSE <<>>) \o OfOption(d.code),
       message |-> Joined(policy, message)]

(* GithubActionsRenderer::render_with_policy                               *)
Annotations(policy, d) ==
  IF d.labels = <<>> THEN <<Annotation(policy, d, <<>>)>>
  ELSE [i \in DOMAIN d.labels |-> Annotation(policy, d, <<d.labels[i]>>)]

-----------------------------------------------------------------------------
(* Telemetry (crates/diagprint-otel/src/event.rs).                         *)

TelemetryTexts(option, key, texts) ==
  IF option = "omit" THEN <<>>
  ELSE [i \in DOMAIN texts |-> <<key, IF option = "redact" THEN Redacted ELSE texts[i]>>]

TelemetryAttributes(policy, attributes) ==
  CASE policy.attributes = "omit" -> <<>>
    [] policy.attributes = "redact" ->
         [i \in DOMAIN attributes |-> <<attributes[i].name, Redacted>>]
    [] policy.attributes = "full" ->
         [i \in DOMAIN attributes |-> <<attributes[i].name, attributes[i].value>>]

(* LocationExport::apply: what is shown of a path, if anything.            *)
TelemetryFile(option, path) ==
  CASE option = "omit"      -> <<>>
    [] option = "file_name" -> IF Nameless(path) THEN <<>> ELSE <<Last(path.parts)>>
    [] option = "full_path" -> <<path>>

(* push_location: a path that is not shown takes all that is known of the  *)
(* label with it.                                                          *)
TelemetryLocation(policy, label) ==
  LET file == TelemetryFile(policy.locations, label.file)
  IN  IF file = <<>> THEN <<>>
      ELSE <<<<"file", file>>, <<"line", label.line>>, <<"revision", label.revision>>>>
           \o TelemetryTexts(policy.labels, "label", OfOption(label.message))

(* build_event                                                             *)
TelemetryEvent(policy, d) ==
  LET main == PrimaryLabelIndex(d.labels)
      given(included, key, value) == IF included THEN <<<<key, value>>>> ELSE <<>>
  IN  [attributes |->
         <<<<"severity", d.severity>>>>
         \o given(policy.application, "application", d.application)
         \o given(policy.hostname, "hostname", d.hostname)
         \o given(policy.pid, "pid", d.pid)
         \o given(Set(d.code), "code", d.code)
         \o TelemetryTexts(policy.message, "message", <<d.message>>)
         \o TelemetryTexts(policy.help, "help", OfOption(d.help))
         \o TelemetryTexts(policy.notes, "note", d.notes)
         \o TelemetryTexts(policy.causes, "cause", d.cause)
         \o <<<<"labels", Len(d.labels)>>, <<"notes", Len(d.notes)>>,
              <<"attributes", Len(d.attributes)>>, <<"suggestions", Len(d.suggestions)>>,
              <<"fix", \E i \in DOMAIN d.suggestions :
                         /\ d.suggestions[i].applicability = "MachineApplicable"
                         /\ d.suggestions[i].edits # <<>>>>>>
         \o TelemetryAttributes(policy, d.attributes)
         \o (IF main = 0 THEN <<>> ELSE TelemetryLocation(policy, d.labels[main])),
       failed |-> policy.mark /\ d.severity >= Error]

-----------------------------------------------------------------------------
(* Properties                                                              *)

(* Diagnostics that differ where a policy withholds, and nowhere else.     *)
Elsewhere(path) ==
  [abs |-> TRUE, parts |-> IF Nameless(path) THEN <<"elsewhere", "..">>
                           ELSE <<"elsewhere", Last(path.parts)>>]

(* The same place below a root that has moved.                             *)
Rerooted == <<"rerooted">>

Moved(policy) == IF policy.paths = "relative" THEN [policy EXCEPT !.root = Rerooted] ELSE policy

Hidden(path, shows, root) ==
  LET below == SubSeq(path.parts, Len(root) + 1, Len(path.parts))
      clean(parts) == parts # <<>> /\ \A i \in DOMAIN parts : parts[i] # ".."
  IN  CASE shows = "omit"      -> [abs |-> TRUE, parts |-> <<"hidden">>]
        [] shows = "file_name" -> Elsewhere(path)
        [] shows = "full_path" -> path
        [] shows = "relative"  ->
             IF ~ path.abs /\ clean(path.parts) THEN path
             ELSE IF path.abs /\ IsPrefix(root, path.parts) /\ clean(below)
             THEN [path EXCEPT !.parts = Rerooted \o below]
             ELSE Elsewhere(path)

Withheld(policy, d) ==
  LET text(t) == IF policy.text = "redact" /\ Set(t) THEN "hidden" ELSE t
      texts(seq) == [i \in DOMAIN seq |-> text(seq[i])]
      value(a) == IF \/ policy.attributes \in {"omit", "redact"}
                     \/ policy.attributes = "redact_sensitive" /\ a.name \in SensitiveNames
                  THEN [a.value EXCEPT !.bytes = 0] ELSE a.value
      url(u) == CASE policy.urls = "omit" -> [u EXCEPT !.host = <<"hidden">>]
                  [] policy.urls = "sanitize" ->
                       [u EXCEPT !.user = <<>>, !.query = <<>>, !.fragment = <<>>]
                  [] policy.urls = "full" -> u
  IN  [d EXCEPT
         !.application = IF policy.application THEN @ ELSE "hidden",
         !.hostname = IF policy.hostname THEN @ ELSE "hidden",
         !.pid = IF policy.pid THEN @ ELSE "hidden",
         !.message = text(@), !.notes = texts(@), !.help = text(@), !.cause = texts(@),
         !.attributes = [i \in DOMAIN @ |->
            [name |-> IF policy.attributes = "omit" THEN "hidden" ELSE @[i].name,
             value |-> value(@[i])]],
         !.labels = [i \in DOMAIN @ |->
            [@[i] EXCEPT !.file = Hidden(@, policy.paths, policy.root), !.message = text(@)]],
         !.suggestions = IF policy.remediation = "omit" THEN <<>>
           ELSE [i \in DOMAIN @ |->
                   [@[i] EXCEPT !.title = text(@),
                                !.edits = [k \in DOMAIN @ |-> "hidden"],
                                !.documentation = [k \in DOMAIN @ |->
                                   [label |-> text(@[k].label), url |-> url(@[k].url)]]]]]

(* The same for telemetry, whose policy leaves more out: what it omits may *)
(* not even be there.                                                      *)
Untold(policy, d) ==
  LET texts(option, seq) ==
        CASE option = "plain" -> seq [] option = "redact" -> [i \in DOMAIN seq |-> "hidden"]
          [] option = "omit" -> <<>>
      text(option, t) == LET left == texts(option, OfOption(t))
                         IN  IF left = <<>> THEN None ELSE left[1]
  IN  [d EXCEPT
         !.application = IF policy.application THEN @ ELSE "hidden",
         !.hostname = IF policy.hostname THEN @ ELSE "hidden",
         !.pid = IF policy.pid THEN @ ELSE "hidden",
         !.message = IF policy.message = "plain" THEN @ ELSE "hidden",
         !.help = text(policy.help, @), !.cause = texts(policy.causes, @),
         !.notes = IF policy.notes = "plain" THEN @ ELSE [i \in DOMAIN @ |-> "hidden"],
         !.attributes = [i \in DOMAIN @ |->
            [name |-> IF policy.attributes = "omit" THEN "hidden" ELSE @[i].name,
             value |-> IF policy.attributes = "full" THEN @[i].value ELSE "hidden"]],
         !.labels = [i \in DOMAIN @ |->
            [@[i] EXCEPT !.file = Hidden(@, policy.locations, <<>>),
                         !.line = IF policy.locations = "omit" THEN 0 ELSE @,
                         !.message = IF policy.locations = "omit" THEN None
                                     ELSE text(policy.labels, @)]],
         !.suggestions = [i \in DOMAIN @ |-> [@[i] EXCEPT !.title = "hidden"]]]

(* Nothing that a policy withholds can be told from any export under it:   *)
(* diagnostics that differ in withheld texts, directories, values,         *)
(* addresses, edits or processes, and in nothing else, have the same       *)
(* exports (src/export.rs and the renderers that take an ExportPolicy;     *)
(* crates/diagprint-otel/src/event.rs).                                    *)
ExportsWithhold ==
  /\ \A policy \in Policies :
       LET other == [i \in DOMAIN report |-> Withheld(policy, report[i])]
       IN  /\ Descriptor(policy) = Descriptor(Moved(policy))
           /\ Json(policy, report) = Json(Moved(policy), other)
           /\ Sarif(policy, report) = Sarif(Moved(policy), other)
           /\ \A i \in DOMAIN report :
                Annotations(policy, report[i]) = Annotations(Moved(policy), other[i])
  /\ \A policy \in TelemetryPolicies, i \in DOMAIN report :
       TelemetryEvent(policy, report[i]) = TelemetryEvent(policy, Untold(policy, report[i]))

(* The exports of a report tell the same story: a SARIF result finds its   *)
(* rule at the place it names, and shows the labels JSON has, each once,   *)
(* as GitHub does; the report fails, a SARIF result is an error and a      *)
(* telemetry event fails its span together, and a GitHub annotation is an  *)
(* error with them unless all the labels are secondary; and a filter at or *)
(* below the failing severity changes nothing of it (src/report.rs,        *)
(* src/render/sarif.rs, src/render/github_actions.rs).                     *)
ExportsAgree ==
  \A policy \in Policies :
    LET json == Json(policy, report)  sarif == Sarif(policy, report)
    IN  /\ \A i \in DOMAIN report :
             LET result == sarif.results[i]
                 notes  == Annotations(policy, report[i])
                 shown  == result.locations \o result.related
                 place(l) == <<l.file, l.line, l.message, l.revision>>
                 number(labels, l) == Cardinality({k \in DOMAIN labels : place(labels[k]) = place(l)})
                 severe == report[i].severity >= Error
             IN  /\ result.index \in DOMAIN sarif.rules
                 /\ sarif.rules[result.index].id = result.rule
                 /\ Len(shown) = Len(json[i].labels)
                 /\ \A k \in DOMAIN shown :
                      /\ number(shown, shown[k]) = number(json[i].labels, shown[k])
                      /\ notes[k].file = <<json[i].labels[k].file>>
                 /\ result.level = "error" <=> severe
                 /\ (\E k \in DOMAIN notes : notes[k].command = "error")
                      <=> severe /\ (\/ report[i].labels = <<>>
                                     \/ \E k \in DOMAIN report[i].labels :
                                          IsPrimary(report[i].labels[k]))
                 /\ \A t \in TelemetryPolicies :
                      TelemetryEvent(t, report[i]).failed <=> t.mark /\ severe
        /\ Fails(report, Error) <=> \E i \in DOMAIN report : sarif.results[i].level = "error"
        /\ Fails(report, Error) <=> Failures(report) > 0
        /\ \A minimum \in 0..Error :
             Failures(Filtered(report, minimum)) = Failures(report)

ExportsHold == ExportsWithhold /\ ExportsAgree

(* Diagnostics have one digest exactly when they mean the same, and then   *)
(* any policy gives them one fingerprint and they are as severe: what the  *)
(* history and a delta pair by digest is alike in all they compare.  An    *)
(* identity its producer gave outlasts every change but one of the code    *)
(* (src/fingerprint.rs; docs/canonical-v1.md:112-137).                     *)
IdentityHolds ==
  \A i, j \in DOMAIN report :
    LET d == report[i]  e == report[j]
        identities(x) == {a \in ToSet(x.attributes) : a.name = IdentityAttribute}
    IN  /\ DiagnosticDigest(d) = DiagnosticDigest(e) <=> SameMeaning(d, e)
        /\ DiagnosticDigest(d) = DiagnosticDigest(e) =>
             /\ d.severity = e.severity
             /\ \A policy \in FingerprintPolicies : Fingerprint(d, policy) = Fingerprint(e, policy)
        /\ (/\ identities(d) = identities(e) /\ Cardinality(identities(d)) = 1
            /\ \A x \in {d, e} : Len(SelectSeq(x.attributes, LAMBDA a : a.name = IdentityAttribute)) = 1
            /\ d.code = e.code) =>
             \A policy \in {p \in FingerprintPolicies : p.explicit} :
               Fingerprint(d, policy) = Fingerprint(e, policy)
        /\ ReportDigest(<<d, e>>) = ReportDigest(<<e, d>>)
=============================================================================
