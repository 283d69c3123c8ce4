---------------------------- MODULE MCWorkbench -----------------------------
(* Instances of Workbench for TLC. *)
EXTENDS Workbench, MCEditor

(* Texts in which spans of another fit, elsewhere or not at all.           *)
SourceTexts == {<<"a", "lead", "cont">>, <<"x", "a", "b">>, <<"b">>}

Span(file, start, end, new, kind) ==
  [file |-> file, start |-> start, end |-> end, new |-> new, kind |-> kind]
Sure(start, end, new) == Span("inside", start, end, new, "MachineApplicable")
Line(kind, level, package, helps) ==
  [kind |-> kind, level |-> level, package |-> package, helps |-> helps]
Error(helps) == Line("compiler-message", "error", "p2", helps)

(* Suggestions whole and in part, sure and unsure, in and out of the root, *)
(* and every kind of line.                                                 *)
SomeLines ==
  {Error(<<<<Sure(0, 1, <<"x">>)>>>>),
   Error(<<<<Sure(1, 3, <<>>), Sure(0, 1, <<"b">>)>>>>),
   Error(<<<<Sure(0, 1, <<"x">>), Span("outside", 0, 1, <<"x">>, "MachineApplicable")>>>>),
   Error(<<<<Sure(1, 1, <<"x">>)>>>>),
   Error(<<<<Sure(0, 1, <<"x">>)>>, <<Sure(0, 1, <<"b">>)>>>>),
   Error(<<<<Sure(0, 1, <<"x">>), Span("inside", 0, 0, <<"x">>, "MaybeIncorrect")>>,
            <<Sure(1, 3, <<"b">>)>>>>),
   Error(<<<<Span("inside", 0, 1, NoNew, "none")>>,
            <<Sure(0, 1, <<"x">>), Span("inside", 0, 1, NoNew, "none")>>>>),
   Line("rustc", "warning", "none", <<<<Sure(0, 1, <<>>)>>>>),
   Line("compiler-artifact", "fresh", "p1", <<>>),
   Line("build-script-executed", "native", "p3", <<>>),
   Line("build-finished", "failed", "none", <<>>),
   Line("other", "none", "none", <<>>),
   Line("text", "none", "none", <<>>), Line("broken", "none", "none", <<>>),
   Line("unrecognized", "none", "p1", <<>>)}

SomeImporters ==
  {[root |-> TRUE, hydrate |-> TRUE, cargo |-> TRUE], [root |-> TRUE, hydrate |-> TRUE, cargo |-> FALSE],
   [root |-> TRUE, hydrate |-> FALSE, cargo |-> TRUE], [root |-> FALSE, hydrate |-> TRUE, cargo |-> FALSE]}

(* A workspace that builds one version of a package, or two.               *)
Pkg(id, name, version, member) == [id |-> id, name |-> name, version |-> version, member |-> member]
SomeMetadata ==
  {[version |-> 1, packages |-> {Pkg("p1", "core", "1", TRUE), Pkg("p2", "util", "1", FALSE)}],
   [version |-> 1, packages |-> {Pkg("p1", "core", "1", TRUE), Pkg("p2", "util", "1", FALSE),
                                 Pkg("p3", "util", "2", FALSE)}],
   [version |-> 2, packages |-> {}]}

(* Diagnostics fresh and as an importer leaves them, and what is added to  *)
(* them: attributes that differ in type only, an identity and a sensitive  *)
(* one; paths in and out of the root and that climb; addresses with every  *)
(* separator where it may stand.                                           *)
SomeNames == <<"a", "diagprint.identity", "token">>

Attr(name, rank, bytes) == [name |-> name, value |-> [rank |-> rank, bytes |-> bytes]]
SomeAttributes == {Attr("a", 1, 1), Attr("token", 1, 2), Attr("diagprint.identity", 1, 1)}

File(abs, parts) == [abs |-> abs, parts |-> parts]
In == File(TRUE, <<"root", "src", "f">>)
Relative == File(FALSE, <<"src", "f">>)
Label(kind, file, message) ==
  [kind |-> kind, file |-> file, line |-> 1, column |-> 1, length |-> 1, revision |-> 0,
   message |-> message]
SomeLabels ==
  {Label("primary", In, "l1"), Label("primary", File(TRUE, <<"root", "..", "h">>), "none"),
   Label("secondary", File(FALSE, <<"..">>), "l2")}

Made(severity) ==
  [application |-> "app", hostname |-> "host", pid |-> "pid", severity |-> severity,
   code |-> "none", message |-> "m1", attributes |-> <<>>, labels |-> <<>>, notes |-> <<>>,
   help |-> "none", cause |-> <<>>, suggestions |-> <<>>]
Url(scheme, user, host, path, query, fragment) ==
  [scheme |-> scheme, user |-> user, host |-> host, path |-> path, query |-> query,
   fragment |-> fragment]
Advice(applicability, changes, url) ==
  [title |-> "t1", applicability |-> applicability, edits |-> changes,
   documentation |-> <<[label |-> "t2", url |-> url]>>]
SomeFixes ==
  {Advice("MachineApplicable", <<"e1">>,
          Url(<<"https", "://">>, <<"u", ":", "@", "p">>, <<"h">>, <<"/", "a", "@", "b">>,
              <<"q", "/", "://", "?", "@">>, <<"f", "?", "#">>)),
   Advice("Manual", <<"e1", "e2">>,
          Url(<<>>, <<>>, <<>>, <<"/", "a">>, <<"q", "://">>, <<"f">>))}

SomeBlanks ==
  {Made(2), Made(4),
   [Made(4) EXCEPT !.attributes = <<Attr("a", 1, 1), Attr("a", 2, 1)>>],
   [Made(4) EXCEPT !.attributes = <<Attr("a", 2, 1), Attr("a", 1, 1)>>, !.hostname = "other"],
   [Made(3) EXCEPT !.code = "c2", !.notes = <<"x2">>, !.help = "x3", !.cause = <<"x4">>,
                   !.labels = <<Label("secondary", File(TRUE, <<"home", "g">>), "l3"),
                                [Label("primary", Relative, "none") EXCEPT !.revision = 2]>>,
                   !.suggestions = <<Advice("Manual", <<>>, Url(<<"//">>, <<"u">>, <<"h">>, <<>>,
                                                               <<"q">>, <<>>))>>]}

Export(text, paths, attributes, remediation, urls, process) ==
  [text |-> text, paths |-> paths, root |-> <<"root">>, attributes |-> attributes,
   remediation |-> remediation, urls |-> urls, application |-> ~ process, hostname |-> process,
   pid |-> process]
SomeExportPolicies ==
  {Export("preserve", "file_name", "omit", "metadata", "sanitize", FALSE),
   Export("redact", "relative", "redact", "metadata", "omit", FALSE),
   Export("preserve", "relative", "redact_sensitive", "metadata", "full", TRUE),
   Export("redact", "omit", "full", "omit", "sanitize", TRUE),
   Export("redact", "full_path", "redact_sensitive", "metadata", "sanitize", FALSE)}

Telemetry(message, help, told, causes, marks, locations, attributes, process, mark) ==
  [message |-> message, help |-> help, notes |-> told, causes |-> causes, labels |-> marks,
   locations |-> locations, attributes |-> attributes, application |-> ~ process,
   hostname |-> process, pid |-> process, mark |-> mark]
SomeTelemetryPolicies ==
  {Telemetry("redact", "omit", "omit", "omit", "omit", "omit", "omit", FALSE, TRUE),
   Telemetry("plain", "redact", "plain", "omit", "plain", "omit", "redact", TRUE, TRUE),
   Telemetry("omit", "plain", "redact", "redact", "redact", "file_name", "full", FALSE, FALSE),
   Telemetry("redact", "omit", "omit", "plain", "plain", "full_path", "omit", TRUE, TRUE)}

Known(code, message, place, label, explicit) ==
  [code |-> code, message |-> message, source |-> place, label |-> label, explicit |-> explicit]
SomeFingerprintPolicies ==
  {Known(TRUE, TRUE, "file_name", TRUE, TRUE), Known(FALSE, TRUE, "full", TRUE, FALSE),
   Known(TRUE, FALSE, "omit", TRUE, FALSE)}

SomeBindings == {[file \in {In, Relative} |-> 1]}
=============================================================================
