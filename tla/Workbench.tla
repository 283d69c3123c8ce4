------------------------------ MODULE Workbench -------------------------------
(***************************************************************************)
(* Where diagnostics and their edits come from and go to: a language       *)
(* server and lists of edits (Editor), the suggestions of a build          *)
(* (CargoImport), and a report that is built and exported (Publication).   *)
(* They share no state; one of them moves in a behaviour.                  *)
(***************************************************************************)
EXTENDS Editor, CargoImport

CONSTANTS
  AttributeNames, Blank, Codes, Attributes, Wordings, Labels, Fixes, Policies,
  TelemetryPolicies, FingerprintPolicies, SensitiveNames, Bindings, MaxCalls, MaxReport

VARIABLES
  desk,           \* what moves: the editor, an import or an export
  draft, calls, report

pubVars == <<draft, calls, report>>

Pub == INSTANCE Publication

(* Where the state of what does not move is one of many.                   *)
AtRest ==
  /\ desk # "import" => source = CHOOSE text \in Sources : TRUE
  /\ desk # "import" => importer = CHOOSE settings \in Importers : TRUE
  /\ desk # "export" => draft = CHOOSE blank \in Blank : TRUE
  /\ desk # "editor" => original = CHOOSE text \in Texts : TRUE

WorkbenchInit ==
  /\ desk \in {"editor", "import", "export"}
  /\ EditorInit /\ ImportInit /\ Pub!PubInit
  /\ AtRest

Editing == desk = "editor" /\ UNCHANGED <<desk, importVars, pubVars>> /\ EditorNext

Importing == desk = "import" /\ UNCHANGED <<desk, vars, cache, session, pubVars>> /\ ImportNext

Exporting ==
  desk = "export" /\ UNCHANGED <<desk, vars, cache, session, importVars>> /\ Pub!PubNext

WorkbenchNext == Editing \/ Importing \/ Exporting

WorkbenchSpec ==
  WorkbenchInit /\ [][WorkbenchNext]_<<desk, vars, cache, session, importVars, pubVars>>

-----------------------------------------------------------------------------
(* Properties                                                              *)

(* Exports withhold what their policy withholds, and agree (Publication).  *)
ExportsHold == desk = "export" => Pub!ExportsHold

(* Diagnostics are known by what they mean (Publication).                  *)
IdentityHolds == desk = "export" => Pub!IdentityHolds
=============================================================================
