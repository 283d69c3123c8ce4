\* Lists of edits, and a session of one document of up to three versions with
\* room for two revisions; and the lines of a build, two of them at a time, with
\* others editing the source twice; and reports of up to two diagnostics.
CONSTANTS
  Width <- SomeWidth
  Texts <- SomeTexts
  News <- SomeNews
  MaxEdits <- SomeMaxEdits
  Newline = "nl"
  Return = "cr"
  Names = {"f"}
  LastRevision = 2
  Document = "f"
  Typed <- TypedTexts
  OnDisk <- DiskText
  Encoding = "utf-16"
  MaxVersion = 3
  Sources <- SourceTexts
  ContextLength = 1
  Lines <- SomeLines
  Importers <- SomeImporters
  Metadata <- SomeMetadata
  MaxLines = 2
  MaxSourceEdits = 2
  AttributeNames <- SomeNames
  Blank <- SomeBlanks
  Codes = {"c1"}
  Attributes <- SomeAttributes
  Wordings = {"x1"}
  Labels <- SomeLabels
  Fixes <- SomeFixes
  Policies <- SomeExportPolicies
  TelemetryPolicies <- SomeTelemetryPolicies
  FingerprintPolicies <- SomeFingerprintPolicies
  SensitiveNames = {"token"}
  Bindings <- SomeBindings
  MaxCalls = 2
  MaxReport = 2
SPECIFICATION WorkbenchSpec
INVARIANTS
  Simultaneous
  EditorAgrees
  CurrentMeansSame
  ActionsFit
  ImportsAreFaithful
  ExportsHold
  IdentityHolds
CHECK_DEADLOCK FALSE
