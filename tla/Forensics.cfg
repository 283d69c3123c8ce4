\* Two runs, each any report of up to five diagnostics of two fingerprints under
\* every order of their digests; and five runs of one diagnostic with two contents:
\* absent, active, absent, active and absent again all fit.  And graphs of six
\* diagnostics, with cycles and two ways from one to another, walked up to depth 3.
CONSTANTS
  Contents = {"warning", "error", "fatal", "other"}
  Fingerprint <- MixedFingerprint
  Severity <- MixedSeverity
  Copies <- MixedCopies
  MaxRuns = 2
  LongRuns = 5
  LongContents = {"warning", "error"}
  LongOrders <- LongOrder
  Sorted <- Six
  Observed <- TwoRuns
  Candidates <- SomeRelationships
  BadProducer <- Bad
  Queries <- SomeQueries
  Depths = {0, 1, 3}
SPECIFICATION InvestigationSpec
INVARIANTS
  DeltaAgreesWithHistory
  CiStopsGrowth
  DeltaLosesNothing
  LineageBalances
  ViewsAgree
  ReplayAgrees
  GraphAnswers
PROPERTY PastIsFinal
CHECK_DEADLOCK FALSE
