\* A warning and two contents of one error.
CONSTANTS
  Contents = {"warning", "error", "error2"}
  Fingerprint <- MixedFingerprint
  Severity <- MixedSeverity
  Copies <- SingleCopies
  MaxRuns = 2
  LongRuns = 2
  LongContents <- NoContents
  LongOrders <- NoOrders
SPECIFICATION Spec
INVARIANT CiIgnoresContent
CHECK_DEADLOCK FALSE
