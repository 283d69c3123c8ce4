\* One scan that binds Git provenance, of a project someone works on.
CONSTANTS
  Scans = {s1}
  Arguments <- Captured
  Contents = {c1, c2}
  Faulty = {c2}
  MaxEdits = 1
  MaxHistory = 2
  MaxFailures = 0
SPECIFICATION ScanSpec
INVARIANT CapturedWasScanned
CHECK_DEADLOCK FALSE
