\* Two processes apply a plan each to one file; nothing fails.
CONSTANTS
  planA = planA
  planB = planB
  near = near
  over = over
  fileA = fileA
  fileB = fileB
  fileC = fileC
  bakA = bakA
  bakB = bakB
  bakC = bakC
  Path = {fileA, fileB, fileC, bakA, bakB, bakC}
  BackupOf <- BackupsOf
  Near = near
  Over = over
  sugA = sugA
  sugB = sugB
  sugC = sugC
  FixPlan = {planA, planB}
  Automatic = {planA, planB}
  Suggestions <- NoDiagnostic
  Targets <- TwoPlansFiles
  Changes <- TwoPlansChanges
  Backups <- TwoPlansBackups
  Pre <- NoChecks
  Post <- NoChecks
  MaxFixFaults = 0
  MaxSaves = 0
  MaxApplications = 1
SPECIFICATION FixSpec
PROPERTY StaleRejected
CHECK_DEADLOCK FALSE
