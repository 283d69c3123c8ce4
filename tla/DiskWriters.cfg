\* Artifacts: two processes, one with an artifact, one with a capsule.
\* Fixes: a plan and a session of three suggestions over three files.
\* Log: two threads.  Scan: one scan, with others changing what it reads.
CONSTANTS
  Report = {r1, r2}
  Plan = {p1, p2}
  Text = {t1}
  NoPlan = NoPlan
  MaxBuild = 2
  Writers = {artifact, capsule}
  CapsuleWriters = {capsule}
  MaxCalls = 3
  MaxFaults = 2
  planA = planA
  planB = planB
  sugA = sugA
  sugB = sugB
  sugC = sugC
  near = near
  over = over
  fileA = fileA
  fileB = fileB
  fileC = fileC
  bakA = bakA
  bakB = bakB
  bakC = bakC
  FixPlan = {planA, sugA, sugB, sugC}
  Path = {fileA, fileB, fileC, bakA, bakB, bakC}
  Targets <- OnePlanFiles
  Changes <- OnePlanChanges
  BackupOf <- BackupsOf
  Backups <- OnePlanBackups
  Automatic = {planA, sugA, sugB}
  Pre <- OnePlanPre
  Post <- OnePlanPost
  Suggestions <- OneDiagnostic
  Near = near
  Over = over
  MaxFixFaults = 2
  MaxSaves = 2
  MaxApplications = 2
  Threads = {t1, t2}
  LogPolicies <- SomePolicies
  MaxEmits = 4
  MaxSeconds = 4
  SecondsPerHour = 2
  MaxLogFaults = 2
  Scans = {s1}
  Arguments <- SomeArguments
  Contents = {c1, c2}
  Faulty = {c2}
  MaxEdits = 2
  MaxHistory = 3
  MaxFailures = 1
SPECIFICATION DiskSpec
SYMMETRY Symmetry
INVARIANTS
  OkIsKept
  CommittedVerifies
  CapsuleCoherent
  AllOrNothing
  BackupPrecedes
  RetentionHolds
  ScanExitTells
PROPERTY RefinesStore
CHECK_DEADLOCK FALSE
