\* Two processes append to one history; every step may fail, a process may
\* die, power may be lost.
CONSTANTS
  h1 = h1
  h2 = h2
  p1 = p1
  p2 = p2
  r1 = r1
  r2 = r2
  Handle = {h1, h2}
  Process = {p1, p2}
  ProcessOf <- TwoProcesses
  Report = {r1, r2}
  NoReport = NoReport
  NoFile = NoFile
  Torn = Torn
  MaxRuns = 3
  Faults <- EveryFault
  MaxFaults = 2
SPECIFICATION Spec
SYMMETRY Reports
INVARIANTS
  TypeOK
  OneAppender
  NoFork
  HeadCovered
  AckedStay
PROPERTY RefinesRunLog
