\* Two threads of one process append to one history; only the steps fail whose
\* failure append_report compensates for.
CONSTANTS
  h1 = h1
  h2 = h2
  p1 = p1
  p2 = p2
  r1 = r1
  r2 = r2
  Handle = {h1, h2}
  Process = {p1, p2}
  ProcessOf <- OneProcess
  Report = {r1, r2}
  NoReport = NoReport
  NoFile = NoFile
  Torn = Torn
  MaxRuns = 2
  Faults <- Compensated
  MaxFaults = 2
SPECIFICATION FairSpec
INVARIANT RestIsOpenable
PROPERTY HistoryGrows
