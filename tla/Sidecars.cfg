\* Two writers, a log of two runs and two faults.
CONSTANTS
  Writers = {w1, w2}
  Report = {r1, r2}
  Receipts = {c1, c2}
  MaxRuns = 2
  Targets = {2}
  MaxFaults = 2
SPECIFICATION Spec
SYMMETRY Symmetry
INVARIANTS
  AnsweredStay
  CapturedHasItsRun
PROPERTY RecordsStay
CHECK_DEADLOCK FALSE
