SPECIFICATION ESpec
CONSTANTS
  Runs = {r1, r2}
  Clients = {u1, u2}
  Samples = {s1, s2}
  Metrics = {m1}
  Scores = {0, 1}
  MaxConcurrency = 2
  Tolerance = 0
  Threshold = 1
CHECK_DEADLOCK FALSE
INVARIANTS SlotsKept ReportComplete StoreWhole ComparisonMirrors
PROPERTY RunEnds
