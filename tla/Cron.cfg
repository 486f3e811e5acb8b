SPECIFICATION CronSpec
CONSTANTS
  Jobs = {j1, j2}
  Runs = {d1, d2, d3}
CHECK_DEADLOCK FALSE
INVARIANT SlotsCounted
INVARIANT NothingRunsAfterDrain
PROPERTY ShutdownReturns
