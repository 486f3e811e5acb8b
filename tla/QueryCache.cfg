SPECIFICATION CacheSpec
CONSTANTS
  Cases <- MCCases
  Calls = {c1, c2}
INVARIANTS
  OwnWritesShow
PROPERTY AppliedComesToShow
CHECK_DEADLOCK FALSE
