\* Every call returns, the cleanup job gets to every expired row, and takes
\* none that a reader would still be given.
CONSTANTS
  g1 = g1
  g2 = g2
  a1 = a1
  Code = {g1, a1}
  Encode <- MCEncode
  Never = Never
  NoCode = NoCode
  NoTarget = NoTarget
  Second = 2
  Proc = {p1}
  Alias = {a1}
  Target = {t1, t2}
  Calls = {"create", "get", "delete", "update", "click"}
  Cancel = TRUE
  Durations = {2}
  BatchSize = 1
  MaxCounter = 1
  MaxId = 2
  MaxClicks = 1
  MaxTime = 6
SPECIFICATION FairSpec
PROPERTIES CallsReturn ExpiredGoes RowsKept
