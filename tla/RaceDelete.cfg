\* A redirect that has read the row, and a delete.
CONSTANTS
  g1 = g1
  g2 = g2
  a1 = a1
  Encode <- MCEncode
  Never = Never
  NoCode = NoCode
  NoTarget = NoTarget
  Proc = {p1, p2}
  Code = {g1}
  Alias = {g1}
  Target = {t1}
  Requests = {"create", "redirect", "delete"}
  Redis = FALSE
  Cancel = FALSE
  Durations = {2}
  MaxTTL = 2
  Delay = 0
  BatchSize = 1
  MaxCounter = 1
  MaxId = 1
  MaxClicks = 9
  MaxTime = 4
  MaxServed = 1
  Second = 2
SPECIFICATION Spec
INVARIANT DeletedNotCached
SYMMETRY Symmetric
