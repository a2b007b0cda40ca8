\* One HTTP request at a time, URLs that expire, fills two ticks late.
CONSTANTS
  g1 = g1
  g2 = g2
  a1 = a1
  Encode <- MCEncode
  Never = Never
  NoCode = NoCode
  NoTarget = NoTarget
  Proc = {p1}
  Code = {g1}
  Alias = {g1}
  Target = {t1, t2}
  Requests = {"create", "get", "redirect", "delete", "update"}
  Redis = FALSE
  Cancel = FALSE
  Durations = {2, 4}
  MaxTTL = 3
  Delay = 2
  BatchSize = 1
  MaxCounter = 1
  MaxId = 2
  MaxClicks = 9
  MaxTime = 5
  MaxServed = 2
  Second = 2
SPECIFICATION Spec
INVARIANTS TypeOK DeletedNotCached ExpiredSoonUncached ClicksBounded
SYMMETRY Symmetric
