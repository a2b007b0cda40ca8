\* An alias that a later generated code runs into.
CONSTANTS
  g1 = g1
  g2 = g2
  a1 = a1
  Code = {g1, g2, a1}
  Encode <- MCEncode
  Never = Never
  NoCode = NoCode
  NoTarget = NoTarget
  Second = 2
  Proc = {p1, p2}
  Alias = {g1, a1}
  Target = {t1, t2}
  Calls = {"create", "delete"}
  Cancel = FALSE
  Durations = {}
  BatchSize = 1
  MaxCounter = 2
  MaxId = 2
  MaxClicks = 0
  MaxTime = 0
SPECIFICATION Spec
INVARIANT GeneratedNeverConflicts
SYMMETRY Symmetric
