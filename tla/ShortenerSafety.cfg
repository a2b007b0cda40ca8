\* Concurrent calls with expiries; g1 is a generated code and a legal alias.
CONSTANTS
  g1 = g1
  g2 = g2
  a1 = a1
  Code = {g1, g2}
  Encode <- MCEncode
  Never = Never
  NoCode = NoCode
  NoTarget = NoTarget
  Second = 2
  Proc = {p1, p2}
  Alias = {g1}
  Target = {t1, t2}
  Calls = {"create", "delete"}
  Cancel = TRUE
  Durations = {2}
  BatchSize = 1
  MaxCounter = 2
  MaxId = 2
  MaxClicks = 0
  MaxTime = 4
SPECIFICATION Spec
INVARIANTS TypeOK UniqueKeys GeneratedOnce
PROPERTIES ImplementsRegistry
SYMMETRY Symmetric
