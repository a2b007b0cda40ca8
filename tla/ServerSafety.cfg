\* Two requests, MCP tools, clients that go away, a Redis that may fail, and
\* an alias that is deleted and taken again while its old entry is cached.
CONSTANTS
  g1 = g1
  g2 = g2
  a1 = a1
  Encode <- MCEncode
  Never = Never
  NoCode = NoCode
  NoTarget = NoTarget
  Proc = {p1, p2}
  Code = {g1}
  Alias = {g1}
  Target = {t1, t2}
  Requests = {"create", "redirect", "delete", "mcp_delete", "mcp_update"}
  Redis = TRUE
  Cancel = TRUE
  Durations = {}
  MaxTTL = 2
  Delay = 1
  BatchSize = 1
  MaxCounter = 0
  MaxId = 2
  MaxClicks = 0
  MaxTime = 4
  MaxServed = 2
  Second = 2
SPECIFICATION Spec
INVARIANTS StaleBounded
SYMMETRY Symmetric
