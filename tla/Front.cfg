\* One address, two requests at a time, two tokens a minute and one for the
\* public endpoint.
CONSTANTS
  Client = {c1}
  Proc = {p1, p2}
  Bucket = {1, 2, 3, 4}
  RPM = 2
  PublicRPM = 1
  Minute = 2
  Idle = 2
  Pause = 1
  None = None
SPECIFICATION FrontSpec
INVARIANTS TypeOK BelowTwiceTheRate FrontTypeOK
PROPERTIES EvictionInvisible BadKeysGet401 StrangersCostNothing
SYMMETRY Symmetric
