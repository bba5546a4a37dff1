SPECIFICATION Spec

CONSTANTS
  Targets = {a, b}
  None = None
  AutoPin = {}
  Twins = {}
  Dead = {}
  Callers = {c1, c2}
  Requests = {"connect", "upstream", "env", "reapply"}
  Plans <- TunPlan
  HasTProxy = TRUE
  Grounds = {g0, g1, g2}
  NoGateway = g0
  MayFail = {"reach", "read"}
  Sticky = {}
  MaxMoves = 3
  MaxCrashes = 0

SYMMETRY CallerSymmetry

INVARIANTS
  MovesAreNoticed
