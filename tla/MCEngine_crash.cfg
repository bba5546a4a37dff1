SPECIFICATION Spec

CONSTANTS
  Targets = {a, b}
  None = None
  AutoPin = {a, b}
  Twins = {}
  Dead = {}
  Callers = {c1}
  Requests = {"connect", "close", "reapply", "reset"}
  Plans <- TwoPlans
  HasTProxy = TRUE
  Grounds = {g0, g1}
  NoGateway = g0
  MayFail = {"core", "tun", "reach", "fw", "dns", "save"}
  Sticky = {}
  MaxMoves = 1
  MaxCrashes = 1

INVARIANTS
  SteeredOnlyIntoProvenCore
  NothingUntracked
  PinIsSpent
  StartsAreBounded

PROPERTIES
  ImplementsGate
