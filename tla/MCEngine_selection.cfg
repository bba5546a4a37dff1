SPECIFICATION Spec

CONSTANTS
  Targets = {a, b}
  None = None
  AutoPin = {}
  Twins = {a, b}
  Dead = {}
  Callers = {c1}
  Requests = {"connect", "delete", "config", "refresh", "reload", "create"}
  Plans <- OnePlan
  HasTProxy = TRUE
  Grounds = {g0, g1}
  NoGateway = g0
  MayFail = {"reach"}
  Sticky = {}
  MaxMoves = 0
  MaxCrashes = 0

INVARIANTS
  TypeOK
  SelectionIsLive
