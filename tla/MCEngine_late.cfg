SPECIFICATION Spec

CONSTANTS
  Targets = {a}
  None = None
  AutoPin = {}
  Twins = {}
  Dead = {}
  Callers = {c1}
  Requests = {"connect", "close"}
  Plans <- OnePlan
  HasTProxy = TRUE
  Grounds = {g0, g1}
  NoGateway = g0
  MayFail = {}
  Sticky = {}
  MaxMoves = 0
  MaxCrashes = 0

PROPERTIES
  StopLeavesNothing
