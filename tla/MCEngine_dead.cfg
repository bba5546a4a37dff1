SPECIFICATION Spec

CONSTANTS
  Targets = {a, b}
  None = None
  AutoPin = {a}
  Twins = {}
  Dead = {b}
  Callers = {c1, c2}
  Requests = {"connect", "disconnect", "settings", "delete", "reload"}
  Plans <- TwoPlans
  HasTProxy = FALSE
  Grounds = {g0, g1}
  NoGateway = g0
  MayFail = {}
  Sticky = {"dns"}
  MaxMoves = 0
  MaxCrashes = 0

SYMMETRY CallerSymmetry

PROPERTIES
  SwitchCostsNothing

INVARIANTS
  AllOrNothing
