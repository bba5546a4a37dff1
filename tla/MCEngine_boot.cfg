SPECIFICATION FairSpec

CONSTANTS
  Targets = {a}
  None = None
  AutoPin = {}
  Twins = {}
  Dead = {}
  Callers = {c1}
  Requests = {"connect", "disconnect", "reload", "close", "auto"}
  Plans <- TunPlan
  HasTProxy = TRUE
  Grounds = {g0, g1}
  NoGateway = g0
  MayFail = {}
  Sticky = {}
  MaxMoves = 1
  MaxCrashes = 1

PROPERTIES
  StopCompletes
  RestoreKeepsTrying
  BootConnects
