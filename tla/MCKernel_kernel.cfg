SPECIFICATION KernelSpec

CONSTANTS
  Helpers = TRUE
  MaxSpawns = 4
  Nets = 2
  Tries = 2
  Failures = {"open", "link", "route", "core", "divert"}
  MaxCrashes = 2

  Backends = {"nft", "ipt"}
  Plans <- SomePlans
  Devices = {"lan", "guest", "wan"}
  Deletes = 2
  MaxWipes = 1
  MaxKills = 1
  TornWipes = FALSE

CHECK_DEADLOCK FALSE

INVARIANTS
  NothingOutlivesStop
  NothingStranded
  OneSetOfRules
  OnlyAsPlanned
  CapturesAsPlanned
  RevertLeavesNothing
  KillBlackHolesNobody

PROPERTIES
  StopIsNoCrash
  StopReturns
  CrashIsUndone
  EscapesComeFirst
  TunReturns
