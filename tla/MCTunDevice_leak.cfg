SPECIFICATION TunSpec

CONSTANTS
  Helpers = FALSE
  MaxSpawns = 3
  Nets = 2
  Tries = 2
  Failures = {}
  MaxCrashes = 0

INVARIANTS
  TunnelCarries

CHECK_DEADLOCK FALSE
