SPECIFICATION PartsSpec

CONSTANTS
  None = None
  Absent = Absent

  Writers = {w1, w2}
  Messages = {"f", "g"}
  CoreLines <- TheLines
  RingSize = 2
  JournalSize = 2
  EveryNth = 2
  BurstSize = 2
  BurstWindow = 1
  TableLimit = 1
  RetryAfter = 1
  MaxLines = 4
  MaxTime = 2

  Refused = Refused
  s1 = s1
  c1 = c1
  c2 = c2
  Sites = {s1}
  Clients = {c1, c2}
  Orders <- TheOrders

  Callers = {u1, u2}
  Versions <- TheVersions
  Unparseable = Unparseable
  Running <- TheRunning
  Bundles = {"b1", "b2"}
  Nothing = Nothing
  MaxAsks = 3
  MaxEvents = 2

  HistorySize = 3
  Plans <- ThePlans
  MaxQuestions = 3

  Ports = {p}
  Ways = {"snippet", "uci"}
  MayFail = {"write", "record", "add", "set", "commit", "restartSnippet",
             "restartUci", "probe", "restore"}
  MaxCrashes = 2

SYMMETRY PartsSymmetry

CHECK_DEADLOCK FALSE

INVARIANTS
  ReadersSeeTheTail
  BurstsAreNews
  CoreFits
  RoutesAsRuled
  OnlyTheVouchedFor
  ProgressIsTheInstalls
  EditIsRecorded
  FilesAreRestored
  RevertRestores
  ApplySteers
  LateSamplesAreFew

PROPERTIES
  MirrorRecovers
