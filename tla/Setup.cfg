SPECIFICATION MCSpec
CONSTANTS
  AtBoot = FALSE
  Failing = {"probe", "scan", "activate"}
  Worlds = {"inet", "near", "link"}
  People = {}
  Profile = TRUE
  Window = 2
  Confirms = 2
  ArmTries = 1
  Tolerance = 1
  Streak = 2
  EpisodeWindow = 1
  Cycles = 2
  Deferrals = 1
  Short = 1
  Rungs = 1
  Phase = 2
  Ceiling = 1
  Cap = 3
  MaxRequests = 1
INVARIANT ScreenTruth
PROPERTIES RadioOwed SetupEnds
CHECK_DEADLOCK FALSE
