SPECIFICATION MCSpec
CONSTANTS
  Starts = {"a"}
  Joins = {"j"}
  Pairs = {"a", "j"}
  Displays = {}
  SameSite = FALSE
  Faults = {"send"}
  Resets = TRUE
  Other = "none"
  Nobody = "none"
  MaxDeliveries = 2
  Asks = 1
  Gates = {"overlay", "route", "error"}
  Edges = 0
  MaxDocs = 2
  MaxGens = 8
  Races = 0
  Steps = {}
  PageFaults = {"restart", "nonce", "stamp"}
INVARIANT NothingOutlivesReset
INVARIANT OverlayIsCurrent
INVARIANT PageIsKnown
PROPERTY TurnsEnd
PROPERTY PageIsServed
CHECK_DEADLOCK FALSE
