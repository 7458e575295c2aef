SPECIFICATION WatchFairSpec
CONSTANTS
  Hang = 1
  Grace = 2
  HistorySize = 2
  MaxRestarts = 2
  Window = 3
  HoldTime = 4
  MaxReboots = 1
  MaxHold = 5
  Pids = {}
  Threshold = 2
  MaxWire = 1
  Events = {"restart", "hang"}
INVARIANTS
  CapNeedsHealth
PROPERTIES
  BlindSpotClosed
