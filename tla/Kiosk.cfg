SPECIFICATION MCSpec
CONSTANTS
  Hang = 1
  Grace = 2
  HistorySize = 2
  MaxRestarts = 2
  Window = 3
  HoldTime = 4
  MaxReboots = 1
  MaxHold = 5
  Pids = {1}
  Events = {"hang", "exit", "report", "others", "restart", "power", "refusal", "update", "cut", "display", "console"}
INVARIANTS
  HoldShowsScreen
  RebootsCapped
PROPERTIES
  GraceGiven
