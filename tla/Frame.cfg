SPECIFICATION FrameSpec
CONSTANTS
  MaxRuns <- ResetRuns
  MaxInv = 2
  MaxOthers = 0
  Names = {1}
  Faults = {"save", "unit"}
  Boots = {"b1", "b2"}
  Users = 1
  Rounds = 0
  Tries = 2
  Checks = 2
  Grace = 1
  Verdicts = {"latest", "required", "fail"}
  MaxTurns = 1
INVARIANTS ClaimIsWatched UpdatesEarned WakesAreTold
PROPERTIES NarrationAgrees FrameSettles
CHECK_DEADLOCK FALSE
