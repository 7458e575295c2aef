SPECIFICATION MCSpec
CONSTANTS
  Threshold = 3
  MaxWire = 2
  MaxGen = 3
  MayStop = TRUE
  RamMonitor = 2
  RamCooldown = 1
  RamReboot = 6
  DiskCooldown = 2
  GpuDelay = 2
  MaxHold = 3
  LongAgo = 99
  Updates = 1
  Levels = {"ram", "disk", "fail"}
  MaxLines = 3
  JournalDies = FALSE
INVARIANTS
  OneVoice
  RebootsEarned
PROPERTIES
  StuckIsSustained
  NewsArrives
  LadderSettles
CHECK_DEADLOCK FALSE
