SPECIFICATION Spec
CONSTANTS
  c1 = c1
  c2 = c2
  Unknown = nobody
  Watched <- MCWatched
  Ctl = {c1, c2}
  Keys = {k1}
  Sources = {}
  Times = {1, 3}
  Expiries = {}
  WindowSize = 1
  MaxCtr = 2
  MaxUnsure = 2
  MaxTime = 2
  MaxInv = 2
  MaxGen = 1
  Skew = 1
  Lifetime = 1
  Grace = 1
  Retention = 3
  OpenLag = 0
  InvTTL = 1
  PendTTL = 1
  PendMaxLife = 2
  NewInterval = 1
  RefreshInterval = 1
  MaxPending = 1
  MaxPerSource = 1
  MaxActive = 2
  MaxRecords = 2
  WriteOutcomes = {"ok", "unconfirmed", "fail"}
  CreateOutcomes = {"ok", "fail"}
  RetireOutcomes = {"ok", "unconfirmed"}
  WatchCtr = 1
  WatchIat = 1
INVARIANTS
  TypeOK
  ExecutedAtMostOnce
  AcknowledgedOwnerSurvives
  MemoryIsDisk
PROPERTIES
  OwnershipChangesHands
