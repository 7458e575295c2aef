SPECIFICATION MCSpec
CONSTANTS
  c1 = c1
  c2 = c2
  c3 = c3
  c4 = c4
  k1 = k1
  s1 = s1
  Unknown = nobody
  Watched <- First
  Ctl = {c1, c3, c4}
  Keys = {k1}
  Sources = {s1}
  Times = {1, 4}
  Expiries = {}
  WindowSize = 1
  MaxCtr = 2
  MaxUnsure = 2
  MaxTime = 2
  MaxInv = 1
  MaxGen = 1
  Skew = 1
  Lifetime = 1
  Grace = 1
  Retention = 3
  OpenLag = 0
  InvTTL = 1
  PendTTL = 2
  PendMaxLife = 2
  NewInterval = 0
  RefreshInterval = 1
  MaxPending = 2
  MaxPerSource = 1
  MaxActive = 2
  MaxRecords = 2
  WriteOutcomes = {"ok", "unconfirmed"}
  CreateOutcomes = {"ok"}
  RetireOutcomes = {}
  WatchCtr = 1
  WatchIat = 1
SYMMETRY Alike
INVARIANTS
  RequestsInBounds
PROPERTIES
  NothingRevives
  EnvelopeSpentForGood
