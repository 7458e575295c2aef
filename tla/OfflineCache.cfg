SPECIFICATION MCSpec
CONSTANTS
  Sources = {"a", "b"}
  Items = {"a", "b"}
  Software = {"b"}
  Bodies = {}
  Down = {"d1"}
  Clr = {}
  Events = {"heat"}
  Room = 1
  MaxQueue = 2
  MaxClears = 0
INVARIANTS
  ClearedStaysCleared
  CacheAgrees
PROPERTIES
  DeferredLetsPass
CHECK_DEADLOCK FALSE
