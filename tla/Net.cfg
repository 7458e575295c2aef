SPECIFICATION MCSpec
CONSTANTS
  Conns = {"p"}
  Ctls = {"o", "c"}
  Owner = "o"
  Slots = {1, 2}
  Kinds = {"command", "system"}
  Types = {"mint", "status"}
  Depth = 2
  PerCtl = 2
  MaxSockets = 1
  MaxVersion = 2
  MaxAsks = 2
  MaxGrants = 0
  V2 = FALSE
  Callers = {"beat", "edge", "boot"}
  Readers = {"r1", "r2"}
  Worlds = {"ok", "busy", "odd"}
  MaxWorld = 1
  MaxDials = 2
  MaxTries = 1
  MayStop = TRUE
INVARIANTS OneOfEach BindingsLive
PROPERTIES LineSettles StatusInOrder
CHECK_DEADLOCK FALSE
