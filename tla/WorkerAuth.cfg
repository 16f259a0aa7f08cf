SPECIFICATION Spec
CONSTANTS
  Replicas = {"p1", "p2"}
  Keys = {"boot", "made"}
  Bootstrap = "boot"
  MaxRows = 2
  MaxStarts = 3
  Server = "p1"
  Attempts = {"a1", "a2"}
  Threshold = 2
  Cooldown = 1
  MaxTime = 2
  MaxConnects = 4
INVARIANTS
  OneRowPerKey
  TriesBounded
PROPERTIES
  RevokedForGood
CHECK_DEADLOCK FALSE
