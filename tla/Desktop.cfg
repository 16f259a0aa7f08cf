SPECIFICATION MCFairSpec
CONSTANTS
  Commands = {"c1", "c2"}
  MaxDaemons = 4
  MaxSaves = 2
  MaxCommands = 4
  Callers = {"a", "b"}
  Ttl = 2
  FetchMax = 1
  LastVersion = 2
  MaxFailures = 2
  Spellings <- MCSpellings
  Spelled <- MCSpelled
  Served <- MCServed
  Inputs <- MCInputs
  MaxLaunches = 2
  MaxAnswers = 2
INVARIANTS
  OffersWhatItHas
  OneDaemonAtATime
  QuietIsConsistent
  BoundedStaleness
PROPERTIES
  CommandsEnd
CHECK_DEADLOCK FALSE
