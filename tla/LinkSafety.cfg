SPECIFICATION Spec
CONSTANTS
  Requests = {1, 2}
  Streaming = {1}
  MaxSessions = 2
  MaxConcurrent = 2
  Cancellable = {1}
  MaxShutdowns = 1
  MaxRefreshes = 0
  MaxPings = 0
INVARIANTS
  NeverRefused
  TasksAccountedFor
PROPERTIES
  ImplementsSessions
CHECK_DEADLOCK FALSE
