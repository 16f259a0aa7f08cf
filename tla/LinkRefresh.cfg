SPECIFICATION Spec
CONSTANTS
  Requests = {1}
  Streaming = {}
  MaxSessions = 2
  MaxConcurrent = 1
  Cancellable = {}
  MaxShutdowns = 0
  MaxRefreshes = 1
  MaxPings = 1
INVARIANTS
  CleanEndStopsTasks
CHECK_DEADLOCK FALSE
