SPECIFICATION FairSpec
CONSTANTS
  Requests = {1}
  Streaming = {}
  MaxSessions = 2
  MaxConcurrent = 1
  Cancellable = {1}
  MaxShutdowns = 1
  MaxRefreshes = 0
  MaxPings = 0
PROPERTIES
  InFlightSettles
  DeadLinkNoticed
CHECK_DEADLOCK FALSE
