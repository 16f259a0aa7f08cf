SPECIFICATION FairSpec
CONSTANTS
  Providers = {"p", "q"}
  Models = {"a", "b"}
  RawNames = {"a", " a ", "b", "*", " "}
  Trim <- MCTrim
  Paths = {"/v1/chat", "/v1/models"}
  Prefixes = {"/v1", "/v1/chat"}
  StartsWith <- MCStartsWith
  Registrations <- DrainRegistrations
  Submissions <- DrainSubmissions
  Updates = {}
  Loads = {}
  Cancellable = {1}
  CancelReason = {"ClientDisconnected"}
  Policy <- TwoSlotPolicy
  MaxWorkers = 2
  MaxRequests = 2
  MaxShutdowns = 1
  MaxChunks = 0
  Deletable = {"p"}
  Refreshable = {}
INVARIANTS
  OnePlace
  PagesAgree
  SenderWhileActive
PROPERTIES
  ImplementsLifecycle
  ImplementsSessions
  TimedQueueResolves
  DrainEnds
CHECK_DEADLOCK FALSE
