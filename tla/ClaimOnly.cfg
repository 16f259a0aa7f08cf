SPECIFICATION Spec
CONSTANTS
  Providers = {"p", "q"}
  Models = {"a", "b"}
  RawNames = {"a", " a ", "b", "*", " "}
  Trim <- MCTrim
  Paths = {"/v1/chat", "/v1/models"}
  Prefixes = {"/v1", "/v1/chat"}
  StartsWith <- MCStartsWith
  Registrations <- QueueRegistrations
  Submissions <- RoutingSubmissions
  Updates = {}
  Loads = {0}
  Cancellable = {}
  CancelReason = {"ClientDisconnected"}
  Policy <- TwoSlotPolicy
  MaxWorkers = 2
  MaxRequests = 2
  MaxShutdowns = 0
  MaxChunks = 0
  Deletable = {}
  Refreshable = {}
INVARIANTS
  OnlyIsRespected
CHECK_DEADLOCK FALSE
