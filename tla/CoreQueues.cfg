SPECIFICATION Spec
CONSTANTS
  Providers = {"p", "q"}
  Models = {"a", "b"}
  RawNames = {"a", " a ", "b", "*", " "}
  Trim <- MCTrim
  Paths = {"/v1/chat", "/v1/models"}
  Prefixes = {"/v1", "/v1/chat"}
  StartsWith <- MCStartsWith
  Registrations <- QueueRegistrations
  Submissions <- RoutingSubmissions
  Updates <- QueueUpdates
  Loads = {0}
  Cancellable = {1}
  CancelReason = {"ClientDisconnected"}
  Policy <- OneSlotPolicy
  MaxWorkers = 2
  MaxRequests = 2
  MaxShutdowns = 0
  MaxChunks = 0
  Deletable = {}
  Refreshable = {1}
INVARIANTS
  FreshQueueBounded
  CapacityRespected
  SentOnlyToOwner
PROPERTIES
  AssignedOnlyCompatible
  ReportDrainsQueues
CHECK_DEADLOCK FALSE
