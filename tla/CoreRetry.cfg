SPECIFICATION Spec
CONSTANTS
  Providers = {"p", "q"}
  Models = {"a", "b"}
  RawNames = {"a", " a ", "b", "*", " "}
  Trim <- MCTrim
  Paths = {"/v1/chat", "/v1/models"}
  Prefixes = {"/v1", "/v1/chat"}
  StartsWith <- MCStartsWith
  Registrations <- RetryRegistrations
  Submissions <- RetrySubmissions
  Updates = {}
  Loads = {0}
  Cancellable = {1}
  CancelReason = {"ClientDisconnected", "RequestTimedOut"}
  Policy <- OneSlotPolicy
  MaxWorkers = 5
  MaxRequests = 1
  MaxShutdowns = 0
  MaxChunks = 2
  Deletable = {}
  Refreshable = {}
PROPERTIES
  CancelledNeverRetried
CHECK_DEADLOCK FALSE
