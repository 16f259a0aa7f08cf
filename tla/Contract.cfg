SPECIFICATION ContractSpec
CONSTANTS
  Providers = {"p", "q"}
  Models = {"a", "b"}
  Registrations <- Regs
  Policy <- Policies
  DrainTicks = 1
  MaxRequeueCount = 1
  MaxWorkers = 2
  MaxRequests = 2
  MaxTime = 1
  MaxChunks = 1
  BeatModels = {"a"}
  BeatSlots = {0, 2}
  StaleAfter = 1
  MaxBeats = 3
  MaxReport = 1
  Clients = {"c"}
  FailThreshold = 3
  FailWindow = 3
  ProviderConfigs <- MCProviders
  ConnectRequests <- MCRequests
  Names = {"a", " a", "b", "c", " "}
  TrimmedName <- Trims
  MaxNames = 2
  MaxAdvertised = 4
  MaxBytes = 4
  ChunkSizes = {0, 1, 2, 3}
  MaxForwarded = 4
CHECK_DEADLOCK FALSE
INVARIANTS
  LimitsKept
  NobodyPassedOver
PROPERTIES
  QueueServedInOrder
  ImplementsLifecycleOnTrust
