SPECIFICATION CloudFairSpec
CONSTANTS
  Subs = {"sub"}
  Users = {"ann", "root"}
  Owner <- MCOwner
  Admins = {"root"}
  Handlers = {"h1", "h2"}
  AdminConfigured = TRUE
  MaxFaults = 2
  MaxScans = 1
  Tabs = {"t1", "t2"}
  MaxAttempts = 2
  Window = 1
  MaxTokens = 3
  MaxSessions = 2
INVARIANTS
  StoresAgree
  PaidHoldsKey
  ScreenMatchesSession
PROPERTIES
  RevocationIsFinal
  CheckoutSettles
CHECK_DEADLOCK FALSE
