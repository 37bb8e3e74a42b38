\* One request key, three calls of it in two processes, three leases, one kill.
SPECIFICATION BridgeSpec
CONSTANTS
  Tasks = {t1}
  Owners = {o1}
  Owner <- SharedOwner
  Instances = {api, mcp}
  Api = api
  Mcp = mcp
  Calls = {c1, c2, c3}
  McpCall = c3
  Task <- OneTask
  Home <- TwoServers
  LateTasks = {}
  MaxToken = 3
  MaxEpoch = 1
  MaxAttempts = 1
  MaxActive = 1
  TTL = 1
SYMMETRY ApiCallSymmetry
CHECK_DEADLOCK FALSE
INVARIANTS
  BridgeTypeOK
  OneRecordedDispatch
  AppliedIsNeverRetryable
  SuccessIsDurable
  KeyBeforeTask
PROPERTIES
  ImplementsEffectLedger
