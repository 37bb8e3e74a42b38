\* One task, two kernel instances, three leases, one use of the kill switch.
SPECIFICATION Spec
CONSTANTS
  Tasks = {t1}
  Owners = {o1}
  Owner <- SharedOwner
  Instances = {i1, i2}
  LateTasks = {t1}
  MaxToken = 3
  MaxEpoch = 1
  MaxAttempts = 2
  MaxActive = 1
  TTL = 1
SYMMETRY InstanceSymmetry
INVARIANTS
  TypeOK
  OneLiveAttempt
  ProjectionIsReplay
  ExclusiveAuthority
  AccountsMatchLeases
  AttemptChargedOnce
PROPERTIES
  WorkerStepsAreFenced
  TerminalIsFinal
  RetryNeedsReconcile
  ImplementsAuthority
