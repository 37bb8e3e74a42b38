\* One task, two leases, two recoveries cut short, any number of deaths in service.
SPECIFICATION BootSpec
CONSTANTS
  Tasks = {t1}
  Owners = {o1}
  Owner <- SharedOwner
  Instances = {i1}
  LateTasks = {}
  MaxToken = 2
  MaxEpoch = 1
  MaxAttempts = 2
  MaxActive = 1
  TTL = 1
  MaxFailures = 2
INVARIANTS
  BootTypeOK
  CleanRecoveryKeepsAccounts
PROPERTIES
  BootImplementsAuthority
