\* A recovery that is cut short, and the one that follows it.
SPECIFICATION BootSpec
CONSTANTS
  Tasks = {t1}
  Owners = {o1}
  Owner <- SharedOwner
  Instances = {i1}
  LateTasks = {}
  MaxToken = 1
  MaxEpoch = 0
  MaxAttempts = 2
  MaxActive = 1
  TTL = 1
  MaxFailures = 2
PROPERTIES
  AccountsClearedByBoot
