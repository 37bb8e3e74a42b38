\* One task, two leases, one use of the kill switch, fair watchdogs.
SPECIFICATION FairSpec
CONSTANTS
  Tasks = {t1}
  Owners = {o1}
  Owner <- SharedOwner
  Instances = {i1, i2}
  LateTasks = {}
  MaxToken = 2
  MaxEpoch = 1
  MaxAttempts = 2
  MaxActive = 1
  TTL = 2
PROPERTIES
  OrphansAreSwept
  AbandonedLeaseEnds
  StaleEpochDrains
