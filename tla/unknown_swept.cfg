\* A task whose effect is unknown, under fair watchdogs.
SPECIFICATION FairSpec
CONSTANTS
  Tasks = {t1}
  Owners = {o1}
  Owner <- SharedOwner
  Instances = {i1, i2}
  LateTasks = {}
  MaxToken = 2
  MaxEpoch = 1
  MaxAttempts = 2
  MaxActive = 1
  TTL = 2
PROPERTIES
  UnknownIsSwept
