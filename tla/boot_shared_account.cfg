\* Two tasks of one owner, one recovery cut short, any number of deaths in service.
SPECIFICATION BootSpec
CONSTANTS
  Tasks = {t1, t2}
  Owners = {o1}
  Owner <- SharedOwner
  Instances = {i1}
  LateTasks = {}
  MaxToken = 1
  MaxEpoch = 0
  MaxAttempts = 1
  MaxActive = 1
  TTL = 1
  MaxFailures = 1
SYMMETRY TaskSymmetry
INVARIANTS
  AccountsNeverUndercount
PROPERTIES
  NothingInFlightAfterBoot
