\* Two tasks of one owner with room for one lease, deadlines that may pass.
SPECIFICATION Spec
CONSTANTS
  Tasks = {t1, t2}
  Owners = {o1}
  Owner <- SharedOwner
  Instances = {i1}
  LateTasks = {t1}
  MaxToken = 1
  MaxEpoch = 0
  MaxAttempts = 2
  MaxActive = 1
  TTL = 1
INVARIANTS
  AccountsMatchLeases
PROPERTIES
  OwnerCapKept
