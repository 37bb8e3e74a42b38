\* A question asked twice and another one, in one process that takes two at a time.
SPECIFICATION AskSpec
CONSTANTS
  Tasks = {t1, t2, t3}
  Asked = t1
  Repeated = t2
  Elsewhere = t3
  Owners = {o1}
  Owner <- SharedOwner
  Instances = {server}
  Requests = {r1, r2, r3}
  Same = {r1, r2}
  FirstTask <- Questions
  AgainTask <- Repeats
  Home <- OneProcess
  MaxInflight = 2
  LateTasks = {}
  MaxToken = 1
  MaxEpoch = 0
  MaxAttempts = 1
  MaxActive = 1
  TTL = 1
SYMMETRY SameSymmetry
CHECK_DEADLOCK FALSE
INVARIANTS
  AskTypeOK
  AnswerMatchesRecord
  RepeatOnlyAfterDecision
  InFlightBound
