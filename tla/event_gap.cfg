\* Two publishers whose events commit out of the order of their ids.
SPECIFICATION BusSpec
CONSTANTS
  Readers = {r1}
  MaxId = 2
  MaxOpen = 2
  MaxAttempts = 2
  BatchLimit = 2
INVARIANTS
  AtLeastOncePerSubscriber
