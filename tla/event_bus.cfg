\* Two readers of a channel whose events commit one after the other.
SPECIFICATION BusSpec
CONSTANTS
  Readers = {r1, r2}
  MaxId = 2
  MaxOpen = 1
  MaxAttempts = 2
  BatchLimit = 2
INVARIANTS
  BusTypeOK
  AtLeastOncePerSubscriber
  DeliveredWasHandled
  DeadAfterMaxFailures
PROPERTIES
  PoisonNeverBlocks
