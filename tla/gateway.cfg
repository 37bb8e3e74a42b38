\* Two calls race over two providers.
SPECIFICATION GatewaySpec
CONSTANTS
  Calls = {c1, c2}
  OpenRouter = openrouter
  EnvCompat = envcompat
  Chain <- TwoProviders
  Keys <- RouterHasTwo
  Models <- RouterHasTwo
  Threshold = 2
  HedgeOn = TRUE
CHECK_DEADLOCK FALSE
INVARIANTS
  GatewayTypeOK
  NoAnswerIsLost
  NoAttemptOutlivesCall
  ChargesPerAttempt
PROPERTIES
  EveryCallEnds
