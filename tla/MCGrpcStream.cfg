CONSTANTS
  MaxAttempts = 2
  MaxMsgs = 2
  MaxSends = 1
  TracingModes = {TRUE}

SPECIFICATION MCSpec

INVARIANT NoLeakOnError
PROPERTY StreamReleased
