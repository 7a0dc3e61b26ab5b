CONSTANTS
  c1 = c1
  a1 = a1
  a2 = a2
  p1 = p1
  w1 = w1
  s1 = s1
  c2 = c2
  NoOne = NoOne
  Ids <- MCIds
  Creators <- MCCreators1
  Procs <- MCProcs
  MaxGen = 2
  MaxEvents = 1
  Waiters <- MCWaiters
  Signallers <- MCNoSignallers
  StartNotifyMayFail = FALSE

SPECIFICATION MCSpec

INVARIANT OOMReported
PROPERTY ExitRemovesOnlyExited
PROPERTY ExitEventuallyReported
PROPERTY WaitersReleased
