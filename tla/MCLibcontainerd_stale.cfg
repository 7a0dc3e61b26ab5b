CONSTANTS
  c1 = c1
  a1 = a1
  a2 = a2
  p1 = p1
  w1 = w1
  s1 = s1
  c2 = c2
  NoOne = NoOne
  Ids <- MCIds
  Creators <- MCCreators
  Procs <- MCProcs
  MaxGen = 2
  MaxEvents = 1
  Waiters <- MCNoWaiters
  Signallers <- MCNoSignallers
  StartNotifyMayFail = TRUE

SPECIFICATION MCSpec
PROPERTY ExitRemovesOnlyExited
