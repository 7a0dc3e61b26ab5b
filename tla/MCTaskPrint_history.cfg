CONSTANTS
  s1 = s1  s2 = s2  n1 = n1  n2 = n2
  Services <- MCServices
  Slots <- MCSlots
  Times <- MCTimes
  Nodes <- MCNodes
  BadNodes <- MCBadNodes
  MaxTasks = 3
SPECIFICATION Spec
INVARIANT HistoryGrouped
