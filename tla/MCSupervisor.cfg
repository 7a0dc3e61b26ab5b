CONSTANTS
  c1 = c1
  c2 = c2
  p1 = p1
  w1 = w1
  w2 = w2
  Ids <- MCIds
  ExecPids <- MCPids
  Workers <- MCWorkers
  MaxTasks = 4
  TaskBuf = 2
  StartBuf = 1

SPECIFICATION MCSpec

INVARIANT TypeOK
PROPERTY ImplementsTaskFuture
