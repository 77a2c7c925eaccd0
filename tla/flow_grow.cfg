CONSTANTS
  m = m
  v = v
  k1 = k1
  k2 = k2
  None = None
  Threads = {m, v}
  Main = m
  Nodes <- MCNodes
  Tasks = {k1, k2}
  Scripts <- MCScripts
  InlineCap = 2
  QueueCap = 2
SPECIFICATION FairSpec
INVARIANTS AllExecuted
