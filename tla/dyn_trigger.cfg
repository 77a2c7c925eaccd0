CONSTANTS
  m = m
  v = v
  w = w
  k1 = k1
  k2 = k2
  k3 = k3
  b1 = b1
  b2 = b2
  b3 = b3
  None = None
  Threads = {m, v, w}
  Main = m
  Nodes <- MCNodes
  MainNodes = {}
  Tasks = {k1, k2, k3}
  Batches = {b1, b2, b3}
  Scripts <- MCScripts
  Frames = 0
  QueueCap = 2
SPECIFICATION FairSpec
INVARIANTS TriggersSpent
