CONSTANTS
  m = m
  v = v
  w = w
  f1 = f1
  f2 = f2
  f3 = f3
  wt = wt
  None = None
  Sentinel = Sentinel
  Threads = {m, v, w}
  Main = m
  Waiter = wt
  Coroutines = {f1, f2, f3}
  Awaits <- MCAwaits
  Signals = {}
  Scripts <- MCScripts
SPECIFICATION FairSpec
INVARIANTS FramesKept
