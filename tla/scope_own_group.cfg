CONSTANTS
  th1 = th1
  th2 = th2
  th3 = th3
  s1 = s1
  s2 = s2
  root = root
  ca = ca
  cb = cb
  cc = cc
  cd = cd
  ce = ce
  watch = watch
  tp = tp
  tn = tn
  tq = tq
  tu = tu
  tr = tr
  te = te
  tm = tm
  k1 = k1
  k2 = k2
  k3 = k3
  k4 = k4
  k5 = k5
  kp = kp
  b1 = b1
  b2 = b2
  b3 = b3
  wt = wt
  f1 = f1
  f2 = f2
  f3 = f3
  f4 = f4
  f5 = f5
  None = None
  over = over
  Pending = Pending
  AllocError = AllocError
  completed = completed
  Parts = {"scope"}
  Workers <- MCPairWorkers
  Member <- MCOwnGroup
  Scopes = {s1, s2}
  Children <- MCPair
  ScopeOf <- MCPairScope
  GroupOf <- MCPairGroup
  Owner <- MCPairOwner
  Throws = {}
  Root = root
  Caller = th1
  Script <- MCPairScript
SPECIFICATION MCFairSpec
PROPERTIES JoinReturns
