CONSTANTS
  t1 = t1
  t2 = t2
  x1 = x1
  x2 = x2
  x3 = x3
  Torn = Torn
  Poison = Poison
  None = None
  Threads = {x1, x2, x3}
  Capacity = 2
  PushBound = 3
SYMMETRY Symmetry
SPECIFICATION MCSpec
INVARIANTS TypesOK Distances Exclusive BucketsSafe
PROPERTIES Implements OthersImplement
