CONSTANTS
  Versions = {"v2"}
  Early = FALSE
  WorkerCount = 3
  Slots <- MCOneSlot
  Tasks = {ta, tb}
  Dest <- MCBlockDest
  Script <- MCBlockScript
  Foreign = {}
  Groups <- MCGroups
  Events = {sem, fin}
  DequeCap = 1
  MailCap = 1
  HelpRetries = 0
  TokenBound = 3
  None = None
  ta = ta
  tb = tb
  tc = tc
  td = td
  sem = sem
  mid = mid
  fin = fin
SPECIFICATION MCSpec
INVARIANTS NoLostWakeup
