CONSTANTS
  Versions = {"v1"}
  Early = TRUE
  WorkerCount = 2
  Slots <- MCSlots
  Tasks = {ta, tb, tc, td}
  Dest <- MCDest
  Script <- MCScript
  Foreign = {}
  Groups <- MCGroups
  Events = {sem, fin}
  DequeCap = 1
  MailCap = 1
  HelpRetries = 0
  TokenBound = 3
  None = None
  ta = ta
  tb = tb
  tc = tc
  td = td
  sem = sem
  mid = mid
  fin = fin
SPECIFICATION MCSpec
PROPERTIES OneWaitComplete
