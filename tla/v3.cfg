CONSTANTS
  WorkerCount <- MCWorkerCount
  Foreign <- MCForeign
  Groups <- MCGroups
  Start <- MCStart
  Count <- MCCount
  Priority <- MCPriority
  Tasks <- MCTasks
  Dest <- MCDest
  Script <- MCScript
  Events <- MCEvents
  DequeCap = 1
  MailCap = 1
  IdleSpins = 1
  None = None
  ta = ta
  tb = tb
  tc = tc
  td = td
  sem = sem
  ext = ext
SPECIFICATION FairSpec
INVARIANTS TypeOK Conserved CountsExact NoLostWakeup NoLostFinish CtxMatchesTask
PROPERTIES WaitComplete AllEnd
