CONSTANTS
  w1 = w1
  w2 = w2
  w3 = w3
  j1 = j1
  j2 = j2
  j3 = j3
  Threads = {w1, w2, w3}
  Jobs = {j1, j2, j3}
  NoJob = NoJob
  MaxOutstanding = 2
SPECIFICATION FairSpec
INVARIANTS
  TypeOK
  NoLostWakeup
  ShutdownLosesNoJob
PROPERTIES
  ImplementsWorkQueue
  JobStarted
  ShutdownReturns
