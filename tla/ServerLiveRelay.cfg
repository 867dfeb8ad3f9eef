CONSTANTS
  f1 = f1
  f2 = f2
  f3 = f3
  c1 = c1
  c2 = c2
  c3 = c3
  w1 = w1
  w2 = w2
  ann = ann
  bob = bob
  pw = pw
  Sockets = {f1, f2}
  Names = {ann, bob}
  Passwords = {pw}
  NoUser = NoUser
  InitialFile <- MCInitialFile
  Conns = {c1, c2}
  Workers = {w1, w2}
  MaxClients = 2
  None = None
  Null = Null
SPECIFICATION LiveSpec
CHECK_DEADLOCK FALSE
PROPERTIES
  EveryAdmissionServed
  SlotReleased
