CONSTANTS
  s1 = s1
  s2 = s2
  ann = ann
  bob = bob
  p1 = p1
  p2 = p2
  Sockets = {s1, s2}
  Names = {ann, bob}
  Passwords = {p1, p2}
  NoUser = NoUser
  LongName = LongName
  NoLine = NoLine
  InitialFile <- MCInitialFile
  DiskMayFail = TRUE
  MaxCrashes = 1
SYMMETRY SocketSymmetry
SPECIFICATION Spec
INVARIANTS
  TypeOK
  UniqueNames
  SessionAgreement
  NoInheritedLogin
  AckedDurable
PROPERTY
  ImplementsAccounts
