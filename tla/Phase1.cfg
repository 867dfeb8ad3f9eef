SPECIFICATION Spec
CONSTANTS
  c1 = c1
  c2 = c2
  ann = ann
  bob = bob
  login = login
  pw = pw
  other = other
  Clients = {c1, c2}
  Names = {ann, bob, login}
  Passwords = {pw, other}
  LoginWords = {login, other}
  InitialFile <- MCInitialFile
  NoClient = NoClient
  MaxTexts <- MCMaxTexts
  Texts <- MCTexts
  MaxRestarts = 1
INVARIANTS
  NoInheritedLogin
  RepliesInStep
  MenuFitsSession
PROPERTY
  ImplementsAccounts
CHECK_DEADLOCK FALSE
