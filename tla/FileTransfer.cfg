SPECIFICATION FairSpec
CONSTANTS
  s1 = s1
  s2 = s2
  Senders <- MCSenders
  Scenarios <- MCScenarios
  Claims <- MCClaims
  MaxPieces = 2
  MaxSecond = 2
  MaxLost = 1
INVARIANTS
  TypeOK
  SavedAsSaid
  KeptIsSource
  SoleRelayKept
PROPERTIES
  FileModeEnds
  EveryTransferAnswered
CHECK_DEADLOCK FALSE
