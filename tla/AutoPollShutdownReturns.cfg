SPECIFICATION FairSpec
CONSTANTS
  MaxConns = 3
  MaxIds = 4
  MaxStale = 2
  StartFails = FALSE
  GetTimesOut = FALSE
  Worlds <- MCHurry
PROPERTY
  ShutdownReturns
CHECK_DEADLOCK FALSE
