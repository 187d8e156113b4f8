\* A calm world, one with single faults, and one with all of them.
SPECIFICATION FairSpec
CONSTANTS
  MaxConns = 4
  MaxIds = 4
  MaxStale = 1
  StartFails = TRUE
  GetTimesOut = TRUE
  Worlds <- MCWorlds
INVARIANTS
  TypeOK
  ResultsAccounted
  OwnResult
  EndsCleanly
PROPERTIES
  PatientShutdownReturns
\* A user in a hurry may wait in shutdown for ever.
CHECK_DEADLOCK FALSE
