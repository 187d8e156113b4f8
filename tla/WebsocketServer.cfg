SPECIFICATION FairSpec
CONSTANTS
  Sockets <- MCSockets
  MaxConnections = 1
  ExecutorSize = 1
  MaxOpens <- MCMaxOpens
  MaxRequests <- MCMaxRequests
  Worlds <- MCWorlds
CONSTRAINT FirstSocket
INVARIANTS
  TypeOK
  AnswersOwn
  ResultsOwn
  CyclesExplained
  EntriesSound
PROPERTIES
  RequestAnswered
  DestructionEnds
CHECK_DEADLOCK FALSE
