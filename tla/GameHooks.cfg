SPECIFICATION FairSpec
CONSTANTS
  MaxFrames = 3
  MaxCommands = 3
  RecorderSize = 1
  Worlds <- MCWorlds
INVARIANTS
  TypeOK
  StopsExplained
  RecordComplete
  WorkInOrder
PROPERTIES
  StepSeesEachFrame
  
CHECK_DEADLOCK FALSE
