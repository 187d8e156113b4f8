SPECIFICATION Spec
CONSTANTS
  MaxFrames <- MCEventFrames
  Parts = {"events"}
  Intervals = {1, 2}
  Width = 3
  Height = 2
  Valid <- MCValid
  CellValues = {0, 1}
  Chunk = 3
  Addresses = {1, 2}
  Bodies <- MCBodies
  Standing <- MCStanding
  MaxObjects = 2
  Increment = 2
  RingSize = 2
  BufferSize = 2
  HouseLists <- MCSecond
  AddressLists <- MCLists
  EventData = {1, 2}
  TypeClasses = {1}
  Foreign <- MCForeign
  FrameSendRate = 2
  MaxAhead = 1
  Delays = {0, 3}
  QueryLimit = 1
  MaxAdds <- MCEventAdds
INVARIANT FilterFinds
CHECK_DEADLOCK FALSE
