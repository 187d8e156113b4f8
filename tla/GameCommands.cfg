SPECIFICATION Spec
CONSTANTS
  MaxFrames <- MCFrames
  Parts = {"cells", "objects", "factories", "events"}
  Intervals = {1, 2}
  Width = 3
  Height = 2
  Valid <- MCValid
  CellValues = {0, 1}
  Chunk = 3
  Addresses = {1, 2}
  Bodies <- MCBodies
  Standing <- MCStanding
  MaxObjects = 2
  Increment = 2
  RingSize = 2
  BufferSize = 2
  HouseLists <- MCHouses
  AddressLists <- MCLists
  EventData = {1, 2}
  TypeClasses = {1}
  Foreign <- MCForeign
  FrameSendRate = 2
  MaxAhead = 1
  Delays = {0, 3}
  QueryLimit = 1
  MaxAdds <- MCAdds
INVARIANTS
  MapKnown
  StateMirrored
  EventsKept
  ActsOnSaved
  EventsRight
CHECK_DEADLOCK FALSE
