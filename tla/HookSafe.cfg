SPECIFICATION FairSpec
CONSTANTS
  Threads <- MCThreads
  NoSuspend <- MCNoSuspend
  Manual = {FALSE, TRUE}
  Destroys = TRUE
  Removes = TRUE
  Callbacks <- MCCallbacks
  MaxCalls <- MCMaxCalls
  MaxVisits = 2
  Modulus = 3
INVARIANTS
  TypeOK
  RegionIntact
  CallComplete
PROPERTY
  DestructorReturns
  WaitsForCalls
