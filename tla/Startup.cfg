\* Two runs of the tool, one after the other or at once.
SPECIFICATION FairSpec
CONSTANTS
  GameThreads = 2
  Injectors = {i1, i2}
  PidGiven = {i2}
  Tries = 3
INVARIANT
  AllResumed
PROPERTY
  LoaderReturns
\* Everything ends.
CHECK_DEADLOCK FALSE
