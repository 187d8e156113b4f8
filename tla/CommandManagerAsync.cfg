\* Two polls of one queue of size one against the worker and the game loop.
CONSTANTS
  MaxCommands = 3
  Queues = {1}
  InitialQueues = {1}
  QueueSize = 1
  Callers = {k1}
  Pollers = {p1, p2}
  PollerQueue <- SharedQueue
  Kinds = {"asyncloop"}
  Discards = {FALSE}
  MayShutDown = FALSE
SPECIFICATION Spec
INVARIANTS
  TypeOK
  DeliveredOnce
  OneOwner
  DeliveredComplete
  PendingAccurate
  DanglingOnlyIfLost
PROPERTY DeliveredFinal
SYMMETRY PollerSymmetry
\* The process may die on a freed command or queue.
CHECK_DEADLOCK FALSE
