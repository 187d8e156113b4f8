CONSTANTS
  MaxCommands = 1
  Queues = {1}
  InitialQueues = {1}
  QueueSize = 1
  Callers = {k1}
  Pollers = {p1}
  PollerQueue <- SharedQueue
  Kinds = {"asyncloop"}
  Discards = {FALSE}
  MayShutDown = FALSE
SPECIFICATION Spec
INVARIANT ErrorReported
\* The process may die on a freed command or queue.
CHECK_DEADLOCK FALSE
