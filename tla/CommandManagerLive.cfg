\* Every kind of command, built-ins and shutdown, under the fairness of
\* running threads.
CONSTANTS
  MaxCommands = 2
  Queues = {1}
  InitialQueues = {1}
  QueueSize = 1
  Callers = {k1}
  Pollers = {p1}
  PollerQueue <- SharedQueue
  Kinds = {"plain", "loop", "asyncloop", "unknown"}
  Discards = {FALSE, TRUE}
  MayShutDown = TRUE
SPECIFICATION FairSpec
PROPERTIES
  CallersReturn
  ResultAnswered
\* The process may die on a freed command or queue.
CHECK_DEADLOCK FALSE
