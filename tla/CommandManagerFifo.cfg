\* Two polls of one queue, commands that answer by themselves and commands
\* that defer to the game loop; the queue is full after two results.
CONSTANTS
  MaxCommands = 3
  Queues = {1}
  InitialQueues = {1}
  QueueSize = 2
  Callers = {k1}
  Pollers = {p1, p2}
  PollerQueue <- SharedQueue
  Kinds = {"plain", "loop"}
  Discards = {FALSE}
  MayShutDown = FALSE
SYMMETRY PollerSymmetry
SPECIFICATION LookSpec
PROPERTY ImplementsFifo
CHECK_DEADLOCK FALSE
