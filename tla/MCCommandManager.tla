-------------------------- MODULE MCCommandManager --------------------------
(* Instances of CommandManager for TLC: which queue each poller flushes.    *)
EXTENDS CommandManager, TLC

\* Every poller flushes queue 1: the connection's own blocking commands and
\* the second connection of an AutoPollClient.
SharedQueue == [p \in Pollers |-> 1]

\* Pollers of one queue are interchangeable.
PollerSymmetry == Permutations(Pollers)
=============================================================================
