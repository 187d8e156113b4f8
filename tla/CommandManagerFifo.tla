------------------------- MODULE CommandManagerFifo -------------------------
(***************************************************************************)
(* CommandManager implements ResultFifo.  RingBuffer hands out its newest  *)
(* element first, AsyncQueue::pop sorts one element at a time into res and *)
(* pred_false while the game loop goes on finishing commands, puts         *)
(* pred_false back, and InstrumentationService::flush_results answers from *)
(* the back of res: to the outside all this is one step of the queue.      *)
(***************************************************************************)
EXTENDS CommandManager

VARIABLE
  looked   \* history: what the pop that holds queue q's lock has looked at

(* AsyncQueue::pop takes the last element as long as it holds the lock; who  *)
(* else changes a queue waits for the lock or destroys the queue.            *)
Looks ==
  looked' = [q \in Queues |->
               IF ~Locked(q)' THEN <<>>
               ELSE IF results'[q] = results[q] THEN looked[q]
               ELSE Append(looked[q], Last(results[q]))]

LookInit == Init /\ looked = [q \in Queues |-> <<>>]
LookNext == Next /\ Looks
LookSpec == LookInit /\ [][LookNext]_<<vars, looked>>

(* The state of ResultFifo that a state of the command manager stands for.   *)
(* A ring is what is left of it and what the pop has looked at; a poll has   *)
(* its results once its pop is over, or cut short by a destruction.          *)
Moving(p) == ppc[p] = "popping" /\ SameNode(p)
Unasked == {c \in Cmds : fate[c] = "unused"}
Due(q) == {c \in Cmds : /\ fate[c] \in {"work", "running"}
                        /\ cmd[c].type = CommandType.USER
                        /\ cmd[c].queue_id = q
                        /\ ~cmd[c].discard}
Ring(q) == results[q] \o Reverse(looked[q])
Taken(p) == IF Moving(p) THEN <<>> ELSE Reverse(res[p])
Waits == {c \in Cmds : pending[c] /\ ~cmd[c].discard}
Announced == {c \in pending_commands : ~cmd[c].discard}

Fifo == INSTANCE ResultFifo WITH
  fresh <- Unasked,
  due <- [q \in Queues |-> Due(q)],
  open <- queues,
  ring <- [q \in Queues |-> Ring(q)],
  held <- [p \in Pollers |-> Taken(p)],
  out <- log,
  waits <- Waits,
  listed <- Announced

(* Polls of a queue, also two at a time, are atomic: each answers, in the    *)
(* order of the queue and never twice, the results that the game loop does   *)
(* not owe anything, and puts back the pending ones (newest first); a result *)
(* that was wanted is lost only by eviction from the full ring, by the       *)
(* destruction of its queue or because its queue is missing.                 *)
ImplementsFifo == Fifo!FifoSpec
=============================================================================
