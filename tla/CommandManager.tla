--------------------------- MODULE CommandManager ---------------------------
(***************************************************************************)
(* ra2yrcpp::command::CommandManager together with the threads that meet   *)
(* in it: the worker thread, the callers of its built-in commands, the     *)
(* threads that flush results, and the game loop, which finishes the       *)
(* commands that CBGameCommand defers to it.                               *)
(*                                                                         *)
(* A command object is an element of Cmds, numbered by command_counter_.   *)
(* What a handler computes is abstracted to where the protobuf in          *)
(* Command::command_data_ comes from (the request, the handler's result,   *)
(* or cleared) and to whether the handler threw.  Every point at which     *)
(* another thread can observe or change a command is a step of its own.    *)
(***************************************************************************)
EXTENDS Integers, Sequences, SequencesExt

CONSTANTS
  MaxCommands,     \* bound on command_counter_
  Queues,          \* ids of result queues (socket ids)
  InitialQueues,   \* queues created before the first command that is numbered
  QueueSize,       \* queue_size argument of CREATE_QUEUE
  Callers,         \* threads that execute built-in commands synchronously
  Pollers,         \* threads that call flush_results
  PollerQueue,     \* the queue id each poller flushes
  Kinds,           \* kinds of USER commands submitted
  Discards,        \* values of discard_result the submitters use
  MayShutDown      \* whether the owner may call shutdown()

(* Handlers that answer by themselves, that defer to the game loop through  *)
(* get_cmd or through get_async_cmd; and names with no handler.             *)
HandlerKinds == {"plain", "loop", "asyncloop"}
Unknown == "unknown"

ASSUME ConstantsAssumption ==
  /\ MaxCommands \in Nat
  /\ InitialQueues \subseteq Queues
  /\ QueueSize \in Nat \ {0}
  /\ PollerQueue \in [Pollers -> Queues]
  /\ Kinds \subseteq HandlerKinds \cup {Unknown}
  /\ Discards \subseteq BOOLEAN
  /\ MayShutDown \in BOOLEAN

Cmds == 1..MaxCommands
NoCmd == 0

VARIABLES
  command_counter,  \* command_counter_
  cmd,              \* BaseData and handler kind of every command made
  result_code,      \* Command::result_code_
  pending,          \* Command::pending_
  data,             \* what Command::command_data_.M holds
  work_queue,       \* work_queue_: a priority queue, hence a set
  wpc, wcmd,        \* the worker thread: position and current command
  wexc,             \* the worker is unwinding an exception of the handler
  queues,           \* ids in the map results_queue_
  gen,              \* how often a queue id was destroyed: identity of map nodes
  results,          \* content of the result queues, oldest first
  pending_commands, \* pending_commands_
  game_work,        \* CBGameCommand::work
  gpc,              \* the game loop: inside a work item or not
  waiting,          \* built-in command each caller waits for
  shut,             \* the thread in CommandManager::shutdown
  ppc, pgen,        \* position of a poller, the map node it refers to
  res, kept,        \* res and pred_false of AsyncQueue::pop
  crashed,          \* undefined behaviour ended the process
  threw,            \* history: commands whose handler or game loop part threw
  fate,             \* history: where each command is, or how it ended
  log               \* history: commands each queue's polls answered, in order

cmdVars == <<command_counter, cmd, result_code, pending, data>>
workerVars == <<work_queue, wpc, wcmd, wexc>>
queueVars == <<queues, gen, results, pending_commands>>
gameVars == <<game_work, gpc>>
pollVars == <<ppc, pgen, res, kept>>
callVars == <<waiting, shut>>
histVars == <<threw, fate, log>>
vars == <<cmdVars, workerVars, queueVars, gameVars, pollVars, callVars,
          crashed, histVars>>

-----------------------------------------------------------------------------
(* CommandType in the order of the enum; QueueCompare puts the smallest on  *)
(* top of the work queue.                                                   *)
CommandType == [DESTROY_QUEUE |-> 1, CREATE_QUEUE |-> 2, SHUTDOWN |-> 3, USER |-> 4]
ResultCode == {"NONE", "OK", "ERROR"}
Lost == {"evicted", "destroyed", "noqueue", "discarded"}
Fates == {"unused", "work", "running", "queued", "popping", "delivered", "done"}
           \cup Lost
Blank == [type |-> 4, queue_id |-> 0, kind |-> "plain", discard |-> FALSE]

(* The last shared_ptr to a USER command is gone: it is in no queue, no      *)
(* poller has popped it and the worker is done with it.                     *)
Freed(c) == /\ c \notin work_queue
            /\ c # wcmd
            /\ \A q \in Queues : c \notin ToSet(results[q])
            /\ \A p \in Pollers : c \notin ToSet(res[p]) /\ c \notin ToSet(kept[p])

(* results_queue_.find(id): the map node a poller found is still there. *)
SameNode(p) == /\ PollerQueue[p] \in queues
               /\ pgen[p] = gen[PollerQueue[p]]

(* AsyncData::m of queue q is held while AsyncQueue::pop empties the queue. *)
Locked(q) == \E p \in Pollers : /\ PollerQueue[p] = q
                                /\ ppc[p] = "popping"
                                /\ SameNode(p)

(* RingBuffer::emplace: the first element makes room for the new last one. *)
RingEvicts(s) == Len(s) >= QueueSize
RingEmplace(s, c) == Append(IF RingEvicts(s) THEN Tail(s) ELSE s, c)

(* QueueCompare says left >= right, which is no strict weak order: among    *)
(* commands of one type std::priority_queue may return any.                 *)
IsTop(c) == /\ c \in work_queue
            /\ \A d \in work_queue : cmd[c].type <= cmd[d].type


Init ==
  /\ command_counter = 0
  /\ cmd = [c \in Cmds |-> Blank]
  /\ result_code = [c \in Cmds |-> "NONE"]
  /\ pending = [c \in Cmds |-> FALSE]
  /\ data = [c \in Cmds |-> "args"]
  /\ threw = {}
  /\ work_queue = {}
  /\ wpc = "wait"
  /\ wcmd = NoCmd
  /\ wexc = FALSE
  /\ queues = InitialQueues
  /\ gen = [q \in Queues |-> 0]
  /\ results = [q \in Queues |-> <<>>]
  /\ pending_commands = {}
  /\ game_work = <<>>
  /\ gpc = "idle"
  /\ waiting = [k \in Callers |-> NoCmd]
  /\ shut = "no"
  /\ ppc = [p \in Pollers |-> "idle"]
  /\ pgen = [p \in Pollers |-> 0]
  /\ res = [p \in Pollers |-> <<>>]
  /\ kept = [p \in Pollers |-> <<>>]
  /\ crashed = FALSE
  /\ fate = [c \in Cmds |-> "unused"]
  /\ log = [q \in Queues |-> <<>>]

-----------------------------------------------------------------------------
(* Submitters: make_command and emplace_command, as called by handle_cmd.   *)

\* Mutant: the counter is incremented by make_command and again on enqueuing.
CountTwice(c) == command_counter' = c + 1
CountCommand(c) == command_counter' = c

Make(c, record) ==
  /\ command_counter < MaxCommands
  /\ c = command_counter + 1
  /\ CountCommand(c)
  /\ cmd' = [cmd EXCEPT ![c] = record]
  /\ work_queue' = work_queue \cup {c}
  /\ fate' = [fate EXCEPT ![c] = "work"]
  /\ UNCHANGED <<result_code, pending, data, wpc, wcmd, wexc, queueVars, gameVars,
                 pollVars, crashed, threw, log>>

Submit(q, k, d) ==
  /\ Make(command_counter + 1,
          [type |-> CommandType.USER, queue_id |-> q, kind |-> k, discard |-> d])
  /\ UNCHANGED callVars

(* handlers_.at(name) throws after the counter was incremented. *)
SubmitUnknown ==
  /\ Unknown \in Kinds
  /\ command_counter < MaxCommands
  /\ command_counter' = command_counter + 1
  /\ UNCHANGED <<cmd, result_code, pending, data, workerVars, queueVars, gameVars,
                 pollVars, callVars, crashed, histVars>>

(* execute_create_queue and execute_destroy_queue: enqueue, then wait. *)
ExecuteBuiltin(k, t, q) ==
  /\ waiting[k] = NoCmd
  /\ Make(command_counter + 1,
          [type |-> t, queue_id |-> q, kind |-> "plain", discard |-> FALSE])
  /\ waiting' = [waiting EXCEPT ![k] = command_counter + 1]
  /\ UNCHANGED shut

BuiltinReturns(k) ==
  /\ waiting[k] # NoCmd
  /\ result_code[waiting[k]] # "NONE"
  /\ waiting' = [waiting EXCEPT ![k] = NoCmd]
  /\ UNCHANGED <<cmdVars, workerVars, queueVars, gameVars, pollVars, shut, crashed,
                 histVars>>

(* shutdown: enqueue SHUTDOWN, then join the worker. *)
Shutdown ==
  /\ MayShutDown
  /\ shut = "no"
  /\ Make(command_counter + 1, [type |-> CommandType.SHUTDOWN, queue_id |-> 0,
                                kind |-> "plain", discard |-> FALSE])
  /\ shut' = "joining"
  /\ UNCHANGED waiting

ShutdownJoins ==
  /\ shut = "joining"
  /\ wpc = "exited"
  /\ shut' = "joined"
  /\ UNCHANGED <<cmdVars, workerVars, queueVars, gameVars, pollVars, waiting, crashed,
                 histVars>>

-----------------------------------------------------------------------------
(* The worker thread. Built-ins run while work_queue_mut_ is held.          *)

WorkerTakes(c, t) ==
  /\ wpc = "wait"
  /\ IsTop(c)
  /\ cmd[c].type = t
  /\ work_queue' = work_queue \ {c}
  /\ UNCHANGED <<command_counter, cmd, pending, data, wexc, pending_commands,
                 gameVars, pollVars, callVars, crashed, threw, log>>

\* Mutant: nobody is told that the built-in is done.
BuiltinSilent(c) == result_code
BuiltinDone(c) == [result_code EXCEPT ![c] = "OK"]

WorkerCreatesQueue(c) ==
  /\ WorkerTakes(c, CommandType.CREATE_QUEUE)
  /\ queues' = queues \cup {cmd[c].queue_id}
  /\ result_code' = BuiltinDone(c)
  /\ fate' = [fate EXCEPT ![c] = "done"]
  /\ UNCHANGED <<wpc, wcmd, gen, results>>

WorkerDestroysQueue(c) ==
  /\ WorkerTakes(c, CommandType.DESTROY_QUEUE)
  /\ LET q == cmd[c].queue_id IN
       /\ queues' = queues \ {q}
       /\ gen' = IF q \in queues THEN [gen EXCEPT ![q] = @ + 1] ELSE gen
       /\ results' = [results EXCEPT ![q] = <<>>]
       /\ fate' = [d \in Cmds |-> IF d = c THEN "done"
                               ELSE IF d \in ToSet(results[q]) THEN "destroyed"
                               ELSE fate[d]]
  /\ result_code' = BuiltinDone(c)
  /\ UNCHANGED <<wpc, wcmd>>

Inactive == "exited"

WorkerShutsDown(c) ==
  /\ WorkerTakes(c, CommandType.SHUTDOWN)
  /\ wpc' = Inactive
  /\ fate' = [fate EXCEPT ![c] = "done"]
  /\ UNCHANGED <<wcmd, result_code, queues, gen, results>>

(* emplace_user_command starts: result code NONE, then Command::run. *)
WorkerRuns(c) ==
  /\ WorkerTakes(c, CommandType.USER)
  /\ wpc' = "run"
  /\ wcmd' = c
  /\ result_code' = [result_code EXCEPT ![c] = "NONE"]
  /\ fate' = [fate EXCEPT ![c] = "running"]
  /\ UNCHANGED <<queues, gen, results>>

-----------------------------------------------------------------------------
(* The handler that get_cmd wraps around the command function.              *)

HandlerReturns ==
  /\ wpc = "run"
  /\ cmd[wcmd].kind = "plain"
  /\ wpc' = "unwind"
  /\ UNCHANGED <<cmdVars, work_queue, wcmd, wexc, queueVars, gameVars, pollVars,
                 callVars, crashed, histVars>>

(* The function throws: M is cleared and the exception rethrown.  A command *)
(* made by get_async_cmd was marked pending before.                         *)
HandlerThrows ==
  /\ wpc = "run"
  /\ wpc' = "unwind"
  /\ wexc' = TRUE
  /\ threw' = threw \cup {wcmd}
  /\ pending' = [pending EXCEPT ![wcmd] = cmd[wcmd].kind = "asyncloop"]
  /\ data' = [data EXCEPT ![wcmd] = "cleared"]
  /\ UNCHANGED <<command_counter, cmd, result_code, work_queue, wcmd, queueVars,
                 gameVars, pollVars, callVars, crashed, fate, log>>

(* get_gameloop_command: set_async_handler, then put_work. *)
HandlerDefers ==
  /\ wpc = "run"
  /\ cmd[wcmd].kind \in {"loop", "asyncloop"}
  /\ wpc' = "unwind"
  /\ pending' = [pending EXCEPT ![wcmd] = TRUE]
  /\ game_work' = Append(game_work, wcmd)
  /\ UNCHANGED <<command_counter, cmd, result_code, data, work_queue, wcmd, wexc,
                 queueVars, gpc, pollVars, callVars, crashed, histVars>>

(* ~ISCommand: the wrapper's own copy of the message (the arguments, or the *)
(* result of a plain command) is packed unless the command is pending.      *)
SaveCommandResult ==
  /\ wpc = "unwind"
  /\ wpc' = "store"
  /\ data' = IF pending[wcmd] THEN data
             ELSE [data EXCEPT ![wcmd] =
                     IF cmd[wcmd].kind = "plain" /\ ~wexc THEN "result" ELSE "args"]
  /\ UNCHANGED <<command_counter, cmd, result_code, pending, work_queue, wcmd, wexc,
                 queueVars, gameVars, pollVars, callVars, crashed, histVars>>

CodeOfRun == IF wexc THEN "ERROR" ELSE "OK"

(* result_code().store(OK), or set_error in the catch block. *)
StoreResultCode ==
  /\ wpc = "store"
  /\ wpc' = "check"
  /\ result_code' = [result_code EXCEPT ![wcmd] = CodeOfRun]
  /\ wexc' = FALSE
  /\ UNCHANGED <<command_counter, cmd, pending, data, work_queue, wcmd, queueVars,
                 gameVars, pollVars, callVars, crashed, histVars>>

\* Mutant: the id of a pending command is not noted.
NotedNever == pending_commands
NotedPending == IF pending[wcmd] THEN pending_commands \cup {wcmd} ELSE pending_commands

(* The pending check, and the early return for discarded results. *)
CheckPending ==
  /\ wpc = "check"
  /\ pending_commands' = NotedPending
  /\ IF cmd[wcmd].discard
     THEN /\ wpc' = "wait"
          /\ wcmd' = NoCmd
          /\ fate' = [fate EXCEPT ![wcmd] = "discarded"]
     ELSE /\ wpc' = "emplace"
          /\ UNCHANGED <<wcmd, fate>>
  /\ UNCHANGED <<cmdVars, work_queue, wexc, queues, gen, results, gameVars, pollVars,
                 callVars, crashed, threw, log>>

(* results_queue_.at(queue_id)->emplace(cmd). *)
EmplaceResult ==
  LET q == cmd[wcmd].queue_id IN
  /\ wpc = "emplace"
  /\ q \in queues
  /\ ~Locked(q)
  /\ results' = [results EXCEPT ![q] = RingEmplace(@, wcmd)]
  /\ fate' = [c \in Cmds |->
                IF c = wcmd THEN "queued"
                ELSE IF RingEvicts(results[q]) /\ c = Head(results[q]) THEN "evicted"
                ELSE fate[c]]
  /\ wpc' = "wait"
  /\ wcmd' = NoCmd
  /\ UNCHANGED <<cmdVars, work_queue, wexc, queues, gen, pending_commands, gameVars,
                 pollVars, callVars, crashed, threw, log>>

(* std::out_of_range: "queue not found, result discarded". *)
EmplaceNoQueue ==
  /\ wpc = "emplace"
  /\ cmd[wcmd].queue_id \notin queues
  /\ fate' = [fate EXCEPT ![wcmd] = "noqueue"]
  /\ wpc' = "wait"
  /\ wcmd' = NoCmd
  /\ UNCHANGED <<cmdVars, work_queue, wexc, queueVars, gameVars, pollVars, callVars,
                 crashed, threw, log>>

-----------------------------------------------------------------------------
(* The game loop: CBGameCommand::exec takes the work items in order and     *)
(* calls run_async_handler through the raw Command pointer of each.  Taking *)
(* the items one at a time or as one batch makes no difference to others.   *)

GameExecutes(throws) ==
  LET c == Head(game_work) IN
  /\ gpc = "idle"
  /\ game_work # <<>>
  /\ ~Freed(c)
  /\ gpc' = "handler"
  /\ data' = IF ~throws /\ cmd[c].kind = "asyncloop"
             THEN [data EXCEPT ![c] = "result"] ELSE data
  /\ result_code' = IF throws THEN [result_code EXCEPT ![c] = "ERROR"] ELSE result_code
  /\ threw' = IF throws THEN threw \cup {c} ELSE threw
  /\ UNCHANGED <<command_counter, cmd, pending, workerVars, queueVars, game_work,
                 pollVars, callVars, crashed, fate, log>>

\* Mutant: the flag stays set.
StaysPending(c) == pending
ClearedPending(c) == [pending EXCEPT ![c] = FALSE]

(* pending_.store(false), the last access to the command. *)
GameClearsPending ==
  LET c == Head(game_work) IN
  /\ gpc = "handler"
  /\ ~Freed(c)
  /\ pending' = ClearedPending(c)
  /\ game_work' = Tail(game_work)
  /\ gpc' = "idle"
  /\ UNCHANGED <<command_counter, cmd, result_code, data, workerVars, queueVars,
                 pollVars, callVars, crashed, histVars>>

(* The Command object is gone: undefined behaviour.  Either the access      *)
(* leaves no trace in any live command, or it ends the process.             *)
GameUsesFreed(dies) ==
  /\ game_work # <<>>
  /\ Freed(Head(game_work))
  /\ crashed' = dies
  /\ game_work' = Tail(game_work)
  /\ gpc' = "idle"
  /\ UNCHANGED <<cmdVars, workerVars, queueVars, pollVars, callVars, histVars>>

-----------------------------------------------------------------------------
(* flush_results(id, timeout, 0).  An unknown id throws and changes nothing. *)

FlushFinds(p) ==
  /\ ppc[p] = "idle"
  /\ PollerQueue[p] \in queues
  /\ ppc' = [ppc EXCEPT ![p] = "pop"]
  /\ pgen' = [pgen EXCEPT ![p] = gen[PollerQueue[p]]]
  /\ UNCHANGED <<cmdVars, workerVars, queueVars, gameVars, res, kept, callVars, crashed,
                 histVars>>

(* The queue stays empty for the whole timeout, or the timeout is zero. *)
PopTimesOut(p) ==
  /\ ppc[p] = "pop"
  /\ SameNode(p)
  /\ ~Locked(PollerQueue[p])
  /\ results[PollerQueue[p]] = <<>>
  /\ ppc' = [ppc EXCEPT ![p] = "idle"]
  /\ pgen' = [pgen EXCEPT ![p] = 0]
  /\ UNCHANGED <<cmdVars, workerVars, queueVars, gameVars, res, kept, callVars,
                 crashed, histVars>>

PopBegins(p) ==
  /\ ppc[p] = "pop"
  /\ SameNode(p)
  /\ ~Locked(PollerQueue[p])
  /\ results[PollerQueue[p]] # <<>>
  /\ ppc' = [ppc EXCEPT ![p] = "popping"]
  /\ UNCHANGED <<cmdVars, workerVars, queueVars, gameVars, pgen, res, kept, callVars,
                 crashed, histVars>>

\* Mutant: the predicate is not passed to pop.
KeepsNone(c) == FALSE
Keeps(c) == pending[c]

(* One turn of the loop: front() and pop() of RingBuffer work on the last   *)
(* element; the predicate sorts it into res or pred_false.                  *)
PopTakes(p) ==
  LET q == PollerQueue[p]
      n == Len(results[q])
      c == results[q][n]
  IN
  /\ ppc[p] = "popping"
  /\ SameNode(p)
  /\ n > 0
  /\ results' = [results EXCEPT ![q] = Front(@)]
  /\ res' = IF Keeps(c) THEN res ELSE [res EXCEPT ![p] = Append(@, c)]
  /\ kept' = IF Keeps(c) THEN [kept EXCEPT ![p] = Append(@, c)] ELSE kept
  /\ fate' = [fate EXCEPT ![c] = "popping"]
  /\ UNCHANGED <<cmdVars, workerVars, queues, gen, pending_commands, gameVars, ppc, pgen,
                 callVars, crashed, threw, log>>

\* Mutant: everything that was looked at goes back.
PutsAllBack(p) == kept[p] \o res[p]
\* Mutant: only the oldest of what the predicate refused goes back.
PutsOneBack(p) == IF Len(kept[p]) > 1 THEN <<Last(kept[p])>> ELSE kept[p]
PutsBack(p) == kept[p]

(* pred_false goes back into the queue, which the lock kept empty. *)
PopEnds(p) ==
  LET q == PollerQueue[p] IN
  /\ ppc[p] = "popping"
  /\ SameNode(p)
  /\ results[q] = <<>>
  /\ results' = [results EXCEPT ![q] = PutsBack(p)]
  /\ fate' = [c \in Cmds |-> IF c \in ToSet(kept[p]) THEN "queued" ELSE fate[c]]
  /\ kept' = [kept EXCEPT ![p] = <<>>]
  /\ ppc' = [ppc EXCEPT ![p] = "erase"]
  /\ pgen' = [pgen EXCEPT ![p] = 0]
  /\ UNCHANGED <<cmdVars, workerVars, queues, gen, pending_commands, gameVars, res,
                 callVars, crashed, threw, log>>

(* flush_results kept a reference into the map, not the shared_ptr: when    *)
(* the queue was destroyed meanwhile, the pop uses freed memory.  Either    *)
(* the poll ends with what it had already moved out, or the process dies.   *)
PopUsesFreed(p, dies) ==
  /\ ppc[p] \in {"pop", "popping"}
  /\ ~SameNode(p)
  /\ crashed' = dies
  /\ fate' = [c \in Cmds |-> IF c \in ToSet(kept[p]) THEN "destroyed" ELSE fate[c]]
  /\ kept' = [kept EXCEPT ![p] = <<>>]
  /\ ppc' = [ppc EXCEPT ![p] = "erase"]
  /\ pgen' = [pgen EXCEPT ![p] = 0]
  /\ UNCHANGED <<cmdVars, workerVars, queueVars, gameVars, res, callVars, threw, log>>

ErasesPopped(p) == {c \in pending_commands : c \notin ToSet(res[p])}

\* Mutant: the answer lists the vector from its front.
AnswerFromFront(p) == res[p]
Answer(p) == Reverse(res[p])

(* The ids of the popped commands leave pending_commands_; then             *)
(* InstrumentationService::flush_results answers them from the back of res. *)
FlushReturns(p) ==
  LET q == PollerQueue[p] IN
  /\ ppc[p] = "erase"
  /\ pending_commands' = ErasesPopped(p)
  /\ log' = [log EXCEPT ![q] = @ \o Answer(p)]
  /\ fate' = [c \in Cmds |-> IF c \in ToSet(res[p]) THEN "delivered" ELSE fate[c]]
  /\ res' = [res EXCEPT ![p] = <<>>]
  /\ ppc' = [ppc EXCEPT ![p] = "idle"]
  /\ UNCHANGED <<cmdVars, workerVars, queues, gen, results, gameVars, pgen, kept, callVars,
                 crashed, threw>>

-----------------------------------------------------------------------------
Submitter == \/ \E q \in Queues, k \in Kinds \ {Unknown}, d \in Discards : Submit(q, k, d)
             \/ SubmitUnknown

Caller(k) ==
  \/ \E q \in Queues, t \in {CommandType.CREATE_QUEUE, CommandType.DESTROY_QUEUE} :
       ExecuteBuiltin(k, t, q)
  \/ BuiltinReturns(k)

Owner == Shutdown \/ ShutdownJoins

Worker ==
  \/ \E c \in Cmds : \/ WorkerCreatesQueue(c)
                     \/ WorkerDestroysQueue(c)
                     \/ WorkerShutsDown(c)
                     \/ WorkerRuns(c)
  \/ HandlerReturns
  \/ HandlerThrows
  \/ HandlerDefers
  \/ SaveCommandResult
  \/ StoreResultCode
  \/ CheckPending
  \/ EmplaceResult
  \/ EmplaceNoQueue

GameLoop ==
  \/ \E throws \in BOOLEAN : GameExecutes(throws)
  \/ GameClearsPending
  \/ \E dies \in BOOLEAN : GameUsesFreed(dies)

Poller(p) ==
  \/ FlushFinds(p)
  \/ PopTimesOut(p)
  \/ PopBegins(p)
  \/ PopTakes(p)
  \/ PopEnds(p)
  \/ \E dies \in BOOLEAN : PopUsesFreed(p, dies)
  \/ FlushReturns(p)

Next ==
  /\ ~crashed
  /\ \/ Submitter
     \/ \E k \in Callers : Caller(k)
     \/ Owner
     \/ Worker
     \/ GameLoop
     \/ \E p \in Pollers : Poller(p)

Spec == Init /\ [][Next]_vars

(* Threads that are not blocked run; polls are repeated; handlers return.   *)
(* A client's polls are a network round trip apart, so they cannot keep the *)
(* worker from the mutex of a queue forever.                                *)
Fairness ==
  /\ WF_vars(~crashed /\ Worker)
  /\ SF_vars(~crashed /\ EmplaceResult)
  /\ WF_vars(~crashed /\ GameLoop)
  /\ \A p \in Pollers : WF_vars(~crashed /\ Poller(p))
  /\ \A k \in Callers : WF_vars(~crashed /\ BuiltinReturns(k))
  /\ WF_vars(~crashed /\ ShutdownJoins)

FairSpec == Spec /\ Fairness

-----------------------------------------------------------------------------
(* Properties *)

CommandRecords == [type : 1..4, queue_id : Queues \cup {0}, kind : HandlerKinds,
                   discard : BOOLEAN]
CmdTypes ==
  /\ command_counter \in 0..MaxCommands
  /\ cmd \in [Cmds -> CommandRecords]
  /\ result_code \in [Cmds -> ResultCode]
  /\ pending \in [Cmds -> BOOLEAN]
  /\ data \in [Cmds -> {"args", "result", "cleared"}]
WorkerTypes ==
  /\ work_queue \subseteq Cmds
  /\ wpc \in {"wait", "run", "unwind", "store", "check", "emplace", "exited"}
  /\ wcmd \in Cmds \cup {NoCmd}
  /\ wexc \in BOOLEAN
QueueTypes ==
  /\ queues \subseteq Queues
  /\ gen \in [Queues -> Nat]
  /\ results \in [Queues -> Seq(Cmds)]
  /\ pending_commands \subseteq Cmds
GameTypes ==
  /\ game_work \in Seq(Cmds)
  /\ gpc \in {"idle", "handler"}
  /\ gpc = "handler" => game_work # <<>>
PollTypes ==
  /\ ppc \in [Pollers -> {"idle", "pop", "popping", "erase"}]
  /\ pgen \in [Pollers -> Nat]
  /\ res \in [Pollers -> Seq(Cmds)]
  /\ kept \in [Pollers -> Seq(Cmds)]
CallTypes ==
  /\ waiting \in [Callers -> Cmds \cup {NoCmd}]
  /\ shut \in {"no", "joining", "joined"}
HistTypes ==
  /\ threw \subseteq Cmds
  /\ fate \in [Cmds -> Fates]
  /\ log \in [Queues -> Seq(Cmds)]

(* All variables stay in their types, and the game loop is inside a work     *)
(* item only while there is one.                                             *)
TypeOK ==
  /\ CmdTypes
  /\ WorkerTypes
  /\ QueueTypes
  /\ GameTypes
  /\ PollTypes
  /\ CallTypes
  /\ crashed \in BOOLEAN
  /\ HistTypes

Delivered(c) == \E q \in Queues : c \in ToSet(log[q])

(* The answers given to the polls of all queues name a command at most once, *)
(* and only on the queue it was submitted for, whatever polls, evictions,    *)
(* re-insertions of pending entries and queue destructions happen.           *)
DeliveredOnce ==
  /\ \A q1, q2 \in Queues : \A i \in 1..Len(log[q1]), j \in 1..Len(log[q2]) :
       log[q1][i] = log[q2][j] => q1 = q2 /\ i = j
  /\ \A q \in Queues : \A i \in 1..Len(log[q]) : cmd[log[q][i]].queue_id = q

(* A command is in at most one place at a time: the worker, one position of  *)
(* one result queue, or one vector of one poll; and never again once it was  *)
(* answered.                                                                 *)
OneOwner ==
  \A c \in Cmds :
    /\ \A q \in Queues : c \in ToSet(results[q]) =>
         /\ c # wcmd /\ c \notin work_queue /\ ~Delivered(c)
         /\ \A r \in Queues : c \in ToSet(results[r]) => r = q
         /\ \A p \in Pollers : c \notin ToSet(res[p]) /\ c \notin ToSet(kept[p])
    /\ \A p \in Pollers : c \in ToSet(res[p]) \/ c \in ToSet(kept[p]) =>
         /\ c # wcmd /\ c \notin work_queue /\ ~Delivered(c)
         /\ ~(c \in ToSet(res[p]) /\ c \in ToSet(kept[p]))
         /\ \A r \in Pollers : c \in ToSet(res[r]) \/ c \in ToSet(kept[r]) => r = p
    /\ c = wcmd \/ c \in work_queue => ~Delivered(c)

(* An answered command is finished: it has a result code and the game loop   *)
(* neither owes it its deferred part nor holds a pointer to it.              *)
DeliveredComplete ==
  \A c \in Cmds : Delivered(c) =>
    /\ result_code[c] # "NONE"
    /\ ~pending[c]
    /\ c \notin ToSet(game_work)

(* A result does not change any more once a poll has sorted it into the      *)
(* vector it will answer from, although the answer is built after the lock   *)
(* of the queue was released: neither the worker nor the game loop writes to *)
(* it, and an answered command is not popped again.                          *)
DeliveredFinal ==
  [][\A c \in Cmds : Delivered(c) \/ (\E p \in Pollers : c \in ToSet(res[p])) =>
       /\ result_code'[c] = result_code[c]
       /\ data'[c] = data[c]
       /\ pending'[c] = pending[c]
       /\ Delivered(c) => fate'[c] = "delivered"]_vars

(* The id of an answered command does not stay in pending_commands_, also    *)
(* when the flag is cleared right after the worker looked at it.             *)
PendingCleared == \A c \in pending_commands : ~Delivered(c)

(* A result that waits in a queue for the game loop is in pending_commands_. *)
PendingListed ==
  \A c \in Cmds :
    /\ pending[c]
    /\ (\E q \in Queues : c \in ToSet(results[q])) \/ (\E p \in Pollers : c \in ToSet(kept[p]))
    => c \in pending_commands

(* What the pending list says is right: it names every result that waits for *)
(* the game loop and none that was answered.                                 *)
PendingAccurate == PendingListed /\ PendingCleared

(* The game loop's raw pointer dangles only if the command's result was lost *)
(* before: evicted, discarded, or its queue missing or destroyed.  No poll   *)
(* ever frees a command the game loop still has to finish.                   *)
DanglingOnlyIfLost ==
  \A c \in Cmds : c \in ToSet(game_work) /\ Freed(c) => fate[c] \in Lost

(* emplace_user_command: "If the Command throws an exception, it's result    *)
(* code is set to ERROR", for deferred parts too.                            *)
ErrorReported ==
  \A c \in Cmds : Delivered(c) /\ c \in threw => result_code[c] = "ERROR"

(* A caller of execute_create_queue or execute_destroy_queue returns, unless *)
(* the worker has exited.                                                    *)
BuiltinAnswered ==
  \A k \in Callers :
    waiting[k] # NoCmd ~> (waiting[k] = NoCmd \/ wpc = "exited" \/ crashed)

(* shutdown() returns although commands may still be queued. *)
ShutdownReturns == shut = "joining" ~> (shut = "joined" \/ crashed)

(* Every blocking call of the command manager returns. *)
CallersReturn == BuiltinAnswered /\ ShutdownReturns

(* Every queued result is answered or lost, except that of an async command  *)
(* whose handler threw before it deferred anything: it stays pending.        *)
StuckPending(c) == cmd[c].kind = "asyncloop" /\ c \in threw /\ c \notin ToSet(game_work)
                     /\ pending[c]
ResultAnswered ==
  \A c \in Cmds : (fate[c] = "queued" /\ ~StuckPending(c)) ~>
    (fate[c] \in Lost \cup {"delivered"} \/ crashed)

=============================================================================
