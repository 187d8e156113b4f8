--------------------------- MODULE WebsocketServer ---------------------------
(***************************************************************************)
(* The websocket server inside the game process: the io thread that runs   *)
(* websocketpp's handlers and the functions posted to it, one executor     *)
(* thread with a bounded queue per connection, the command worker as far   *)
(* as they wait for it, and the destructor of InstrumentationService.      *)
(* Requests are numbers, sockets are the numbers that also name result     *)
(* queues.  A request is processed in one step: what flush_results does    *)
(* while it waits is the subject of CommandManager.                        *)
(***************************************************************************)
EXTENDS Integers, Sequences, FiniteSets, SequencesExt, FiniteSetsExt

CONSTANTS
  Sockets,         \* socket numbers the operating system hands out
  MaxConnections,  \* opts.max_connections
  ExecutorSize,    \* bound of an executor's queue, 5 in add_connection
  Worlds,          \* the sets of habits a behaviour may have
  MaxOpens,        \* bound on connections made, for each world
  MaxRequests      \* bound on requests sent, for each world

(* "pipelines": a client sends before it has its answer.  "leaves": a client *)
(* goes before it has its answer.  "asks": requests include GetSystemState.  *)
(* "overlaps": handshakes of two clients overlap.  "http": clients that do   *)
(* not upgrade.  "abrupt": requests include SHUTDOWN.  "shares": a           *)
(* POLL_BLOCKING may name the queue of another connection.  "blocks":        *)
(* requests include blocking commands.  "texts": clients send text frames.   *)
(* "idle": a connection has nothing to do for MAX_TIMEOUT, a day.            *)
Habits == {"pipelines", "leaves", "asks", "overlaps", "http", "abrupt", "shares", "blocks",
           "texts", "idle"}

ASSUME ServerAssumption ==
  /\ IsFiniteSet(Sockets)
  /\ {MaxConnections, ExecutorSize} \subseteq Nat \ {0}
  /\ Worlds \subseteq SUBSET Habits
  /\ {MaxOpens, MaxRequests} \subseteq [Worlds -> Nat \ {0}]

VARIABLES
  habits,
  phase,           \* the connection on each socket, as websocketpp has it
  gen,             \* how many connections the socket has carried
  inbox,           \* what the client has sent and the io thread has not read
  texts,           \* the connections with a text frame that was not read
  ws_conns,        \* the sockets with a SocketEntry
  buffer,          \* SocketEntry::buffer, the last request stored there
  work,            \* the executor's queue
  serving,         \* the blocking command whose results the executor waits for
  epc,             \* position of the executor thread
  posts,           \* functions posted to the io_context
  io,              \* what the io thread does, and for which socket
  builtins,        \* built-in commands in the work queue
  cmds,            \* client commands in the work queue
  wpc,             \* position of the worker thread
  queues,          \* the keys of results_queue_
  results,         \* the results in each queue
  owner,           \* position of the thread that deletes the service
  signaled,        \* Context::signaled
  reqs,            \* requests made so far: socket, connection, kind, queue to poll
  sent, got,       \* history: binary requests and answers of the present connection
  polled,          \* history: results given, of which queue and connection, to whom
  late             \* history: commands unfinished when their queue was destroyed

linkVars == <<phase, gen, inbox, texts, reqs, sent>>
entryVars == <<ws_conns, buffer, work, serving>>
workerVars == <<builtins, cmds, wpc, queues, results, late>>
moving == <<linkVars, entryVars, epc, posts, io, workerVars, owner, signaled, got, polled>>
vars == <<habits, moving>>

Idle == [at |-> "idle", s |-> 0]
At(place, s) == [at |-> place, s |-> s]

Init ==
  /\ habits \in Worlds
  /\ phase = [s \in Sockets |-> "free"]
  /\ gen = [s \in Sockets |-> 0]
  /\ inbox = [s \in Sockets |-> <<>>]
  /\ texts = {}
  /\ ws_conns = {}
  /\ buffer = [s \in Sockets |-> 0]
  /\ work = [s \in Sockets |-> <<>>]
  /\ serving = [s \in Sockets |-> 0]
  /\ epc = [s \in Sockets |-> "none"]
  /\ posts = <<>>
  /\ io = Idle
  /\ builtins = {} /\ cmds = {} /\ wpc = "idle"
  /\ queues = {} /\ results = [s \in Sockets |-> {}] /\ late = {}
  /\ owner = "running" /\ signaled = FALSE
  /\ reqs = <<>>
  /\ sent = [s \in Sockets |-> <<>>] /\ got = [s \in Sockets |-> <<>>]
  /\ polled = {}

Answered(s) == Len(sent[s]) = Len(got[s])
Alive == owner \notin {"destroyed", "gone", "crashed"}

-----------------------------------------------------------------------------
(* Clients and the operating system *)

Request(s, k, q) ==
  /\ Len(reqs) < MaxRequests[habits]
  /\ reqs' = Append(reqs, [s |-> s, gen |-> gen'[s], kind |-> k, queue |-> q])

Listens == owner = "running"

(* The connections made so far: a socket and its how manyth connection. *)
Connections == {c \in Sockets \X (1..MaxOpens[habits]) : c[2] <= gen[c[1]]}

(* A connection is accepted while the server listens.  A client that does    *)
(* not upgrade sends its request with it.                                    *)
ClientConnects(s) ==
  /\ phase[s] = "free"
  /\ Listens
  /\ Cardinality(Connections) < MaxOpens[habits]
  /\ gen' = [gen EXCEPT ![s] = @ + 1]
  /\ got' = [got EXCEPT ![s] = <<>>]
  /\ texts' = texts \ {s}
  /\ \/ /\ "overlaps" \in habits \/ \A t \in Sockets : phase[t] \notin {"handshake", "valid"}
        /\ phase' = [phase EXCEPT ![s] = "handshake"]
        /\ inbox' = [inbox EXCEPT ![s] = <<>>]
        /\ sent' = [sent EXCEPT ![s] = <<>>]
        /\ UNCHANGED reqs
     \/ /\ "http" \in habits
        /\ Request(s, "run", s)
        /\ phase' = [phase EXCEPT ![s] = "http"]
        /\ inbox' = [inbox EXCEPT ![s] = <<Len(reqs')>>]
        /\ sent' = [sent EXCEPT ![s] = <<Len(reqs')>>]
  /\ UNCHANGED <<entryVars, epc, posts, io, workerVars, owner, signaled, polled>>

Kinds == {"run", "poll"} \cup (IF "asks" \in habits THEN {"state"} ELSE {})
           \cup (IF "abrupt" \in habits THEN {"shutdown"} ELSE {})
           \cup (IF "blocks" \in habits THEN {"block"} ELSE {})

(* POLL and blocking commands are about the queue of their own connection,   *)
(* POLL_BLOCKING about the one it names.                                     *)
Names(s, k) == IF k = "poll" /\ "shares" \in habits THEN Sockets ELSE {s}

ClientSends(s, k, q) ==
  /\ phase[s] = "open"
  /\ 0 \notin ToSet(inbox[s])
  /\ "pipelines" \in habits \/ Answered(s)
  /\ k \in Kinds /\ q \in Names(s, k)
  /\ UNCHANGED gen /\ Request(s, k, q)
  /\ inbox' = [inbox EXCEPT ![s] = Append(@, Len(reqs'))]
  /\ sent' = [sent EXCEPT ![s] = Append(@, Len(reqs'))]
  /\ UNCHANGED <<phase, texts, entryVars, epc, posts, io, workerVars, owner, signaled, got,
                 polled>>

(* A request in a text frame.  Its place among the others does not matter. *)
ClientSendsText(s) ==
  /\ "texts" \in habits
  /\ phase[s] = "open"
  /\ 0 \notin ToSet(inbox[s])
  /\ UNCHANGED gen /\ Request(s, "text", s)
  /\ texts' = texts \cup {s}
  /\ UNCHANGED <<phase, inbox, sent, entryVars, epc, posts, io, workerVars, owner, signaled, got,
                 polled>>

(* The close frame, here 0, is the client's own or its reply to ours.  That  *)
(* websocketpp gives up waiting for the reply has the same effect.           *)
ClientCloses(s) ==
  /\ phase[s] \in {"open", "closing"}
  /\ 0 \notin ToSet(inbox[s])
  /\ "leaves" \in habits \/ phase[s] = "closing" \/ Answered(s)
  /\ inbox' = [inbox EXCEPT ![s] = Append(@, 0)]
  /\ UNCHANGED <<phase, gen, texts, reqs, sent, entryVars, epc, posts, io, workerVars, owner,
                 signaled, got, polled>>

-----------------------------------------------------------------------------
(* Handlers of the io thread.  Handlers that use a destroyed server end the  *)
(* process or wait for ever for a worker that is gone (UsesDestroyed).       *)

\* Mutant: one connection too many.
FullLate == Cardinality(ws_conns) > MaxConnections
Full == Cardinality(ws_conns) >= MaxConnections

ValidateHandler(s) ==
  /\ io = Idle /\ Alive
  /\ phase[s] = "handshake"
  /\ phase' = [phase EXCEPT ![s] = IF Full THEN "free" ELSE "valid"]
  /\ UNCHANGED <<gen, inbox, texts, reqs, sent, entryVars, epc, posts, io, workerVars, owner,
                 signaled, got, polled>>

(* add_connection, and the queue that accept asks the worker for. *)
AddConnection(s) ==
  /\ ws_conns' = ws_conns \cup {s}
  /\ buffer' = [buffer EXCEPT ![s] = 0]
  /\ work' = [work EXCEPT ![s] = <<>>]
  /\ epc' = [epc EXCEPT ![s] = "idle"]
  /\ builtins' = builtins \cup {<<"create", s>>}
  /\ io' = At("accept", s)
  /\ UNCHANGED serving

OpenHandler(s) ==
  /\ io = Idle /\ Alive
  /\ phase[s] = "valid"
  /\ AddConnection(s)
  /\ UNCHANGED <<linkVars, posts, cmds, wpc, queues, results, late, owner, signaled, got, polled>>

HttpHandler(s) ==
  /\ io = Idle /\ Alive
  /\ phase[s] = "http" /\ inbox[s] # <<>>
  /\ s \notin ws_conns
  /\ AddConnection(s)
  /\ UNCHANGED <<linkVars, posts, cmds, wpc, queues, results, late, owner, signaled, got, polled>>

StoresRequest(s) ==
  /\ buffer' = [buffer EXCEPT ![s] = Head(inbox[s])]
  /\ inbox' = [inbox EXCEPT ![s] = Tail(@)]
  /\ io' = At("push", s)

AcceptReturns(s) ==
  /\ io = At("accept", s) /\ <<"create", s>> \notin builtins
  /\ IF phase[s] = "http"
     THEN StoresRequest(s) /\ UNCHANGED phase
     ELSE io' = Idle /\ phase' = [phase EXCEPT ![s] = "open"] /\ UNCHANGED <<buffer, inbox>>
  /\ UNCHANGED <<gen, texts, reqs, sent, ws_conns, work, serving, epc, posts, workerVars, owner,
                 signaled, got, polled>>

MessageHandler(s) ==
  /\ io = Idle /\ Alive
  /\ phase[s] = "open" /\ inbox[s] # <<>> /\ Head(inbox[s]) # 0
  /\ StoresRequest(s)
  /\ UNCHANGED <<phase, gen, texts, reqs, sent, ws_conns, work, serving, epc, posts, workerVars,
                 owner, signaled, got, polled>>

(* A text frame is dropped without an answer, whatever it asks for. *)
TextHandler(s) ==
  /\ io = Idle
  /\ phase[s] = "open" /\ s \in texts
  /\ texts' = texts \ {s}
  /\ UNCHANGED <<phase, gen, inbox, reqs, sent, entryVars, epc, posts, io, workerVars, owner,
                 signaled, got, polled>>

\* Mutant: the executor's queue has no bound.
AlwaysRoom(s) == TRUE
Room(s) == Len(work[s]) < ExecutorSize

PushWork(s) ==
  /\ io = At("push", s) /\ Room(s)
  /\ work' = [work EXCEPT ![s] = Append(@, "work")]
  /\ io' = Idle
  /\ UNCHANGED <<linkVars, ws_conns, buffer, serving, epc, posts, workerVars, owner, signaled,
                 got, polled>>

CloseHandler(s) ==
  /\ io = Idle /\ Alive
  /\ phase[s] \in {"open", "closing"} /\ inbox[s] # <<>> /\ Head(inbox[s]) = 0
  /\ builtins' = builtins \cup {<<"destroy", s>>}
  /\ io' = At("close", s)
  /\ UNCHANGED <<linkVars, entryVars, epc, posts, cmds, wpc, queues, results, late, owner,
                 signaled, got, polled>>

(* Erasing an entry destroys its executor: a last item for the thread, for   *)
(* which there must be room, and a join.  shutdown clears all entries.       *)
Erases(s, place) ==
  /\ ws_conns' = ws_conns \ {s}
  /\ io' = At(place, s)

CloseReturns(s) ==
  /\ io = At("close", s) /\ <<"destroy", s>> \notin builtins
  /\ IF s \in ws_conns
     THEN Erases(s, "erase") /\ UNCHANGED phase
     ELSE /\ io' = Idle
          /\ phase' = [phase EXCEPT ![s] = "free"]
          /\ UNCHANGED ws_conns
  /\ UNCHANGED <<gen, inbox, texts, reqs, sent, buffer, work, serving, epc, posts, workerVars,
                 owner, signaled, got, polled>>

StopsExecutor(s) ==
  /\ io \in {At("erase", s), At("clear", s)} /\ Room(s)
  /\ work' = [work EXCEPT ![s] = Append(@, "destroy")]
  /\ io' = At(IF io.at = "erase" THEN "join" ELSE "clear_join", s)
  /\ UNCHANGED <<linkVars, ws_conns, buffer, serving, epc, posts, workerVars, owner, signaled,
                 got, polled>>

JoinsExecutor(s) ==
  /\ io = At("join", s) /\ epc[s] = "ended"
  /\ epc' = [epc EXCEPT ![s] = "none"]
  /\ phase' = [phase EXCEPT ![s] = "free"]
  /\ io' = Idle
  /\ UNCHANGED <<gen, inbox, texts, reqs, sent, entryVars, posts, workerVars, owner, signaled,
                 got, polled>>

(* Posted functions, in order.  Their poster waits until they are done. *)
Posted(kind) == io = Idle /\ posts # <<>> /\ Head(posts).kind = kind

(* A send to a connection that is gone fails and is only logged. *)
PostSends(s) ==
  /\ Posted("send") /\ Head(posts).s = s /\ Alive
  /\ got' = IF phase[s] = "open" THEN [got EXCEPT ![s] = Append(@, Head(posts).req)] ELSE got
  /\ epc' = [epc EXCEPT ![s] = "idle"]
  /\ posts' = Tail(posts)
  /\ UNCHANGED <<linkVars, entryVars, io, workerVars, owner, signaled, polled>>

(* The answer to an HTTP request, and then the end of its result queue. *)
PostSendsHttp(s) ==
  /\ Posted("http") /\ Head(posts).s = s /\ Alive
  /\ got' = [got EXCEPT ![s] = Append(@, Head(posts).req)]
  /\ builtins' = builtins \cup {<<"destroy", s>>}
  /\ io' = At("http_close", s)
  /\ posts' = Tail(posts)
  /\ UNCHANGED <<linkVars, entryVars, epc, cmds, wpc, queues, results, late, owner, signaled,
                 polled>>

(* con->interrupt() posts the interrupt handler. *)
Interrupts(s) ==
  /\ posts' = Append(Tail(posts), [kind |-> "interrupt", s |-> s, req |-> 0])
  /\ epc' = [epc EXCEPT ![s] = "idle"]

(* The client has gone: the queue is not destroyed. *)
PostHttpThrows(s) ==
  /\ Posted("http") /\ Head(posts).s = s /\ Alive
  /\ "leaves" \in habits
  /\ Interrupts(s)
  /\ UNCHANGED <<linkVars, entryVars, io, workerVars, owner, signaled, got, polled>>

\* Mutant: the entry is erased inside the posted function.
HttpErasesAtOnce(s) ==
  /\ Erases(s, "erase")
  /\ UNCHANGED <<posts, epc>>
HttpInterrupts(s) ==
  /\ posts' = Append(posts, [kind |-> "interrupt", s |-> s, req |-> 0])
  /\ epc' = [epc EXCEPT ![s] = "idle"]
  /\ io' = Idle
  /\ UNCHANGED ws_conns

HttpCloseReturns(s) ==
  /\ io = At("http_close", s) /\ <<"destroy", s>> \notin builtins
  /\ HttpInterrupts(s)
  /\ UNCHANGED <<linkVars, buffer, work, serving, workerVars, owner, signaled, got, polled>>

InterruptHandler(s) ==
  /\ Posted("interrupt") /\ Head(posts).s = s /\ Alive
  /\ posts' = Tail(posts)
  /\ IF s \in ws_conns
     THEN Erases(s, "erase") /\ UNCHANGED phase
     ELSE phase' = [phase EXCEPT ![s] = "free"] /\ UNCHANGED <<ws_conns, io>>
  /\ UNCHANGED <<gen, inbox, texts, reqs, sent, buffer, work, serving, epc, workerVars, owner,
                 signaled, got, polled>>

PostReadsState ==
  /\ Posted("state") /\ Alive
  /\ wpc' = "answered"
  /\ posts' = Tail(posts)
  /\ UNCHANGED <<linkVars, entryVars, epc, io, builtins, cmds, queues, results, late, owner,
                 signaled, got, polled>>

(* shutdown's function: close frames to the open connections, then clear().  *)
PostClosesAll ==
  /\ Posted("closeall")
  /\ phase' = [s \in Sockets |-> IF s \in ws_conns /\ phase[s] = "open" THEN "closing"
                                 ELSE phase[s]]
  /\ io' = At("clearing", 0)
  /\ posts' = Tail(posts)
  /\ UNCHANGED <<gen, inbox, texts, reqs, sent, entryVars, epc, workerVars, owner, signaled, got,
                 polled>>

ClearTakes(s) ==
  /\ io.at = "clearing" /\ s \in ws_conns
  /\ Erases(s, "clear")
  /\ UNCHANGED <<linkVars, buffer, work, serving, epc, posts, workerVars, owner, signaled, got,
                 polled>>

ClearJoins(s) ==
  /\ io = At("clear_join", s) /\ epc[s] = "ended"
  /\ epc' = [epc EXCEPT ![s] = "none"]
  /\ io' = At("clearing", 0)
  /\ UNCHANGED <<linkVars, entryVars, posts, workerVars, owner, signaled, got, polled>>

ClearEnds ==
  /\ io.at = "clearing" /\ ws_conns = {}
  /\ io' = Idle
  /\ owner' = "closed"
  /\ UNCHANGED <<linkVars, entryVars, epc, posts, workerVars, signaled, got, polled>>

-----------------------------------------------------------------------------
(* Executor threads: on_receive_bytes, process_request and the post of the   *)
(* answer.  A poll of a queue that is gone is answered with an error.        *)

\* Mutant: the item stays in the queue.
Peeked(q) == q
Popped(q) == Tail(q)

(* flush_results of the queue that the request names, if it exists, and the  *)
(* post of the answer.                                                       *)
Replies(s, r) ==
  LET q == reqs[r].queue IN
  /\ IF reqs[r].kind \in {"poll", "block"} /\ q \in queues
     THEN /\ polled' = polled \cup {<<x, q, gen[q], s>> : x \in results[q]}
          /\ results' = [results EXCEPT ![q] = {}]
     ELSE UNCHANGED <<polled, results>>
  /\ posts' = Append(posts, [kind |-> IF phase[s] = "http" THEN "http" ELSE "send", s |-> s,
                             req |-> r])
  /\ epc' = [epc EXCEPT ![s] = "posting"]

(* The executor takes the request that is in the buffer by now. *)
Takes(s) ==
  LET r == buffer[s] IN
  /\ epc[s] = "idle" /\ work[s] # <<>> /\ Head(work[s]) = "work"
  /\ work' = [work EXCEPT ![s] = Popped(@)]
  /\ cmds' = IF reqs[r].kind \in {"run", "state", "block"} THEN cmds \cup {r} ELSE cmds

ExecutorServes(s) ==
  /\ Takes(s)
  /\ reqs[buffer[s]].kind # "block"
  /\ signaled' = (signaled \/ reqs[buffer[s]].kind = "shutdown")
  /\ Replies(s, buffer[s])
  /\ UNCHANGED <<linkVars, ws_conns, buffer, serving, io, builtins, wpc, queues, late, owner, got>>

ExecutorBlocks(s) ==
  /\ Takes(s)
  /\ reqs[buffer[s]].kind = "block"
  /\ serving' = [serving EXCEPT ![s] = buffer[s]]
  /\ epc' = [epc EXCEPT ![s] = "polling"]
  /\ UNCHANGED <<linkVars, ws_conns, buffer, posts, io, builtins, wpc, queues, results, late, owner,
                 signaled, got, polled>>

(* A blocking command waits for results, its own or others, or times out. *)
ExecutorFlushes(s) ==
  /\ epc[s] = "polling"
  /\ Replies(s, serving[s])
  /\ UNCHANGED <<linkVars, entryVars, io, builtins, cmds, wpc, queues, late, owner, signaled,
                 got>>

ExecutorEnds(s) ==
  /\ epc[s] = "idle" /\ work[s] # <<>> /\ Head(work[s]) = "destroy"
  /\ epc' = [epc EXCEPT ![s] = "ended"]
  /\ UNCHANGED <<linkVars, entryVars, posts, io, workerVars, owner, signaled, got, polled>>

(* Without work for MAX_TIMEOUT the thread ends, while its entry stays. *)
ExecutorTimesOut(s) ==
  /\ "idle" \in habits
  /\ epc[s] = "idle" /\ work[s] = <<>>
  /\ epc' = [epc EXCEPT ![s] = "ended"]
  /\ UNCHANGED <<linkVars, entryVars, posts, io, workerVars, owner, signaled, got, polled>>

-----------------------------------------------------------------------------
(* The worker of the command manager.  Built-in commands come first. *)

WorkerCreatesQueue(s) ==
  /\ wpc = "idle" /\ <<"create", s>> \in builtins
  /\ builtins' = builtins \ {<<"create", s>>}
  /\ queues' = queues \cup {s}
  /\ UNCHANGED <<linkVars, entryVars, epc, posts, io, cmds, wpc, results, late, owner, signaled,
                 got, polled>>

\* Mutant: the queue is kept.
KeepsQueue(s) == UNCHANGED <<queues, results>>
DestroysQueue(s) == queues' = queues \ {s} /\ results' = [results EXCEPT ![s] = {}]

WorkerDestroysQueue(s) ==
  /\ wpc = "idle" /\ <<"destroy", s>> \in builtins
  /\ builtins' = builtins \ {<<"destroy", s>>}
  /\ DestroysQueue(s)
  /\ late' = late \cup {c \in cmds : reqs[c].s = s}
  /\ UNCHANGED <<linkVars, entryVars, epc, posts, io, cmds, wpc, owner, signaled, got, polled>>

WorkerShutsDown ==
  /\ wpc = "idle" /\ builtins = {<<"shutdown", 0>>}
  /\ builtins' = {}
  /\ wpc' = "gone"
  /\ UNCHANGED <<linkVars, entryVars, epc, posts, io, cmds, queues, results, late, owner,
                 signaled, got, polled>>

(* The result goes to whatever queue has the socket's number now. *)
Finishes(c) ==
  /\ cmds' = cmds \ {c}
  /\ results' = IF reqs[c].s \in queues THEN [results EXCEPT ![reqs[c].s] = @ \cup {c}]
                ELSE results

WorkerRuns(c) ==
  /\ wpc = "idle" /\ builtins = {}
  /\ c \in cmds /\ reqs[c].kind \in {"run", "block"}
  /\ Finishes(c)
  /\ UNCHANGED <<linkVars, entryVars, epc, posts, io, builtins, wpc, queues, late, owner,
                 signaled, got, polled>>

(* GetSystemState waits for the io thread. *)
WorkerAsksState(c) ==
  /\ wpc = "idle" /\ builtins = {}
  /\ c \in cmds /\ reqs[c].kind = "state"
  /\ posts' = Append(posts, [kind |-> "state", s |-> 0, req |-> c])
  /\ wpc' = "asking"
  /\ UNCHANGED <<linkVars, entryVars, epc, io, builtins, cmds, queues, results, late, owner,
                 signaled, got, polled>>

WorkerHasState(c) ==
  /\ wpc = "answered"
  /\ c \in cmds /\ reqs[c].kind = "state"
  /\ Finishes(c)
  /\ wpc' = "idle"
  /\ UNCHANGED <<linkVars, entryVars, epc, posts, io, builtins, queues, late, owner, signaled,
                 got, polled>>

-----------------------------------------------------------------------------
(* ~InstrumentationService, run by the thread of Context after a SHUTDOWN    *)
(* request, or at any time by a program that owns the service.               *)

Quiet == \A s \in Sockets : phase[s] = "free"

ShutdownBegins ==
  /\ owner = "running"
  /\ owner' = "closing"
  /\ posts' = Append(posts, [kind |-> "closeall", s |-> 0, req |-> 0])
  /\ UNCHANGED <<linkVars, entryVars, epc, io, workerVars, signaled, got, polled>>

StopsManager ==
  /\ owner = "closed"
  /\ builtins' = builtins \cup {<<"shutdown", 0>>}
  /\ owner' = "stopping"
  /\ UNCHANGED <<linkVars, entryVars, epc, posts, io, cmds, wpc, queues, results, late, signaled,
                 got, polled>>

(* The members are destroyed in reverse order: first ws_server_, then the    *)
(* io service, which waits until its thread has nothing left to do.          *)
DestroysServer ==
  /\ owner = "stopping" /\ wpc = "gone"
  /\ owner' = "destroyed"
  /\ UNCHANGED <<linkVars, entryVars, epc, posts, io, workerVars, signaled, got, polled>>

\* Mutant: the work guard is not reset.
RunReturnsNever == FALSE
RunReturns == Quiet /\ io = Idle /\ posts = <<>>

JoinsIo ==
  /\ owner = "destroyed"
  /\ RunReturns
  /\ owner' = "gone"
  /\ UNCHANGED <<linkVars, entryVars, epc, posts, io, workerVars, signaled, got, polled>>

(* A frame, a handshake or a posted function refers to the destroyed server: *)
(* undefined, the process dies or the handler waits for the worker.          *)
UsesDestroyed(s) ==
  /\ owner = "destroyed" /\ io = Idle
  /\ \/ phase[s] \in {"handshake", "valid", "http"}
     \/ phase[s] # "free" /\ (inbox[s] # <<>> \/ (posts # <<>> /\ Head(posts).s = s))
  /\ owner' \in {"crashed", "destroyed"}
  /\ io' = At("undefined", s)
  /\ UNCHANGED <<linkVars, entryVars, epc, posts, workerVars, signaled, got, polled>>

-----------------------------------------------------------------------------
IoThread ==
  \/ \E s \in Sockets :
       \/ ValidateHandler(s) \/ OpenHandler(s) \/ HttpHandler(s) \/ AcceptReturns(s)
       \/ MessageHandler(s) \/ TextHandler(s) \/ PushWork(s) \/ CloseHandler(s) \/ CloseReturns(s)
       \/ StopsExecutor(s) \/ JoinsExecutor(s) \/ PostSends(s) \/ PostSendsHttp(s)
       \/ PostHttpThrows(s) \/ HttpCloseReturns(s) \/ InterruptHandler(s) \/ ClearTakes(s)
       \/ ClearJoins(s) \/ UsesDestroyed(s)
  \/ PostReadsState \/ PostClosesAll \/ ClearEnds

Executor(s) ==
  \/ ExecutorServes(s) \/ ExecutorBlocks(s) \/ ExecutorFlushes(s) \/ ExecutorEnds(s)
  \/ ExecutorTimesOut(s)

Worker ==
  \/ \E s \in Sockets : WorkerCreatesQueue(s) \/ WorkerDestroysQueue(s)
  \/ WorkerShutsDown
  \/ \E c \in cmds : WorkerRuns(c) \/ WorkerAsksState(c) \/ WorkerHasState(c)

Owner == ShutdownBegins \/ StopsManager \/ DestroysServer \/ JoinsIo

Client(s) ==
  \/ ClientConnects(s) \/ ClientCloses(s) \/ ClientSendsText(s)
  \/ \E k \in Kinds : \E q \in Names(s, k) : ClientSends(s, k, q)

Next ==
  /\ \/ IoThread \/ Worker \/ Owner
     \/ \E s \in Sockets : Executor(s) \/ Client(s)
  /\ UNCHANGED habits

Spec == Init /\ [][Next]_vars

(* The threads keep running, and Context's destroys the service when it was  *)
(* told to; clients need not do anything, but websocketpp does not wait for  *)
(* ever for the end of a close handshake.                                    *)
Fairness ==
  /\ WF_moving(IoThread) /\ WF_moving(Worker)
  /\ WF_moving((signaled /\ ShutdownBegins) \/ StopsManager \/ DestroysServer \/ JoinsIo)
  /\ \A s \in Sockets : /\ WF_moving(ExecutorServes(s) \/ ExecutorBlocks(s) \/ ExecutorFlushes(s)
                                      \/ ExecutorEnds(s))
                        /\ WF_moving(phase[s] = "closing" /\ ClientCloses(s))

FairSpec == Spec /\ Fairness

-----------------------------------------------------------------------------
(* Properties *)

(* What the handlers, executors and the worker test keeps its type, the      *)
(* executor's queue its bound, and what is in flight refers to requests that *)
(* were made.                                                                *)
TypeOK ==
  /\ phase \in [Sockets -> {"free", "handshake", "valid", "http", "open", "closing"}]
  /\ \A s \in Sockets : /\ gen[s] \in 0..MaxOpens[habits]
                        /\ ToSet(inbox[s]) \subseteq 0..Len(reqs)
                        /\ work[s] \in UNION {[1..n -> {"work", "destroy"}] : n \in 0..ExecutorSize}
                        /\ results[s] \subseteq 1..Len(reqs)
  /\ ws_conns \subseteq Sockets /\ queues \subseteq Sockets
  /\ buffer \in [Sockets -> 0..Len(reqs)]
  /\ epc \in [Sockets -> {"none", "idle", "polling", "posting", "ended"}]
  /\ cmds \subseteq 1..Len(reqs)
  /\ wpc \in {"idle", "asking", "answered", "gone"}
  /\ builtins \subseteq ({"create", "destroy"} \X Sockets) \cup {<<"shutdown", 0>>}
  /\ owner \in {"running", "closing", "closed", "stopping", "destroyed", "gone", "crashed"}
  /\ signaled \in BOOLEAN

(* send_response: the i-th answer a connection gets answers its i-th request *)
(* or, when the client pipelines, a later one of the same connection that    *)
(* has replaced it in the buffer.                                            *)
AnswersOwn ==
  \A s \in Sockets : \A i \in DOMAIN got[s] :
    /\ i <= Len(sent[s])
    /\ \E j \in i..Len(sent[s]) : got[s][i] = sent[s][j]
    /\ "pipelines" \notin habits => got[s][i] = sent[s][i]

(* Queue ids are socket numbers: a poll of a queue is given results of an    *)
(* earlier connection on its socket only if their commands were unfinished   *)
(* when the queue was destroyed, or if an HTTP client went away and its      *)
(* queue was not.  A connection is given results of another one's queue only *)
(* if clients name queues that are not theirs.                               *)
ResultsOwn ==
  {"leaves", "http"} \subseteq habits
    \/ \A p \in polled : /\ reqs[p[1]].s = p[2] /\ (reqs[p[1]].gen = p[3] \/ p[1] \in late)
                         /\ "shares" \notin habits => p[4] = p[2]

(* Why the io thread waits for ever: for an executor that waits for it, in   *)
(* its destruction or with a full queue; for one that has ended and leaves a *)
(* full queue behind; for the worker, which waits for it or is gone.         *)
Stuck(why) ==
  CASE why = "join" -> io.at \in {"join", "clear_join", "erase", "clear"} /\ epc[io.s] = "posting"
    [] why = "push" -> io.at = "push" /\ ~Room(io.s) /\ epc[io.s] = "posting"
    [] why = "idle" -> io.at \in {"push", "erase", "clear"} /\ ~Room(io.s) /\ epc[io.s] = "ended"
    [] why = "worker" -> io.at \in {"accept", "close", "http_close"} /\ wpc = "asking"
    [] why = "gone" -> io.at \in {"accept", "close", "http_close"} /\ wpc = "gone"

(* The io thread waits for ever only because of a client that leaves         *)
(* unanswered or a destruction (join), one that pipelines (push), one that   *)
(* does nothing for a day (idle), GetSystemState while another client comes  *)
(* or goes (worker), or a client that comes or goes during the destruction.  *)
CyclesExplained ==
  /\ Stuck("join") => "leaves" \in habits \/ owner # "running"
  /\ Stuck("push") => "pipelines" \in habits
  /\ Stuck("idle") => "idle" \in habits
  /\ Stuck("worker") => "asks" \in habits
  /\ Stuck("gone") => owner # "running"

(* max_connections bounds the upgraded connections as long as no two         *)
(* handshakes overlap: the test comes before the entry is added.             *)
ConnectionLimit ==
  "overlaps" \notin habits
    => Cardinality({s \in ws_conns : phase[s] # "http"}) <= MaxConnections

(* When the io thread is between handlers, the open connections are those    *)
(* with an entry and a result queue; a socket that is free has neither,      *)
(* unless an HTTP client has left.                                           *)
EntriesMatch ==
  io = Idle /\ owner = "running" =>
    \A s \in Sockets :
      /\ phase[s] = "open" => s \in ws_conns /\ s \in queues /\ epc[s] # "none"
      /\ phase[s] = "free" => s \notin ws_conns /\ epc[s] = "none"
      /\ phase[s] = "free" /\ ~({"leaves", "http"} \subseteq habits) => s \notin queues

(* The entries in ws_conns are those of the connections, and within limits. *)
EntriesSound == EntriesMatch /\ ConnectionLimit

(* With clients that wait for answers and are not idle for a day every       *)
(* request that came in a binary frame is answered, whatever text frames,    *)
(* blocking commands and polls of other queues come between, unless the      *)
(* service is destroyed.                                                     *)
RequestAnswered ==
  \A s \in Sockets :
    (habits \subseteq {"http", "overlaps", "shares", "blocks", "texts"} /\ ~Answered(s))
      ~> (Answered(s) \/ owner # "running")

(* The io thread never gets to the end: it waits for ever, has gone on with  *)
(* a destroyed server, or a connection came up after the others were closed. *)
NeverEnds ==
  \/ \E why \in {"join", "push", "idle", "worker", "gone"} : Stuck(why)
  \/ io.at = "undefined"
  \/ owner = "destroyed" /\ \E s \in Sockets : phase[s] = "open"

(* ~InstrumentationService ends if no connection is left when it begins.  If *)
(* there is one, it ends, or the process, or one of the known causes keeps   *)
(* the io thread from ending.  A SHUTDOWN request leads there.               *)
DestructionEnds ==
  /\ (owner = "closing" /\ Quiet) ~> owner = "gone"
  /\ (signaled \/ owner = "closing") ~> (owner \in {"gone", "crashed"} \/ NeverEnds)

=============================================================================
