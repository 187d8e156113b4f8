--------------------------- MODULE AutoPollClient ---------------------------
(***************************************************************************)
(* multi_client::AutoPollClient: a user thread that starts the client,     *)
(* sends commands, shuts it down and destroys it, the poll thread that     *)
(* collects results into a map, the message queues of the two websocket    *)
(* connections, and the server as far as they see it.  A connection is     *)
(* named by a number, and the server names its result queue the same.      *)
(***************************************************************************)
EXTENDS Integers, Sequences, FiniteSets, SequencesExt, FiniteSetsExt

CONSTANTS
  MaxConns,        \* bound on connections made
  MaxIds,          \* bound on command ids, and so on commands sent
  MaxStale,        \* bound on unanswered requests of a connection
  StartFails,      \* whether a connection or its handshake may fail in start
  GetTimesOut,     \* whether a result may take longer than command_timeout
  Worlds           \* the sets of faults a behaviour may be exposed to

(* "drops": the peer may close an open connection.  "timeouts": read_data    *)
(* may reach WEBSOCKET_READ_TIMEOUT.  "hurry": start, shutdown and           *)
(* destruction do not wait for a first result.                               *)
Faults == {"drops", "timeouts", "hurry"}

ASSUME ClientAssumption ==
  /\ MaxConns \in Nat /\ MaxIds \in Nat /\ MaxStale \in Nat \ {0}
  /\ StartFails \in BOOLEAN /\ GetTimesOut \in BOOLEAN
  /\ Worlds \subseteq SUBSET Faults

Types == {"COMMAND", "POLL"}

VARIABLES
  faults,          \* the faults of this behaviour
  state,           \* state_
  clients,         \* is_clients_: the connection of each type, 0 if there is none
  queue_ids,       \* queue_ids_
  joinable,        \* poll_thread_.joinable()
  active,          \* poll_thread_active_
  results,         \* the keys of results_
  upc,             \* position of the user thread
  ppc,             \* position of the poll thread
  own, waiting,    \* the command being sent and the id in the ack that was read
  in_q,            \* in_q_ of each connection
  conns,           \* number of connections made so far
  open,            \* the open ones
  ids,             \* number of command ids given so far
  requests,        \* requests on their way to the server, per connection
  running,         \* accepted commands as <<id, queue>>
  queued,          \* the server's results, per queue
  terminated,      \* what called std::terminate, if anything did
  left,            \* history: results of handshakes that start did not collect
  expired,         \* history: ids whose get timed out
  answer           \* history: the last command and the id of its answer

userVars == <<own, waiting, expired, answer>>
serverVars == <<ids, requests, running, queued>>
linkVars == <<in_q, conns, open>>
setupVars == <<state, clients, queue_ids, joinable, terminated, left>>
moving == <<setupVars, active, results, upc, ppc, userVars, linkVars, serverVars>>
vars == <<faults, moving>>

Init ==
  /\ faults \in Worlds
  /\ state = "NONE"
  /\ clients = [t \in Types |-> 0]
  /\ queue_ids = [t \in Types |-> 0]
  /\ joinable = FALSE
  /\ active = FALSE
  /\ results = {}
  /\ upc = "idle"
  /\ ppc = "none"
  /\ own = 0 /\ waiting = 0
  /\ in_q = [c \in 1..MaxConns |-> <<>>]
  /\ conns = 0
  /\ open = {}
  /\ ids = 0
  /\ requests = [c \in 1..MaxConns |-> <<>>]
  /\ running = {}
  /\ queued = [c \in 1..MaxConns |-> {}]
  /\ terminated = "no"
  /\ left = {}
  /\ expired = {}
  /\ answer = <<0, 0>>

(* The user thread is in start, shutdown or the destructor and holds the     *)
(* mutex of state_, also while it waits in join.                             *)
Joining == upc \in {"join", "join_destroy"}
Locked == upc \in {"COMMAND", "POLL", "thread"} \/ Joining

(* std::terminate ends both threads. *)
Terminates(where) == terminated' = where /\ upc' = "gone" /\ ppc' = "dead"

(* A user that looks for a first answer before it ends or restarts the client. *)
MayChange == upc = "idle" /\ ("hurry" \notin faults => answer # <<0, 0>>)

-----------------------------------------------------------------------------
(* start *)

StartAllowed == state = "NONE"

StartBegins ==
  /\ upc = "idle"
  /\ ppc # "none" => MayChange
  /\ StartAllowed
  /\ upc' = "COMMAND"
  /\ UNCHANGED <<setupVars, active, results, ppc, userVars, linkVars, serverVars>>

(* The connection is refused: connect throws. *)
StartRefused(t) ==
  /\ StartFails
  /\ upc = t
  /\ upc' = "idle"
  /\ UNCHANGED <<setupVars, active, results, ppc, userVars, linkVars, serverVars>>

(* Connect, send the handshake command, read its ack and poll its result.    *)
(* Any of these may throw, which closes the connection.  The result may be   *)
(* late for the poll.  emplace keeps a client that is already there and      *)
(* destroys the new connection.                                              *)
StartConnects(t, outcome) ==
  LET c == conns + 1
      kept == outcome \in {"polled", "late"} /\ clients[t] = 0
  IN
  /\ upc = t
  /\ conns < MaxConns /\ ids < MaxIds
  /\ StartFails \/ outcome \in {"polled", "late"}
  /\ conns' = c
  /\ ids' = ids + 1
  /\ queue_ids' = IF outcome = "no_ack" THEN queue_ids ELSE [queue_ids EXCEPT ![t] = c]
  /\ clients' = IF kept THEN [clients EXCEPT ![t] = c] ELSE clients
  /\ open' = IF kept THEN open \cup {c} ELSE open
  /\ queued' = IF kept /\ outcome = "late" THEN [queued EXCEPT ![c] = {ids'}] ELSE queued
  /\ left' = IF outcome = "late" THEN left \cup {ids'} ELSE left
  /\ upc' = CASE outcome \in {"no_ack", "no_poll"} -> "idle"
              [] t = "COMMAND" -> "POLL"
              [] t = "POLL" -> "thread"
  /\ UNCHANGED <<state, joinable, terminated, active, results, ppc, userVars, in_q,
                 requests, running>>

(* Assigning to a joinable std::thread terminates the process. *)
StartThread ==
  /\ upc = "thread"
  /\ IF joinable THEN Terminates("start")
     ELSE upc' = "idle" /\ ppc' = "wait" /\ UNCHANGED terminated
  /\ joinable' = TRUE
  /\ UNCHANGED <<state, clients, queue_ids, left, active, results, userVars, linkVars,
                 serverVars>>

-----------------------------------------------------------------------------
(* send_command *)

SendRequest ==
  LET c == clients["COMMAND"] IN
  /\ upc = "idle"
  /\ c \in open
  /\ ids < MaxIds
  /\ Len(requests[c]) < MaxStale
  /\ ids' = ids + 1
  /\ own' = ids'
  /\ requests' = [requests EXCEPT ![c] = Append(@, [kind |-> "run", arg |-> ids'])]
  /\ upc' = "ack"
  /\ UNCHANGED <<setupVars, active, results, ppc, waiting, expired, answer, linkVars,
                 running, queued>>

\* Mutants: any result will do; an id off by one.
AwaitsAny(m) == IF results = {} THEN m.arg ELSE Min(results)
AwaitsNext(m) == m.arg + 1
Awaited(m) == m.arg

ReadAck ==
  LET c == clients["COMMAND"] IN
  /\ upc = "ack"
  /\ in_q[c] # <<>> /\ Head(in_q[c]).kind = "ack"
  /\ in_q' = [in_q EXCEPT ![c] = Tail(@)]
  /\ waiting' = Awaited(Head(in_q[c]))
  /\ upc' = "get"
  /\ UNCHANGED <<setupVars, active, results, ppc, own, expired, answer, conns, open,
                 serverVars>>

(* read_data gets nothing in time, or the empty message of disconnect, and   *)
(* send_message throws.                                                      *)
ReadAckFails ==
  LET c == clients["COMMAND"] IN
  /\ upc = "ack"
  /\ \/ /\ "timeouts" \in faults \/ c \notin open
        /\ in_q[c] = <<>>
        /\ UNCHANGED in_q
     \/ /\ in_q[c] # <<>> /\ Head(in_q[c]).kind = "stop"
        /\ in_q' = [in_q EXCEPT ![c] = Tail(@)]
  /\ upc' = "idle"
  /\ own' = 0
  /\ UNCHANGED <<setupVars, active, results, ppc, waiting, expired, answer, conns, open,
                 serverVars>>

\* Mutant: the result is not erased from the map.
Unerased == results
Erased == results \ {waiting}

GetResult ==
  /\ upc = "get"
  /\ waiting \in results
  /\ results' = Erased
  /\ answer' = <<own, waiting>>
  /\ own' = 0 /\ waiting' = 0
  /\ upc' = "idle"
  /\ UNCHANGED <<setupVars, active, ppc, expired, linkVars, serverVars>>

GetExpires ==
  /\ GetTimesOut
  /\ upc = "get"
  /\ waiting \notin results
  /\ expired' = expired \cup {waiting}
  /\ own' = 0 /\ waiting' = 0
  /\ upc' = "idle"
  /\ UNCHANGED <<setupVars, active, results, ppc, answer, linkVars, serverVars>>

-----------------------------------------------------------------------------
(* shutdown and the destructor.  join throws on a thread that never ran or   *)
(* was joined before; the state stays CLOSING.                               *)

\* Mutant: shutdown does not clear poll_thread_active_.
StaysActive == active
Stopped == FALSE

Stops(to) ==
  /\ state' = "CLOSING"
  /\ active' = Stopped
  /\ upc' = IF joinable THEN to ELSE "idle"
  /\ UNCHANGED <<clients, queue_ids, joinable, terminated, left, results, ppc, userVars,
                 linkVars, serverVars>>

ShutdownBegins ==
  /\ MayChange
  /\ Stops("join")

\* Mutant: the destructor shuts down only what is already closing.
NeedsShutdownLate == state = "CLOSING"
NeedsShutdown == state = "OPEN"

DestructorShutsDown ==
  /\ MayChange
  /\ NeedsShutdown
  /\ Stops("join_destroy")

(* Any other state: the members are destroyed, the thread among them. *)
DestructorOnly ==
  /\ MayChange
  /\ ~NeedsShutdown
  /\ IF joinable THEN Terminates("destructor")
     ELSE upc' = "gone" /\ UNCHANGED <<ppc, terminated>>
  /\ open' = {}
  /\ UNCHANGED <<state, clients, queue_ids, joinable, left, active, results, userVars,
                 in_q, conns, serverVars>>

(* disconnect puts an empty message into the queue of each connection. *)
Joins ==
  /\ Joining
  /\ ppc = "ended"
  /\ joinable' = FALSE
  /\ in_q' = [c \in 1..MaxConns |->
                IF c \in Range(clients) THEN Append(in_q[c], [kind |-> "stop", arg |-> 0])
                ELSE in_q[c]]
  /\ state' = "CLOSED"
  /\ upc' = IF upc = "join" THEN "idle" ELSE "gone"
  /\ open' = IF upc = "join" THEN open ELSE {}
  /\ UNCHANGED <<clients, queue_ids, terminated, left, active, results, ppc, userVars, conns,
                 serverVars>>

-----------------------------------------------------------------------------
(* The poll thread *)

PollWaits ==
  /\ ppc = "wait"
  /\ clients["POLL"] \in open
  /\ ppc' = "store"
  /\ UNCHANGED <<setupVars, active, results, upc, userVars, linkVars, serverVars>>

PollStores ==
  /\ ppc = "store"
  /\ ~Locked
  /\ state' = "OPEN"
  /\ ppc' = "activate"
  /\ UNCHANGED <<clients, queue_ids, joinable, terminated, left, active, results, upc,
                 userVars, linkVars, serverVars>>

PollActivates ==
  /\ ppc = "activate"
  /\ active' = TRUE
  /\ ppc' = "test"
  /\ UNCHANGED <<setupVars, results, upc, userVars, linkVars, serverVars>>

PollEnds ==
  /\ ppc = "test"
  /\ ~active
  /\ ppc' = "ended"
  /\ UNCHANGED <<setupVars, active, results, upc, userVars, linkVars, serverVars>>

PolledQueue == queue_ids["COMMAND"]

(* On a closed connection send_data throws and the loop tests again. *)
PollSends ==
  LET c == clients["POLL"] IN
  /\ ppc = "test"
  /\ active
  /\ c \in open
  /\ Len(requests[c]) < MaxStale
  /\ requests' = [requests EXCEPT ![c] = Append(@, [kind |-> "poll", arg |-> PolledQueue])]
  /\ ppc' = "read"
  /\ UNCHANGED <<setupVars, active, results, upc, userVars, linkVars, ids, running, queued>>

(* An error or an empty message throws; the loop catches and goes on. *)
PollReads ==
  LET c == clients["POLL"]
      m == Head(in_q[c])
  IN
  /\ ppc = "read"
  /\ in_q[c] # <<>>
  /\ in_q' = [in_q EXCEPT ![c] = Tail(@)]
  /\ results' = IF m.kind = "results" THEN results \cup m.arg ELSE results
  /\ ppc' = "test"
  /\ UNCHANGED <<setupVars, active, upc, userVars, conns, open, serverVars>>

PollReadFails ==
  /\ ppc = "read"
  /\ "timeouts" \in faults \/ clients["POLL"] \notin open
  /\ in_q[clients["POLL"]] = <<>>
  /\ ppc' = "test"
  /\ UNCHANGED <<setupVars, active, results, upc, userVars, linkVars, serverVars>>

-----------------------------------------------------------------------------
(* The server, and the network that may drop a connection. *)

Flushed(q) == [queued EXCEPT ![q] = {}]

ServerReplies(c) ==
  LET req == Head(requests[c])
      Reply(k, a) == in_q' = [in_q EXCEPT ![c] = Append(@, [kind |-> k, arg |-> a])]
  IN
  /\ c \in open
  /\ requests[c] # <<>>
  /\ requests' = [requests EXCEPT ![c] = Tail(@)]
  /\ \/ /\ req.kind = "run"
        /\ Reply("ack", req.arg)
        /\ running' = running \cup {<<req.arg, c>>}
        /\ UNCHANGED queued
     \/ /\ req.kind = "poll" /\ req.arg \in open
        /\ Reply("results", queued[req.arg])
        /\ queued' = Flushed(req.arg)
        /\ UNCHANGED running
     \/ /\ req.kind = "poll" /\ req.arg \notin open
        /\ Reply("error", 0)
        /\ UNCHANGED <<running, queued>>
  /\ UNCHANGED <<setupVars, active, results, upc, ppc, userVars, conns, open, ids>>

ServerFinishes(id, q) ==
  /\ <<id, q>> \in running
  /\ running' = running \ {<<id, q>>}
  /\ queued' = IF q \in open THEN [queued EXCEPT ![q] = @ \cup {id}] ELSE queued
  /\ UNCHANGED <<setupVars, active, results, upc, ppc, userVars, linkVars, ids, requests>>

ConnectionDrops(c) ==
  /\ "drops" \in faults
  /\ c \in open
  /\ open' = open \ {c}
  /\ requests' = [requests EXCEPT ![c] = <<>>]
  /\ queued' = [queued EXCEPT ![c] = {}]
  /\ UNCHANGED <<setupVars, active, results, upc, ppc, userVars, in_q, conns, ids, running>>

-----------------------------------------------------------------------------
Outcomes == {"polled", "late", "no_ack", "no_poll"}

Start == \/ StartBegins \/ StartThread
         \/ \E t \in Types : StartRefused(t) \/ \E o \in Outcomes : StartConnects(t, o)

SendCommand == SendRequest \/ ReadAck \/ ReadAckFails \/ GetResult \/ GetExpires

Ends == ShutdownBegins \/ DestructorShutsDown \/ DestructorOnly \/ Joins

PollThread == PollWaits \/ PollStores \/ PollActivates \/ PollEnds \/ PollSends
                \/ PollReads \/ PollReadFails

Server == \/ \E c \in 1..MaxConns : ServerReplies(c)
          \/ \E id \in 1..MaxIds, q \in 1..MaxConns : ServerFinishes(id, q)

(* The user calls nothing, or a bound of the model keeps it from going on. *)
Rests == /\ upc \in {"idle", "gone"} \/ conns = MaxConns \/ ids = MaxIds
         /\ ~Joining
         /\ UNCHANGED moving

Next ==
  /\ \/ Start \/ SendCommand \/ Ends \/ PollThread \/ Server
     \/ \E c \in 1..MaxConns : ConnectionDrops(c)
     \/ Rests
  /\ UNCHANGED faults

Spec == Init /\ [][Next]_vars

(* Both threads, the server's connections and its worker keep running; the   *)
(* user need not call anything.                                              *)
Fairness ==
  /\ WF_moving(PollThread)
  /\ \A c \in 1..MaxConns : WF_moving(ServerReplies(c))
  /\ \A id \in 1..MaxIds, q \in 1..MaxConns : WF_moving(ServerFinishes(id, q))
  /\ WF_moving(ReadAck \/ ReadAckFails \/ GetResult \/ Joins)

FairSpec == Spec /\ Fairness

-----------------------------------------------------------------------------
(* Properties *)

(* The state, the places of both threads and what they test keep their       *)
(* types; clients, queues and results refer to what was made before.         *)
TypeOK ==
  /\ faults \in Worlds
  /\ state \in {"NONE", "OPEN", "CLOSING", "CLOSED"}
  /\ clients \in [Types -> 0..conns] /\ queue_ids \in [Types -> 0..conns]
  /\ joinable \in BOOLEAN /\ active \in BOOLEAN
  /\ results \subseteq 1..ids
  /\ upc \in {"idle", "COMMAND", "POLL", "thread", "ack", "get", "join", "join_destroy", "gone"}
  /\ ppc \in {"none", "wait", "store", "activate", "test", "read", "ended", "dead"}
  /\ waiting \in 0..ids
  /\ open \subseteq 1..conns
  /\ terminated \in {"no", "start", "destructor"}

(* The map of results grows only by results whose get timed out, by results *)
(* of a handshake that were late, and by those whose ack is not read yet.   *)
ResultsAccounted ==
  results \subseteq
    left \cup expired \cup {own, waiting}
      \cup {m.arg : m \in {x \in UNION {ToSet(in_q[c]) : c \in 1..conns} : x.kind = "ack"}}

(* As long as no read times out, send_command returns the result of the     *)
(* command it sent.                                                         *)
OwnResult == "timeouts" \notin faults => answer[1] = answer[2]

(* A client that has answered a command before it is ended or restarted      *)
(* ends without std::terminate, and its poll thread ends before the members  *)
(* it uses are destroyed.                                                    *)
EndsCleanly ==
  "hurry" \notin faults =>
    terminated = "no" /\ (upc = "gone" => ppc \in {"none", "ended"})

(* poll_thread: "Repeatedly executes blocking poll command on the backend,   *)
(* until stop signal is given": shutdown returns.                            *)
ShutdownReturns == Joining ~> ~Joining

(* So it does for a user who has had an answer, which shows that the poll    *)
(* thread has set its active flag.                                           *)
PatientShutdownReturns == ("hurry" \notin faults /\ Joining) ~> ~Joining

=============================================================================
