------------------------ MODULE WebsocketServerProofs ------------------------
(***************************************************************************)
(* Proofs about WebsocketServer, for any number of sockets, connections    *)
(* and requests, any size of the executors' queues and any habits of the   *)
(* clients.  The invariant follows a connection through the io thread, its *)
(* executor and the worker: what each of them can be doing for a socket    *)
(* while the others are where they are, and where its requests are.        *)
(***************************************************************************)
EXTENDS WebsocketServer, FiniteSetTheorems, TLAPS

Phases == {"free", "handshake", "valid", "http", "open", "closing"}
Places == {"idle", "accept", "push", "close", "erase", "join", "http_close", "clearing", "clear",
           "clear_join", "undefined"}
PostKinds == {"send", "http", "interrupt", "state", "closeall"}
Items == {"work", "destroy"}
RequestKinds == {"run", "poll", "state", "shutdown", "block", "text"}
Requests == [s : Sockets, gen : Nat, kind : RequestKinds, queue : Sockets]
Steps == {"none", "idle", "polling", "posting", "ended"}
Posts == [kind : PostKinds, s : Sockets \cup {0}, req : Nat]

LinkTypes ==
  /\ habits \in Worlds
  /\ phase \in [Sockets -> Phases]
  /\ gen \in [Sockets -> 0..MaxOpens[habits]]
  /\ inbox \in [Sockets -> Seq(Nat)]
  /\ sent \in [Sockets -> Seq(Nat)]
  /\ got \in [Sockets -> Seq(Nat)]
  /\ reqs \in Seq(Requests)

EntryTypes ==
  /\ ws_conns \in SUBSET Sockets
  /\ buffer \in [Sockets -> Nat]
  /\ work \in [Sockets -> Seq(Items)]
  /\ serving \in [Sockets -> Nat]
  /\ epc \in [Sockets -> Steps]
  /\ posts \in Seq(Posts)
  /\ io \in [at : Places, s : Sockets \cup {0}]

WorkerTypes ==
  /\ builtins \in SUBSET (({"create", "destroy"} \X Sockets) \cup {<<"shutdown", 0>>})
  /\ cmds \in SUBSET Nat
  /\ wpc \in {"idle", "asking", "answered", "gone"}
  /\ queues \in SUBSET Sockets
  /\ results \in [Sockets -> SUBSET Nat]
  /\ late \in SUBSET Nat
  /\ owner \in {"running", "closing", "closed", "stopping", "destroyed", "gone", "crashed"}
  /\ signaled \in BOOLEAN

WTypes == LinkTypes /\ EntryTypes /\ WorkerTypes

-----------------------------------------------------------------------------
(* The io thread works for socket s, in one of the places P. *)
IoAt(P, s) == io.at \in P /\ io.s = s
Ending == {"erase", "join", "clear", "clear_join"}
Joining == {"join", "clear_join"}
Clearing == {"clearing", "clear", "clear_join"}
(* HTTP clients may leave: the exception of several properties. *)
Gone == {"leaves", "http"} \subseteq habits
(* The results of the queue that request r names are given to socket s, or   *)
(* none are.                                                                 *)
Gives(s, r) ==
  \/ polled' = polled
  \/ \E q \in Sockets : /\ q = reqs[r].queue
                        /\ polled' = polled \cup {<<x, q, gen[q], s>> : x \in results[q]}
NoWork(s) == \A i \in 1..Len(work[s]) : work[s][i] # "work"

(* An executor exists for an entry and while the io thread ends it; the last *)
(* item is there only for an executor that is being joined, and only that    *)
(* item ends one, unless it is idle.                                         *)
ExecutorInv(s) ==
  /\ Len(work[s]) <= ExecutorSize
  /\ epc[s] = "none" <=> s \notin ws_conns /\ ~IoAt(Ending, s)
  /\ epc[s] = "ended" /\ "idle" \notin habits => IoAt(Joining, s) /\ Len(work[s]) = 1
  /\ IoAt(Ending, s) => s \notin ws_conns
  /\ epc[s] # "none" =>
       \A i \in 1..Len(work[s]) : work[s][i] = "destroy" <=> i = Len(work[s]) /\ IoAt(Joining, s)
  /\ IoAt(Joining, s) => Len(work[s]) > 0

(* Which connections have an entry, and that only a shutdown closes them     *)
(* from this side.                                                           *)
PhaseInv(s) ==
  /\ s \in ws_conns => \/ phase[s] \in {"open", "http"}
                       \/ phase[s] = "valid" /\ IoAt({"accept"}, s)
                       \/ phase[s] = "closing" /\ io.at \in Clearing
  /\ phase[s] = "open" => s \in ws_conns \/ IoAt({"erase", "join"}, s)
  /\ phase[s] = "open" => io.at \notin Clearing
  /\ phase[s] = "http" => "http" \in habits
  /\ phase[s] \in {"handshake", "valid"} => Len(inbox[s]) = 0 /\ Len(sent[s]) = 0 /\ Len(got[s]) = 0
  /\ phase[s] = "closing" => owner # "running"

(* What the io thread knows of the socket it works for. *)
IoInv(s) ==
  /\ IoAt({"accept"}, s) => /\ s \in ws_conns /\ phase[s] \in {"valid", "http"}
                            /\ epc[s] \in {"idle", "ended"} /\ Len(work[s]) = 0
                            /\ phase[s] = "http" => Len(inbox[s]) > 0
  /\ IoAt({"push"}, s) => s \in ws_conns /\ phase[s] \in {"open", "http"} /\ buffer[s] # 0
  /\ IoAt({"close"}, s) => phase[s] \in {"open", "closing"} /\ Len(inbox[s]) > 0 /\ inbox[s][1] = 0
  /\ IoAt({"http_close"}, s) => s \in ws_conns /\ phase[s] = "http" /\ epc[s] = "posting"
  /\ IoAt({"erase", "join"}, s) => \/ phase[s] = "open" /\ Len(inbox[s]) > 0 /\ inbox[s][1] = 0
                                   \/ phase[s] = "http"
  /\ IoAt({"clear", "clear_join"}, s) => phase[s] \in {"http", "closing"}
  /\ IoAt({"undefined"}, s) => phase[s] # "free"

(* The requests of a connection that were not read, with or without the      *)
(* close frame, and those that were read and not served.                     *)
Parting(s) == \E i \in 1..Len(inbox[s]) : inbox[s][i] = 0
Unread(s) == IF Parting(s) THEN Len(inbox[s]) - 1 ELSE Len(inbox[s])
Undone(s) == IF IoAt(Joining, s) THEN Len(work[s]) - 1 ELSE Len(work[s])
Pushing(s) == IF IoAt({"push"}, s) THEN 1 ELSE 0
(* The executor has taken a request that has no answer yet. *)
Serving(s) == epc[s] \in {"posting", "polling"}
Posting(s) == IF Serving(s) THEN 1 ELSE 0

(* The inbox is the end of what was sent, then the close frame.              *)
MailInv(s) ==
  /\ \A i \in 1..Len(sent[s]) : /\ sent[s][i] \in 1..Len(reqs)
                                /\ reqs[sent[s][i]].s = s /\ reqs[sent[s][i]].gen = gen[s]
  /\ \A i \in 1..Len(inbox[s]) : inbox[s][i] \in 0..Len(reqs)
  /\ \A i \in 1..Len(inbox[s]) : inbox[s][i] = 0 => i = Len(inbox[s])
  /\ phase[s] # "free" => Unread(s) <= Len(sent[s])
  /\ phase[s] # "free" => \A i \in 1..Unread(s) : inbox[s][i] = sent[s][Len(sent[s]) - Unread(s) + i]

(* The buffer of an executor holds a request of the present connection, and  *)
(* so does what it serves while it waits for results.                        *)
BufferInv(s) ==
  /\ buffer[s] \in 0..Len(reqs)
  /\ epc[s] # "none" => phase[s] # "free"
  /\ epc[s] # "none" /\ buffer[s] # 0 => \E j \in 1..Len(sent[s]) : buffer[s] = sent[s][j]
  /\ epc[s] # "none" /\ ~NoWork(s) => buffer[s] # 0
  /\ epc[s] = "polling" => \E j \in 1..Len(sent[s]) : serving[s] = sent[s][j]
  /\ epc[s] = "polling" /\ phase[s] # "closing" =>
       \E j \in Len(got[s]) + 1..Len(sent[s]) : serving[s] = sent[s][j]

(* Each request of an open connection is in one place until it is answered;  *)
(* the buffer holds the last one that was read.                              *)
CountInv(s) ==
  phase[s] = "open" =>
    /\ Len(sent[s]) = Len(got[s]) + Unread(s) + Pushing(s) + Undone(s) + Posting(s)
    /\ Len(sent[s]) > Unread(s) => buffer[s] = sent[s][Len(sent[s]) - Unread(s)]
    /\ "pipelines" \notin habits => Len(sent[s]) <= Len(got[s]) + 1
    /\ "leaves" \notin habits /\ Parting(s) => Len(sent[s]) = Len(got[s])

(* An HTTP connection has one request. *)
HttpInv(s) ==
  phase[s] = "http" =>
    /\ Len(sent[s]) = 1 /\ Len(got[s]) <= 1
    /\ Len(inbox[s]) > 0 => /\ Len(inbox[s]) = 1 /\ inbox[s][1] # 0 /\ Len(got[s]) = 0
                            /\ IoAt({"accept"}, s) \/ epc[s] = "none"
    /\ IoAt({"push"}, s) => Len(work[s]) = 0 /\ ~Serving(s) /\ Len(got[s]) = 0
    /\ epc[s] # "none" =>
         \A i \in 1..Len(work[s]) : work[s][i] = "work" =>
           i = 1 /\ ~Serving(s) /\ ~IoAt({"push"}, s) /\ Len(got[s]) = 0
    /\ IoAt({"erase", "join", "http_close"}, s) => NoWork(s)
    /\ IoAt({"erase", "join"}, s) => ~Serving(s)

(* A queue is made in accept and destroyed in close. *)
QueueInv(s) ==
  /\ <<"create", s>> \in builtins => IoAt({"accept"}, s)
  /\ <<"destroy", s>> \in builtins => IoAt({"close", "http_close"}, s)
  /\ IoAt({"accept"}, s) => <<"create", s>> \in builtins \/ s \in queues
  /\ IoAt({"close", "http_close"}, s) => <<"destroy", s>> \in builtins \/ s \notin queues
  /\ IoAt({"erase", "join"}, s) => Gone \/ s \notin queues
  /\ phase[s] = "open" => s \in queues \/ IoAt({"close", "erase", "join"}, s)
  /\ s \in queues => \/ Gone \/ IoAt({"accept"}, s)
                     \/ phase[s] \in {"open", "closing"}
                     \/ phase[s] = "http" /\ Len(inbox[s]) = 0

(* No command of the socket is unfinished, but those that were when a queue  *)
(* was destroyed.                                                            *)
Settled(s) == \A c \in cmds : reqs[c].s = s => c \in late

(* A connection that ends has no unfinished commands but late ones. *)
LateInv(s) ==
  ~Gone =>
    /\ phase[s] \in {"free", "handshake"} => Settled(s)
    /\ IoAt({"close"}, s) => <<"destroy", s>> \in builtins \/ Settled(s) \/ Serving(s)
    /\ IoAt({"erase", "join"}, s) => Settled(s) \/ Serving(s)
    /\ IoAt({"http_close"}, s) => <<"destroy", s>> \in builtins \/ Settled(s)

(* Results in the queue are of the present connection or late. *)
ResultInv(s) ==
  /\ results[s] \subseteq 1..Len(reqs)
  /\ ~Gone => /\ s \notin queues => results[s] = {}
              /\ \A x \in results[s] : reqs[x].s = s /\ (x \in late \/ reqs[x].gen = gen[s])

(* AnswersOwn for one connection. *)
AnswersInv(s) ==
  \A i \in 1..Len(got[s]) :
    /\ i <= Len(sent[s])
    /\ \E j \in i..Len(sent[s]) : got[s][i] = sent[s][j]
    /\ "pipelines" \notin habits => got[s][i] = sent[s][i]

SocketInv(s) ==
  /\ ExecutorInv(s) /\ PhaseInv(s) /\ IoInv(s) /\ MailInv(s) /\ BufferInv(s) /\ CountInv(s)
  /\ HttpInv(s) /\ QueueInv(s) /\ LateInv(s) /\ ResultInv(s) /\ AnswersInv(s)

(* A posted answer finds its executor waiting for it and answers a request   *)
(* that has no answer yet.  A posted interrupt is the last thing that        *)
(* happens to an HTTP connection.                                            *)
Answers == {"send", "http"}
Own == {"send", "http", "interrupt"}

AnswerFine(p) ==
  p.kind \in Answers =>
    /\ epc[p.s] = "posting"
    /\ p.kind = "send" => phase[p.s] \in {"open", "closing"}
    /\ p.kind = "http" => phase[p.s] = "http" /\ ~IoAt({"http_close"}, p.s)
    /\ phase[p.s] # "closing" => \E j \in Len(got[p.s]) + 1..Len(sent[p.s]) : p.req = sent[p.s][j]

InterruptFine(p) ==
  p.kind = "interrupt" =>
    /\ phase[p.s] = "http" /\ Len(inbox[p.s]) = 0
    /\ epc[p.s] # "none" => ~Serving(p.s) /\ NoWork(p.s)
    /\ ~IoAt({"accept", "erase", "join", "push"}, p.s)
    /\ Gone \/ (p.s \notin queues /\ Settled(p.s))

PostInv ==
  \A i \in 1..Len(posts) :
    /\ posts[i].kind \in Own => posts[i].s \in Sockets
    /\ AnswerFine(posts[i]) /\ InterruptFine(posts[i])
    /\ posts[i].kind = "closeall" => owner # "running"

(* A connection has one posted function at a time. *)
OnePost ==
  \A i, j \in 1..Len(posts) :
    posts[i].kind \in Own /\ posts[j].kind \in Own /\ posts[i].s = posts[j].s => i = j

(* Habits explain what was asked for.  The io thread is busy for a socket,   *)
(* and only the destruction of the service ends the worker.                  *)
Asked(r) ==
  /\ r.kind = "state" => "asks" \in habits
  /\ r.kind = "shutdown" => "abrupt" \in habits
  /\ "shares" \notin habits => r.queue = r.s

HabitInv ==
  /\ io.at \in {"idle", "clearing"} \/ io.s \in Sockets
  /\ signaled => "abrupt" \in habits
  /\ io.at \in Clearing => owner # "running"
  /\ wpc = "asking" => "asks" \in habits
  /\ wpc = "gone" \/ <<"shutdown", 0>> \in builtins => owner # "running"
  /\ \A i \in 1..Len(reqs) : Asked(reqs[i])

(* Unfinished commands are of the present connection or late, and so were    *)
(* the results that were given.                                              *)
CommandInv ==
  /\ cmds \subseteq 1..Len(reqs)
  /\ ~Gone => \A c \in cmds : c \in late \/ reqs[c].gen = gen[reqs[c].s]
  /\ \A p \in polled : p[1] \in 1..Len(reqs)
  /\ ResultsOwn

(* The upgraded connections with an entry.  A connection that was validated  *)
(* has a place among them.                                                   *)
Upgraded == {s \in ws_conns : phase[s] # "http"}
Coming(s) == phase[s] \in {"handshake", "valid"}

LimitInv ==
  "overlaps" \notin habits =>
    /\ \A s, t \in Sockets : Coming(s) /\ Coming(t) => s = t
    /\ \A s \in Sockets : phase[s] = "valid" => Cardinality(Upgraded \ {s}) < MaxConnections
    /\ Cardinality(Upgraded) <= MaxConnections

(* The inductive invariant. *)
WInv ==
  /\ WTypes
  /\ \A s \in Sockets : SocketInv(s)
  /\ PostInv /\ OnePost /\ HabitInv /\ CommandInv /\ LimitInv

-----------------------------------------------------------------------------
(* q is p with one more element at the end, or without its first one.  Only  *)
(* socket s is different in g.                                               *)
Appended(p, q, e) == Len(q) = Len(p) + 1 /\ q[Len(p) + 1] = e /\ \A i \in 1..Len(p) : q[i] = p[i]
Dropped(p, q) == Len(q) = Len(p) - 1 /\ \A i \in 1..Len(p) - 1 : q[i] = p[i + 1]
Others(f, g, s) == \A t \in Sockets : t # s => g[t] = f[t]

(* Append adds its element at the end and keeps the rest. *)
LEMMA AppendIs ==
  ASSUME NEW S, NEW q \in Seq(S), NEW e
  PROVE  Appended(q, Append(q, e), e)
<1>1. q \in Seq(S \cup {e}) /\ e \in S \cup {e}
  OBVIOUS
<1> QED
  BY <1>1 DEF Appended

(* Tail drops the first element, Head returns it. *)
LEMMA TailIs ==
  ASSUME NEW S, NEW q \in Seq(S), q # <<>>
  PROVE  /\ Dropped(q, Tail(q)) /\ Len(q) > 0 /\ Len(q) \in Nat
         /\ Head(q) = q[1] /\ q[1] \in S /\ Tail(q) \in Seq(S)
<1>1. Len(q) \in Nat /\ Len(q) > 0
  OBVIOUS
<1>2. Head(q) = q[1] /\ q[1] \in S /\ Tail(q) \in Seq(S)
  BY <1>1
<1>3. Dropped(q, Tail(q))
  BY <1>1 DEF Dropped
<1> QED
  BY <1>1, <1>2, <1>3

(* The inductive invariant holds the types. *)
LEMMA TypesOf ==
  ASSUME WInv
  PROVE  LinkTypes /\ EntryTypes /\ WorkerTypes
BY DEF WInv, WTypes

(* Sets of sockets are finite. *)
LEMMA Finite ==
  ASSUME NEW A \in SUBSET Sockets
  PROVE  IsFiniteSet(A) /\ Cardinality(A) \in Nat
BY ServerAssumption, FS_Subset, FS_CardinalityType
(* The effect of ValidateHandler, variable by variable. *)
LEMMA ValidateHandlerDoes ==
  ASSUME WInv, NEW s \in Sockets, ValidateHandler(s)
  PROVE  /\ io.at = "idle"
         /\ phase[s] = "handshake"
         /\ phase'[s] \in {"free", "valid"}
         /\ phase'[s] = "valid" => Cardinality(ws_conns) < MaxConnections
         /\ Others(phase, phase', s)
         /\ UNCHANGED <<gen, inbox, reqs, sent, ws_conns, buffer, work, serving, epc, posts, io,
            builtins, cmds, wpc, queues, results, late, owner, signaled, got, polled>>
<1>t. LinkTypes /\ EntryTypes /\ WorkerTypes
  BY TypesOf
<1>1. Cardinality(ws_conns) \in Nat /\ MaxConnections \in Nat
  BY <1>t, Finite, ServerAssumption DEF EntryTypes
<1>2. ~Full => Cardinality(ws_conns) < MaxConnections
  BY <1>1 DEF Full
<1> QED
  BY <1>t, <1>2 DEF ValidateHandler, Idle, At, LinkTypes, EntryTypes, Others, linkVars, entryVars, workerVars

(* The effect of OpenHandler, variable by variable. *)
LEMMA OpenHandlerDoes ==
  ASSUME WInv, NEW s \in Sockets, OpenHandler(s)
  PROVE  /\ io.at = "idle"
         /\ phase[s] = "valid"
         /\ ws_conns' = ws_conns \cup {s}
         /\ buffer'[s] = 0
         /\ Others(buffer, buffer', s)
         /\ epc'[s] = "idle"
         /\ Others(epc, epc', s)
         /\ builtins' = builtins \cup {<<"create", s>>}
         /\ io'.at = "accept"
         /\ io'.s = s
         /\ Len(work'[s]) = 0
         /\ Others(work, work', s)
         /\ UNCHANGED <<phase, gen, inbox, reqs, sent, serving, posts, cmds, wpc, queues,
            results, late, owner, signaled, got, polled>>
<1>t. LinkTypes /\ EntryTypes /\ WorkerTypes
  BY TypesOf
<1> QED
  BY <1>t DEF OpenHandler, AddConnection, Idle, At, LinkTypes, EntryTypes, WorkerTypes, Others,
     linkVars, entryVars, workerVars

(* The effect of HttpHandler, variable by variable. *)
LEMMA HttpHandlerDoes ==
  ASSUME WInv, NEW s \in Sockets, HttpHandler(s)
  PROVE  /\ io.at = "idle"
         /\ phase[s] = "http"
         /\ inbox[s] # <<>>
         /\ s \notin ws_conns
         /\ ws_conns' = ws_conns \cup {s}
         /\ buffer'[s] = 0
         /\ Others(buffer, buffer', s)
         /\ epc'[s] = "idle"
         /\ Others(epc, epc', s)
         /\ builtins' = builtins \cup {<<"create", s>>}
         /\ io'.at = "accept"
         /\ io'.s = s
         /\ Len(work'[s]) = 0
         /\ Others(work, work', s)
         /\ Len(inbox[s]) > 0
         /\ UNCHANGED <<phase, gen, inbox, reqs, sent, serving, posts, cmds, wpc, queues,
            results, late, owner, signaled, got, polled>>
<1>t. LinkTypes /\ EntryTypes /\ WorkerTypes
  BY TypesOf
<1> USE DEF linkVars, entryVars, workerVars
<1>1. /\ io.at = "idle"
      /\ phase[s] = "http"
      /\ inbox[s] # <<>>
      /\ s \notin ws_conns
      /\ ws_conns' = ws_conns \cup {s}
      /\ buffer'[s] = 0
      /\ Others(buffer, buffer', s)
      /\ epc'[s] = "idle"
      /\ Others(epc, epc', s)
      /\ builtins' = builtins \cup {<<"create", s>>}
      /\ io'.at = "accept"
      /\ io'.s = s
      /\ Len(work'[s]) = 0
      /\ Others(work, work', s)
      /\ UNCHANGED <<phase, gen, inbox, reqs, sent, serving, posts, cmds, wpc, queues, results,
         late, owner, signaled, got, polled>>
  BY <1>t DEF HttpHandler, AddConnection, Idle, At, LinkTypes, EntryTypes, WorkerTypes, Others
<1>2. inbox[s] \in Seq(Nat)
  BY <1>t DEF LinkTypes
<1>3. /\ inbox[s] # <<>>
  BY <1>1
<1>4. /\ Len(inbox[s]) > 0
      /\ Head(inbox[s]) = inbox[s][1]
  BY <1>2, <1>3, TailIs
<1> QED
  BY <1>1, <1>2, <1>3, <1>4

(* The effect of AcceptReturns, variable by variable. *)
LEMMA AcceptReturnsDoes ==
  ASSUME WInv, NEW s \in Sockets, AcceptReturns(s)
  PROVE  /\ io.at = "accept"
         /\ io.s = s
         /\ <<"create", s>> \notin builtins
         /\ phase[s] = "http" =>
              /\ UNCHANGED phase
              /\ Others(buffer, buffer', s)
              /\ Others(inbox, inbox', s)
              /\ io'.at = "push"
              /\ io'.s = s
              /\ Len(inbox[s]) > 0
              /\ buffer'[s] = inbox[s][1]
              /\ Dropped(inbox[s], inbox'[s])
         /\ phase[s] # "http" =>
              /\ UNCHANGED <<buffer, inbox>>
              /\ phase'[s] = "open"
              /\ Others(phase, phase', s)
              /\ io'.at = "idle"
         /\ UNCHANGED <<gen, reqs, sent, ws_conns, work, serving, epc, posts, builtins, cmds,
            wpc, queues, results, late, owner, signaled, got, polled>>
<1>t. LinkTypes /\ EntryTypes /\ WorkerTypes
  BY TypesOf
<1> USE DEF linkVars, entryVars, workerVars
<1>1. /\ io.at = "accept"
      /\ io.s = s
      /\ <<"create", s>> \notin builtins
      /\ phase[s] = "http" =>
           /\ UNCHANGED phase
           /\ Others(buffer, buffer', s)
           /\ Others(inbox, inbox', s)
           /\ io'.at = "push"
           /\ io'.s = s
      /\ phase[s] # "http" =>
           /\ UNCHANGED <<buffer, inbox>>
           /\ phase'[s] = "open"
           /\ Others(phase, phase', s)
           /\ io'.at = "idle"
      /\ UNCHANGED <<gen, reqs, sent, ws_conns, work, serving, epc, posts, builtins, cmds, wpc,
         queues, results, late, owner, signaled, got, polled>>
  BY <1>t DEF AcceptReturns, StoresRequest, Idle, At, LinkTypes, EntryTypes, WorkerTypes, Others
<1>2. inbox[s] \in Seq(Nat)
  BY <1>t DEF LinkTypes
<1>3. inbox[s] # <<>> \/ phase[s] # "http"
  <2>1. phase[s] = "http" => Len(inbox[s]) > 0
    BY <1>1 DEF WInv, SocketInv, IoInv, IoAt
  <2> QED
    BY <2>1
<1>4. phase[s] = "http" => inbox'[s] = Tail(inbox[s]) /\ buffer'[s] = Head(inbox[s])
  BY <1>t DEF AcceptReturns, StoresRequest, Idle, At, LinkTypes, EntryTypes
<1>5. phase[s] = "http" => Dropped(inbox[s], inbox'[s]) /\ Len(inbox[s]) > 0 /\ buffer'[s] = inbox[s][1]
  BY <1>2, <1>3, <1>4, TailIs
<1> QED
  BY <1>1, <1>2, <1>5

(* The effect of MessageHandler, variable by variable. *)
LEMMA MessageHandlerDoes ==
  ASSUME WInv, NEW s \in Sockets, MessageHandler(s)
  PROVE  /\ io.at = "idle"
         /\ phase[s] = "open"
         /\ inbox[s] # <<>>
         /\ Others(buffer, buffer', s)
         /\ Others(inbox, inbox', s)
         /\ io'.at = "push"
         /\ io'.s = s
         /\ Len(inbox[s]) > 0
         /\ buffer'[s] = inbox[s][1]
         /\ Dropped(inbox[s], inbox'[s])
         /\ inbox[s][1] # 0
         /\ UNCHANGED <<phase, gen, reqs, sent, ws_conns, work, serving, epc, posts, builtins,
            cmds, wpc, queues, results, late, owner, signaled, got, polled>>
<1>t. LinkTypes /\ EntryTypes /\ WorkerTypes
  BY TypesOf
<1> USE DEF linkVars, entryVars, workerVars
<1>1. /\ io.at = "idle"
      /\ phase[s] = "open"
      /\ inbox[s] # <<>>
      /\ Others(buffer, buffer', s)
      /\ Others(inbox, inbox', s)
      /\ io'.at = "push"
      /\ io'.s = s
      /\ UNCHANGED <<phase, gen, reqs, sent, ws_conns, work, serving, epc, posts, builtins,
         cmds, wpc, queues, results, late, owner, signaled, got, polled>>
  BY <1>t DEF MessageHandler, StoresRequest, Idle, At, LinkTypes, EntryTypes, WorkerTypes, Others
<1>2. inbox[s] \in Seq(Nat)
  BY <1>t DEF LinkTypes
<1>3. /\ inbox[s] # <<>>
      /\ inbox'[s] = Tail(inbox[s])
      /\ Head(inbox[s]) # 0
      /\ buffer'[s] = Head(inbox[s])
  BY <1>t DEF MessageHandler, StoresRequest, Idle, At, LinkTypes, EntryTypes
<1>4. /\ Len(inbox[s]) > 0
      /\ Dropped(inbox[s], inbox'[s])
      /\ inbox[s][1] # 0
      /\ buffer'[s] = inbox[s][1]
      /\ Head(inbox[s]) = inbox[s][1]
  BY <1>2, <1>3, TailIs
<1> QED
  BY <1>1, <1>2, <1>3, <1>4

(* The effect of PushWork, variable by variable. *)
LEMMA PushWorkDoes ==
  ASSUME WInv, NEW s \in Sockets, PushWork(s)
  PROVE  /\ io.at = "push"
         /\ io.s = s
         /\ Len(work[s]) < ExecutorSize
         /\ Others(work, work', s)
         /\ io'.at = "idle"
         /\ Appended(work[s], work'[s], "work")
         /\ UNCHANGED <<phase, gen, inbox, reqs, sent, ws_conns, buffer, serving, epc, posts,
            builtins, cmds, wpc, queues, results, late, owner, signaled, got, polled>>
<1>t. LinkTypes /\ EntryTypes /\ WorkerTypes
  BY TypesOf
<1> USE DEF linkVars, entryVars, workerVars
<1>1. /\ io.at = "push"
      /\ io.s = s
      /\ Len(work[s]) < ExecutorSize
      /\ Others(work, work', s)
      /\ io'.at = "idle"
      /\ UNCHANGED <<phase, gen, inbox, reqs, sent, ws_conns, buffer, serving, epc, posts,
         builtins, cmds, wpc, queues, results, late, owner, signaled, got, polled>>
  BY <1>t DEF PushWork, Room, Idle, At, LinkTypes, EntryTypes, WorkerTypes, Others
<1>2. work[s] \in Seq(Items)
  BY <1>t DEF EntryTypes
<1>3. work'[s] = Append(work[s], "work")
  BY <1>t DEF PushWork, Room, Idle, At, LinkTypes, EntryTypes
<1>4. Appended(work[s], work'[s], "work")
  BY <1>2, <1>3, AppendIs
<1> QED
  BY <1>1, <1>2, <1>4

(* The effect of CloseHandler, variable by variable. *)
LEMMA CloseHandlerDoes ==
  ASSUME WInv, NEW s \in Sockets, CloseHandler(s)
  PROVE  /\ io.at = "idle"
         /\ phase[s] \in {"open", "closing"}
         /\ inbox[s] # <<>>
         /\ builtins' = builtins \cup {<<"destroy", s>>}
         /\ io'.at = "close"
         /\ io'.s = s
         /\ Len(inbox[s]) > 0
         /\ inbox[s][1] = 0
         /\ UNCHANGED <<phase, gen, inbox, reqs, sent, ws_conns, buffer, work, serving, epc,
            posts, cmds, wpc, queues, results, late, owner, signaled, got, polled>>
<1>t. LinkTypes /\ EntryTypes /\ WorkerTypes
  BY TypesOf
<1> USE DEF linkVars, entryVars, workerVars
<1>1. /\ io.at = "idle"
      /\ phase[s] \in {"open", "closing"}
      /\ inbox[s] # <<>>
      /\ builtins' = builtins \cup {<<"destroy", s>>}
      /\ io'.at = "close"
      /\ io'.s = s
      /\ UNCHANGED <<phase, gen, inbox, reqs, sent, ws_conns, buffer, work, serving, epc, posts,
         cmds, wpc, queues, results, late, owner, signaled, got, polled>>
  BY <1>t DEF CloseHandler, Idle, At, LinkTypes, EntryTypes, WorkerTypes, Others
<1>2. inbox[s] \in Seq(Nat)
  BY <1>t DEF LinkTypes
<1>3. /\ inbox[s] # <<>>
      /\ Head(inbox[s]) = 0
  BY <1>t DEF CloseHandler, Idle, At, LinkTypes, EntryTypes
<1>4. /\ Len(inbox[s]) > 0
      /\ inbox[s][1] = 0
      /\ Head(inbox[s]) = inbox[s][1]
  BY <1>2, <1>3, TailIs
<1> QED
  BY <1>1, <1>2, <1>3, <1>4

(* The effect of CloseReturns, variable by variable. *)
LEMMA CloseReturnsDoes ==
  ASSUME WInv, NEW s \in Sockets, CloseReturns(s)
  PROVE  /\ io.at = "close"
         /\ io.s = s
         /\ <<"destroy", s>> \notin builtins
         /\ s \in ws_conns =>
              /\ UNCHANGED phase
              /\ ws_conns' = ws_conns \ {s}
              /\ io'.at = "erase"
              /\ io'.s = s
         /\ s \notin ws_conns =>
              /\ UNCHANGED ws_conns
              /\ io'.at = "idle"
              /\ phase'[s] = "free"
              /\ Others(phase, phase', s)
         /\ UNCHANGED <<gen, inbox, reqs, sent, buffer, work, serving, epc, posts, builtins,
            cmds, wpc, queues, results, late, owner, signaled, got, polled>>
<1>t. LinkTypes /\ EntryTypes /\ WorkerTypes
  BY TypesOf
<1> QED
  BY <1>t DEF CloseReturns, Erases, Idle, At, LinkTypes, EntryTypes, WorkerTypes, Others,
     linkVars, entryVars, workerVars

(* The effect of StopsExecutor, variable by variable. *)
LEMMA StopsExecutorDoes ==
  ASSUME WInv, NEW s \in Sockets, StopsExecutor(s)
  PROVE  /\ io.at \in {"erase", "clear"}
         /\ io.s = s
         /\ Len(work[s]) < ExecutorSize
         /\ Others(work, work', s)
         /\ io'.s = s
         /\ io.at = "erase" => io'.at = "join"
         /\ io.at = "clear" => io'.at = "clear_join"
         /\ Appended(work[s], work'[s], "destroy")
         /\ UNCHANGED <<phase, gen, inbox, reqs, sent, ws_conns, buffer, serving, epc, posts,
            builtins, cmds, wpc, queues, results, late, owner, signaled, got, polled>>
<1>t. LinkTypes /\ EntryTypes /\ WorkerTypes
  BY TypesOf
<1> USE DEF linkVars, entryVars, workerVars
<1>1. /\ io.at \in {"erase", "clear"}
      /\ io.s = s
      /\ Len(work[s]) < ExecutorSize
      /\ Others(work, work', s)
      /\ io'.s = s
      /\ io.at = "erase" => io'.at = "join"
      /\ io.at = "clear" => io'.at = "clear_join"
      /\ UNCHANGED <<phase, gen, inbox, reqs, sent, ws_conns, buffer, serving, epc, posts,
         builtins, cmds, wpc, queues, results, late, owner, signaled, got, polled>>
  BY <1>t DEF StopsExecutor, Room, At, LinkTypes, EntryTypes, WorkerTypes, Others
<1>2. work[s] \in Seq(Items)
  BY <1>t DEF EntryTypes
<1>3. work'[s] = Append(work[s], "destroy")
  BY <1>t DEF StopsExecutor, Room, At, LinkTypes, EntryTypes
<1>4. Appended(work[s], work'[s], "destroy")
  BY <1>2, <1>3, AppendIs
<1> QED
  BY <1>1, <1>2, <1>4

(* The effect of JoinsExecutor, variable by variable. *)
LEMMA JoinsExecutorDoes ==
  ASSUME WInv, NEW s \in Sockets, JoinsExecutor(s)
  PROVE  /\ io.at = "join"
         /\ io.s = s
         /\ epc[s] = "ended"
         /\ epc'[s] = "none"
         /\ Others(epc, epc', s)
         /\ phase'[s] = "free"
         /\ Others(phase, phase', s)
         /\ io'.at = "idle"
         /\ UNCHANGED <<gen, inbox, reqs, sent, ws_conns, buffer, work, serving, posts,
            builtins, cmds, wpc, queues, results, late, owner, signaled, got, polled>>
<1>t. LinkTypes /\ EntryTypes /\ WorkerTypes
  BY TypesOf
<1> QED
  BY <1>t DEF JoinsExecutor, Idle, At, LinkTypes, EntryTypes, WorkerTypes, Others,
     linkVars, entryVars, workerVars

(* The effect of PostSends, variable by variable. *)
LEMMA PostSendsDoes ==
  ASSUME WInv, NEW s \in Sockets, PostSends(s)
  PROVE  /\ io.at = "idle"
         /\ epc'[s] = "idle"
         /\ Others(epc, epc', s)
         /\ Others(got, got', s)
         /\ phase[s] # "open" => got'[s] = got[s]
         /\ Len(posts) > 0
         /\ posts[1].kind = "send"
         /\ posts[1].s = s
         /\ Dropped(posts, posts')
         /\ phase[s] = "open" => Appended(got[s], got'[s], posts[1].req)
         /\ UNCHANGED <<phase, gen, inbox, reqs, sent, ws_conns, buffer, work, serving, io,
            builtins, cmds, wpc, queues, results, late, owner, signaled, polled>>
<1>t. LinkTypes /\ EntryTypes /\ WorkerTypes
  BY TypesOf
<1> USE DEF linkVars, entryVars, workerVars
<1>1. /\ io.at = "idle"
      /\ epc'[s] = "idle"
      /\ Others(epc, epc', s)
      /\ Others(got, got', s)
      /\ phase[s] # "open" => got'[s] = got[s]
      /\ UNCHANGED <<phase, gen, inbox, reqs, sent, ws_conns, buffer, work, serving, io,
         builtins, cmds, wpc, queues, results, late, owner, signaled, polled>>
  BY <1>t DEF PostSends, Posted, Idle, LinkTypes, EntryTypes, WorkerTypes, Others
<1>2. posts \in Seq(Posts)
  BY <1>t DEF EntryTypes
<1>3. /\ posts # <<>>
      /\ posts' = Tail(posts)
      /\ Head(posts).kind = "send"
      /\ Head(posts).s = s
  BY <1>t DEF PostSends, Posted, Idle, LinkTypes, EntryTypes
<1>4. /\ Len(posts) > 0
      /\ posts[1].kind = "send"
      /\ posts[1].s = s
      /\ Dropped(posts, posts')
      /\ Head(posts) = posts[1]
  BY <1>2, <1>3, TailIs
<1>5. got[s] \in Seq(Nat)
  BY <1>t DEF LinkTypes
<1>6. phase[s] = "open" => got'[s] = Append(got[s], Head(posts).req)
  BY <1>t DEF PostSends, Posted, Idle, LinkTypes, EntryTypes
<1>7. phase[s] = "open" => Appended(got[s], got'[s], Head(posts).req)
  BY <1>5, <1>6, AppendIs
<1> QED
  BY <1>1, <1>2, <1>3, <1>4, <1>5, <1>7

(* The effect of PostSendsHttp, variable by variable. *)
LEMMA PostSendsHttpDoes ==
  ASSUME WInv, NEW s \in Sockets, PostSendsHttp(s)
  PROVE  /\ io.at = "idle"
         /\ builtins' = builtins \cup {<<"destroy", s>>}
         /\ Others(got, got', s)
         /\ io'.at = "http_close"
         /\ io'.s = s
         /\ Len(posts) > 0
         /\ posts[1].kind = "http"
         /\ posts[1].s = s
         /\ Dropped(posts, posts')
         /\ Appended(got[s], got'[s], posts[1].req)
         /\ UNCHANGED <<phase, gen, inbox, reqs, sent, ws_conns, buffer, work, serving, epc,
            cmds, wpc, queues, results, late, owner, signaled, polled>>
<1>t. LinkTypes /\ EntryTypes /\ WorkerTypes
  BY TypesOf
<1> USE DEF linkVars, entryVars, workerVars
<1>1. /\ io.at = "idle"
      /\ builtins' = builtins \cup {<<"destroy", s>>}
      /\ Others(got, got', s)
      /\ io'.at = "http_close"
      /\ io'.s = s
      /\ UNCHANGED <<phase, gen, inbox, reqs, sent, ws_conns, buffer, work, serving, epc, cmds,
         wpc, queues, results, late, owner, signaled, polled>>
  BY <1>t DEF PostSendsHttp, Posted, Idle, At, LinkTypes, EntryTypes, WorkerTypes, Others
<1>2. posts \in Seq(Posts)
  BY <1>t DEF EntryTypes
<1>3. /\ posts # <<>>
      /\ posts' = Tail(posts)
      /\ Head(posts).kind = "http"
      /\ Head(posts).s = s
  BY <1>t DEF PostSendsHttp, Posted, Idle, At, LinkTypes, EntryTypes
<1>4. /\ Len(posts) > 0
      /\ posts[1].kind = "http"
      /\ posts[1].s = s
      /\ Dropped(posts, posts')
      /\ Head(posts) = posts[1]
  BY <1>2, <1>3, TailIs
<1>5. got[s] \in Seq(Nat)
  BY <1>t DEF LinkTypes
<1>6. got'[s] = Append(got[s], Head(posts).req)
  BY <1>t DEF PostSendsHttp, Posted, Idle, At, LinkTypes, EntryTypes
<1>7. Appended(got[s], got'[s], Head(posts).req)
  BY <1>5, <1>6, AppendIs
<1> QED
  BY <1>1, <1>2, <1>3, <1>4, <1>5, <1>7

(* The effect of PostHttpThrows, variable by variable. *)
LEMMA PostHttpThrowsDoes ==
  ASSUME WInv, NEW s \in Sockets, PostHttpThrows(s)
  PROVE  /\ io.at = "idle"
         /\ "leaves" \in habits
         /\ epc'[s] = "idle"
         /\ Others(epc, epc', s)
         /\ Len(posts) > 0
         /\ posts[1].kind = "http"
         /\ posts[1].s = s
         /\ Len(posts) > 0
         /\ Len(posts') = Len(posts)
         /\ \A i \in 1..Len(posts) - 1 : posts'[i] = posts[i + 1]
         /\ posts'[Len(posts)] = [kind |-> "interrupt", s |-> s, req |-> 0]
         /\ UNCHANGED <<phase, gen, inbox, reqs, sent, ws_conns, buffer, work, serving, io,
            builtins, cmds, wpc, queues, results, late, owner, signaled, got, polled>>
<1>t. LinkTypes /\ EntryTypes /\ WorkerTypes
  BY TypesOf
<1> USE DEF linkVars, entryVars, workerVars
<1>1. /\ io.at = "idle"
      /\ "leaves" \in habits
      /\ epc'[s] = "idle"
      /\ Others(epc, epc', s)
      /\ UNCHANGED <<phase, gen, inbox, reqs, sent, ws_conns, buffer, work, serving, io,
         builtins, cmds, wpc, queues, results, late, owner, signaled, got, polled>>
  BY <1>t DEF PostHttpThrows, Posted, Idle, Interrupts, LinkTypes, EntryTypes, WorkerTypes, Others
<1>2. /\ posts # <<>> /\ Head(posts).kind = "http" /\ Head(posts).s = s
      /\ posts' = Append(Tail(posts), [kind |-> "interrupt", s |-> s, req |-> 0])
  BY DEF PostHttpThrows, Posted, Interrupts
<1>3. posts \in Seq(Posts)
  BY <1>t DEF EntryTypes
<1>4. Dropped(posts, Tail(posts)) /\ Head(posts) = posts[1] /\ Len(posts) > 0 /\ Tail(posts) \in Seq(Posts)
  BY <1>2, <1>3, TailIs
<1>5. Appended(Tail(posts), posts', [kind |-> "interrupt", s |-> s, req |-> 0])
  BY <1>2, <1>4, AppendIs
<1>6. Len(posts) \in Nat
  BY <1>3
<1>7. /\ Len(posts') = Len(posts) /\ posts'[Len(posts)] = [kind |-> "interrupt", s |-> s, req |-> 0]
      /\ \A i \in 1..Len(posts) - 1 : posts'[i] = posts[i + 1]
  BY <1>4, <1>5, <1>6 DEF Appended, Dropped
<1> QED
  BY <1>1, <1>2, <1>4, <1>7

(* The effect of HttpCloseReturns, variable by variable. *)
LEMMA HttpCloseReturnsDoes ==
  ASSUME WInv, NEW s \in Sockets, HttpCloseReturns(s)
  PROVE  /\ io.at = "http_close"
         /\ io.s = s
         /\ <<"destroy", s>> \notin builtins
         /\ epc'[s] = "idle"
         /\ Others(epc, epc', s)
         /\ io'.at = "idle"
         /\ Appended(posts, posts', [kind |-> "interrupt", s |-> s, req |-> 0])
         /\ UNCHANGED <<phase, gen, inbox, reqs, sent, ws_conns, buffer, work, serving,
            builtins, cmds, wpc, queues, results, late, owner, signaled, got, polled>>
<1>t. LinkTypes /\ EntryTypes /\ WorkerTypes
  BY TypesOf
<1> USE DEF linkVars, entryVars, workerVars
<1>1. /\ io.at = "http_close"
      /\ io.s = s
      /\ <<"destroy", s>> \notin builtins
      /\ epc'[s] = "idle"
      /\ Others(epc, epc', s)
      /\ io'.at = "idle"
      /\ UNCHANGED <<phase, gen, inbox, reqs, sent, ws_conns, buffer, work, serving, builtins,
         cmds, wpc, queues, results, late, owner, signaled, got, polled>>
  BY <1>t DEF HttpCloseReturns, HttpInterrupts, Idle, At, LinkTypes, EntryTypes, WorkerTypes, Others
<1>2. posts \in Seq(Posts)
  BY <1>t DEF EntryTypes
<1>3. posts' = Append(posts, [kind |-> "interrupt", s |-> s, req |-> 0])
  BY <1>t DEF HttpCloseReturns, HttpInterrupts, Idle, At, LinkTypes, EntryTypes
<1>4. Appended(posts, posts', [kind |-> "interrupt", s |-> s, req |-> 0])
  BY <1>2, <1>3, AppendIs
<1> QED
  BY <1>1, <1>2, <1>4

(* The effect of InterruptHandler, variable by variable. *)
LEMMA InterruptHandlerDoes ==
  ASSUME WInv, NEW s \in Sockets, InterruptHandler(s)
  PROVE  /\ io.at = "idle"
         /\ Len(posts) > 0
         /\ posts[1].kind = "interrupt"
         /\ posts[1].s = s
         /\ Dropped(posts, posts')
         /\ s \in ws_conns =>
              /\ UNCHANGED phase
              /\ ws_conns' = ws_conns \ {s}
              /\ io'.at = "erase"
              /\ io'.s = s
         /\ s \notin ws_conns =>
              /\ UNCHANGED <<ws_conns, io>>
              /\ phase'[s] = "free"
              /\ Others(phase, phase', s)
         /\ UNCHANGED <<gen, inbox, reqs, sent, buffer, work, serving, epc, builtins, cmds, wpc,
            queues, results, late, owner, signaled, got, polled>>
<1>t. LinkTypes /\ EntryTypes /\ WorkerTypes
  BY TypesOf
<1> USE DEF linkVars, entryVars, workerVars
<1>1. /\ io.at = "idle"
      /\ s \in ws_conns =>
           /\ UNCHANGED phase
           /\ ws_conns' = ws_conns \ {s}
           /\ io'.at = "erase"
           /\ io'.s = s
      /\ s \notin ws_conns =>
           /\ UNCHANGED <<ws_conns, io>>
           /\ phase'[s] = "free"
           /\ Others(phase, phase', s)
      /\ UNCHANGED <<gen, inbox, reqs, sent, buffer, work, serving, epc, builtins, cmds, wpc,
         queues, results, late, owner, signaled, got, polled>>
  BY <1>t DEF InterruptHandler, Posted, Erases, Idle, At, LinkTypes, EntryTypes, WorkerTypes, Others
<1>2. posts \in Seq(Posts)
  BY <1>t DEF EntryTypes
<1>3. /\ posts # <<>>
      /\ posts' = Tail(posts)
      /\ Head(posts).kind = "interrupt"
      /\ Head(posts).s = s
  BY <1>t DEF InterruptHandler, Posted, Erases, Idle, At, LinkTypes, EntryTypes
<1>4. /\ Len(posts) > 0
      /\ posts[1].kind = "interrupt"
      /\ posts[1].s = s
      /\ Dropped(posts, posts')
      /\ Head(posts) = posts[1]
  BY <1>2, <1>3, TailIs
<1> QED
  BY <1>1, <1>2, <1>3, <1>4

(* The effect of ClearTakes, variable by variable. *)
LEMMA ClearTakesDoes ==
  ASSUME WInv, NEW s \in Sockets, ClearTakes(s)
  PROVE  /\ io.at = "clearing"
         /\ s \in ws_conns
         /\ ws_conns' = ws_conns \ {s}
         /\ io'.at = "clear"
         /\ io'.s = s
         /\ UNCHANGED <<phase, gen, inbox, reqs, sent, buffer, work, serving, epc, posts,
            builtins, cmds, wpc, queues, results, late, owner, signaled, got, polled>>
<1>t. LinkTypes /\ EntryTypes /\ WorkerTypes
  BY TypesOf
<1> QED
  BY <1>t DEF ClearTakes, Erases, At, LinkTypes, EntryTypes, WorkerTypes, Others,
     linkVars, entryVars, workerVars

(* The effect of ClearJoins, variable by variable. *)
LEMMA ClearJoinsDoes ==
  ASSUME WInv, NEW s \in Sockets, ClearJoins(s)
  PROVE  /\ io.at = "clear_join"
         /\ io.s = s
         /\ epc[s] = "ended"
         /\ epc'[s] = "none"
         /\ Others(epc, epc', s)
         /\ io'.at = "clearing"
         /\ UNCHANGED <<phase, gen, inbox, reqs, sent, ws_conns, buffer, work, serving, posts,
            builtins, cmds, wpc, queues, results, late, owner, signaled, got, polled>>
<1>t. LinkTypes /\ EntryTypes /\ WorkerTypes
  BY TypesOf
<1> QED
  BY <1>t DEF ClearJoins, At, LinkTypes, EntryTypes, WorkerTypes, Others,
     linkVars, entryVars, workerVars

(* The effect of UsesDestroyed, variable by variable. *)
LEMMA UsesDestroyedDoes ==
  ASSUME WInv, NEW s \in Sockets, UsesDestroyed(s)
  PROVE  /\ io.at = "idle"
         /\ owner = "destroyed"
         /\ phase[s] # "free"
         /\ owner' \in {"crashed", "destroyed"}
         /\ io'.at = "undefined"
         /\ io'.s = s
         /\ UNCHANGED <<phase, gen, inbox, reqs, sent, ws_conns, buffer, work, serving, epc,
            posts, builtins, cmds, wpc, queues, results, late, signaled, got, polled>>
<1>t. LinkTypes /\ EntryTypes /\ WorkerTypes
  BY TypesOf
<1> QED
  BY <1>t DEF UsesDestroyed, Idle, At, LinkTypes, EntryTypes, WorkerTypes, Others,
     linkVars, entryVars, workerVars

(* The effect of PostReadsState, variable by variable. *)
LEMMA PostReadsStateDoes ==
  ASSUME WInv, PostReadsState
  PROVE  /\ io.at = "idle"
         /\ wpc' = "answered"
         /\ Dropped(posts, posts')
         /\ Len(posts) > 0
         /\ UNCHANGED <<phase, gen, inbox, reqs, sent, ws_conns, buffer, work, serving, epc, io,
            builtins, cmds, queues, results, late, owner, signaled, got, polled>>
<1>t. LinkTypes /\ EntryTypes /\ WorkerTypes
  BY TypesOf
<1> USE DEF linkVars, entryVars, workerVars
<1>1. /\ io.at = "idle"
      /\ wpc' = "answered"
      /\ UNCHANGED <<phase, gen, inbox, reqs, sent, ws_conns, buffer, work, serving, epc, io,
         builtins, cmds, queues, results, late, owner, signaled, got, polled>>
  BY <1>t DEF PostReadsState, Posted, Idle, LinkTypes, EntryTypes, WorkerTypes, Others
<1>2. posts \in Seq(Posts)
  BY <1>t DEF EntryTypes
<1>3. /\ posts # <<>>
      /\ posts' = Tail(posts)
  BY <1>t DEF PostReadsState, Posted, Idle, LinkTypes, EntryTypes
<1>4. /\ Dropped(posts, posts')
      /\ Len(posts) > 0
      /\ Head(posts) = posts[1]
  BY <1>2, <1>3, TailIs
<1> QED
  BY <1>1, <1>2, <1>3, <1>4

(* The effect of PostClosesAll, variable by variable. *)
LEMMA PostClosesAllDoes ==
  ASSUME WInv, PostClosesAll
  PROVE  /\ io.at = "idle"
         /\ io'.at = "clearing"
         /\ \A t \in Sockets : phase'[t] = IF t \in ws_conns /\ phase[t] = "open" THEN "closing"
            ELSE phase[t]
         /\ Len(posts) > 0
         /\ posts[1].kind = "closeall"
         /\ Dropped(posts, posts')
         /\ UNCHANGED <<gen, inbox, reqs, sent, ws_conns, buffer, work, serving, epc, builtins,
            cmds, wpc, queues, results, late, owner, signaled, got, polled>>
<1>t. LinkTypes /\ EntryTypes /\ WorkerTypes
  BY TypesOf
<1> USE DEF linkVars, entryVars, workerVars
<1>1. /\ io.at = "idle"
      /\ io'.at = "clearing"
      /\ \A t \in Sockets : phase'[t] = IF t \in ws_conns /\ phase[t] = "open" THEN "closing"
         ELSE phase[t]
      /\ UNCHANGED <<gen, inbox, reqs, sent, ws_conns, buffer, work, serving, epc, builtins,
         cmds, wpc, queues, results, late, owner, signaled, got, polled>>
  BY <1>t DEF PostClosesAll, Posted, Idle, At, LinkTypes, EntryTypes, WorkerTypes, Others
<1>2. posts \in Seq(Posts)
  BY <1>t DEF EntryTypes
<1>3. /\ posts # <<>>
      /\ posts' = Tail(posts)
      /\ Head(posts).kind = "closeall"
  BY <1>t DEF PostClosesAll, Posted, Idle, At, LinkTypes, EntryTypes
<1>4. /\ Len(posts) > 0
      /\ posts[1].kind = "closeall"
      /\ Dropped(posts, posts')
      /\ Head(posts) = posts[1]
  BY <1>2, <1>3, TailIs
<1> QED
  BY <1>1, <1>2, <1>3, <1>4

(* The effect of ClearEnds, variable by variable. *)
LEMMA ClearEndsDoes ==
  ASSUME WInv, ClearEnds
  PROVE  /\ io.at = "clearing"
         /\ ws_conns = {}
         /\ owner' = "closed"
         /\ io'.at = "idle"
         /\ UNCHANGED <<phase, gen, inbox, reqs, sent, ws_conns, buffer, work, serving, epc,
            posts, builtins, cmds, wpc, queues, results, late, signaled, got, polled>>
<1>t. LinkTypes /\ EntryTypes /\ WorkerTypes
  BY TypesOf
<1> QED
  BY <1>t DEF ClearEnds, Idle, At, LinkTypes, EntryTypes, WorkerTypes, Others,
     linkVars, entryVars, workerVars

(* The effect of ExecutorServes, variable by variable. *)
LEMMA ExecutorServesDoes ==
  ASSUME WInv, NEW s \in Sockets, ExecutorServes(s)
  PROVE  /\ epc[s] = "idle"
         /\ work[s] # <<>>
         /\ Others(work, work', s)
         /\ Others(epc, epc', s)
         /\ cmds' = IF reqs[buffer[s]].kind \in {"run", "state", "block"} THEN cmds \cup
            {buffer[s]} ELSE cmds
         /\ epc'[s] = "posting"
         /\ signaled' = (signaled \/ reqs[buffer[s]].kind = "shutdown")
         /\ \A t \in Sockets : results'[t] \subseteq results[t]
         /\ Gives(s, buffer[s])
         /\ Len(work[s]) > 0
         /\ work[s][1] = "work"
         /\ Dropped(work[s], work'[s])
         /\ Appended(posts, posts', [kind |-> IF phase[s] = "http" THEN "http" ELSE "send", s
            |-> s, req |-> buffer[s]])
         /\ UNCHANGED <<phase, gen, inbox, reqs, sent, ws_conns, buffer, serving, io, builtins,
            wpc, queues, late, owner, got>>
<1>t. LinkTypes /\ EntryTypes /\ WorkerTypes
  BY TypesOf
<1> USE DEF linkVars, entryVars, workerVars
<1>1. /\ epc[s] = "idle"
      /\ work[s] # <<>>
      /\ Others(work, work', s)
      /\ Others(epc, epc', s)
      /\ cmds' = IF reqs[buffer[s]].kind \in {"run", "state", "block"} THEN cmds \cup
         {buffer[s]} ELSE cmds
      /\ epc'[s] = "posting"
      /\ signaled' = (signaled \/ reqs[buffer[s]].kind = "shutdown")
      /\ UNCHANGED <<phase, gen, inbox, reqs, sent, ws_conns, buffer, serving, io, builtins,
         wpc, queues, late, owner, got>>
  BY <1>t DEF ExecutorServes, Takes, Replies, Popped, LinkTypes, EntryTypes, WorkerTypes, Others
<1>g. Gives(s, buffer[s]) /\ \A t \in Sockets : results'[t] \subseteq results[t]
  <2>1. CASE reqs[buffer[s]].kind \in {"poll", "block"} /\ reqs[buffer[s]].queue \in queues
    <3>1. PICK q \in Sockets : q = reqs[buffer[s]].queue
      BY <1>t, <2>1 DEF WorkerTypes
    <3>2. /\ polled' = polled \cup {<<x, q, gen[q], s>> : x \in results[q]}
          /\ results' = [results EXCEPT ![q] = {}]
      BY <2>1, <3>1 DEF ExecutorServes, Replies
    <3>3. Gives(s, buffer[s])
      BY <3>1, <3>2 DEF Gives
    <3> QED
      BY <1>t, <3>2, <3>3 DEF WorkerTypes
  <2>2. CASE ~(reqs[buffer[s]].kind \in {"poll", "block"} /\ reqs[buffer[s]].queue \in queues)
    BY <2>2 DEF ExecutorServes, Replies, Gives
  <2> QED
    BY <2>1, <2>2
<1>2. work[s] \in Seq(Items)
  BY <1>t DEF EntryTypes
<1>3. /\ work[s] # <<>>
      /\ work'[s] = Tail(work[s])
      /\ Head(work[s]) = "work"
  BY <1>t DEF ExecutorServes, Takes, Replies, Popped, LinkTypes, EntryTypes
<1>4. /\ Len(work[s]) > 0
      /\ work[s][1] = "work"
      /\ Dropped(work[s], work'[s])
      /\ Head(work[s]) = work[s][1]
  BY <1>2, <1>3, TailIs
<1>5. posts \in Seq(Posts)
  BY <1>t DEF EntryTypes
<1>6. posts' = Append(posts, [kind |-> IF phase[s] = "http" THEN "http" ELSE "send", s |-> s, req |-> buffer[s]])
  BY <1>t DEF ExecutorServes, Takes, Replies, Popped, LinkTypes, EntryTypes
<1>7. Appended(posts, posts', [kind |-> IF phase[s] = "http" THEN "http" ELSE "send", s |-> s, req |-> buffer[s]])
  BY <1>5, <1>6, AppendIs
<1> QED
  BY <1>1, <1>g, <1>2, <1>3, <1>4, <1>5, <1>7

(* The effect of ExecutorBlocks, variable by variable. *)
LEMMA ExecutorBlocksDoes ==
  ASSUME WInv, NEW s \in Sockets, ExecutorBlocks(s)
  PROVE  /\ epc[s] = "idle"
         /\ work[s] # <<>>
         /\ Others(work, work', s)
         /\ Others(epc, epc', s)
         /\ cmds' = IF reqs[buffer[s]].kind \in {"run", "state", "block"} THEN cmds \cup
            {buffer[s]} ELSE cmds
         /\ epc'[s] = "polling"
         /\ serving'[s] = buffer[s]
         /\ Others(serving, serving', s)
         /\ Len(work[s]) > 0
         /\ work[s][1] = "work"
         /\ Dropped(work[s], work'[s])
         /\ UNCHANGED <<phase, gen, inbox, reqs, sent, ws_conns, buffer, posts, io, builtins,
            wpc, queues, results, late, owner, signaled, got, polled>>
<1>t. LinkTypes /\ EntryTypes /\ WorkerTypes
  BY TypesOf
<1> USE DEF linkVars, entryVars, workerVars
<1>1. /\ epc[s] = "idle"
      /\ work[s] # <<>>
      /\ Others(work, work', s)
      /\ Others(epc, epc', s)
      /\ cmds' = IF reqs[buffer[s]].kind \in {"run", "state", "block"} THEN cmds \cup
         {buffer[s]} ELSE cmds
      /\ epc'[s] = "polling"
      /\ serving'[s] = buffer[s]
      /\ Others(serving, serving', s)
      /\ UNCHANGED <<phase, gen, inbox, reqs, sent, ws_conns, buffer, posts, io, builtins, wpc,
         queues, results, late, owner, signaled, got, polled>>
  BY <1>t DEF ExecutorBlocks, Takes, Popped, LinkTypes, EntryTypes, WorkerTypes, Others
<1>2. work[s] \in Seq(Items)
  BY <1>t DEF EntryTypes
<1>3. /\ work[s] # <<>>
      /\ work'[s] = Tail(work[s])
      /\ Head(work[s]) = "work"
  BY <1>t DEF ExecutorBlocks, Takes, Popped, LinkTypes, EntryTypes
<1>4. /\ Len(work[s]) > 0
      /\ work[s][1] = "work"
      /\ Dropped(work[s], work'[s])
      /\ Head(work[s]) = work[s][1]
  BY <1>2, <1>3, TailIs
<1> QED
  BY <1>1, <1>2, <1>3, <1>4

(* The effect of ExecutorFlushes, variable by variable. *)
LEMMA ExecutorFlushesDoes ==
  ASSUME WInv, NEW s \in Sockets, ExecutorFlushes(s)
  PROVE  /\ epc[s] = "polling"
         /\ epc'[s] = "posting"
         /\ Others(epc, epc', s)
         /\ \A t \in Sockets : results'[t] \subseteq results[t]
         /\ Gives(s, serving[s])
         /\ Appended(posts, posts', [kind |-> IF phase[s] = "http" THEN "http" ELSE "send", s
            |-> s, req |-> serving[s]])
         /\ UNCHANGED <<phase, gen, inbox, reqs, sent, ws_conns, buffer, work, serving, io,
            builtins, cmds, wpc, queues, late, owner, signaled, got>>
<1>t. LinkTypes /\ EntryTypes /\ WorkerTypes
  BY TypesOf
<1> USE DEF linkVars, entryVars, workerVars
<1>1. /\ epc[s] = "polling"
      /\ epc'[s] = "posting"
      /\ Others(epc, epc', s)
      /\ UNCHANGED <<phase, gen, inbox, reqs, sent, ws_conns, buffer, work, serving, io,
         builtins, cmds, wpc, queues, late, owner, signaled, got>>
  BY <1>t DEF ExecutorFlushes, Replies, LinkTypes, EntryTypes, WorkerTypes, Others
<1>g. Gives(s, serving[s]) /\ \A t \in Sockets : results'[t] \subseteq results[t]
  <2>1. CASE reqs[serving[s]].kind \in {"poll", "block"} /\ reqs[serving[s]].queue \in queues
    <3>1. PICK q \in Sockets : q = reqs[serving[s]].queue
      BY <1>t, <2>1 DEF WorkerTypes
    <3>2. /\ polled' = polled \cup {<<x, q, gen[q], s>> : x \in results[q]}
          /\ results' = [results EXCEPT ![q] = {}]
      BY <2>1, <3>1 DEF ExecutorFlushes, Replies
    <3>3. Gives(s, serving[s])
      BY <3>1, <3>2 DEF Gives
    <3> QED
      BY <1>t, <3>2, <3>3 DEF WorkerTypes
  <2>2. CASE ~(reqs[serving[s]].kind \in {"poll", "block"} /\ reqs[serving[s]].queue \in queues)
    BY <2>2 DEF ExecutorFlushes, Replies, Gives
  <2> QED
    BY <2>1, <2>2
<1>2. posts \in Seq(Posts)
  BY <1>t DEF EntryTypes
<1>3. posts' = Append(posts, [kind |-> IF phase[s] = "http" THEN "http" ELSE "send", s |-> s, req |-> serving[s]])
  BY <1>t DEF ExecutorFlushes, Replies, LinkTypes, EntryTypes
<1>4. Appended(posts, posts', [kind |-> IF phase[s] = "http" THEN "http" ELSE "send", s |-> s, req |-> serving[s]])
  BY <1>2, <1>3, AppendIs
<1> QED
  BY <1>1, <1>g, <1>2, <1>4

(* The effect of ExecutorTimesOut, variable by variable. *)
LEMMA ExecutorTimesOutDoes ==
  ASSUME WInv, NEW s \in Sockets, ExecutorTimesOut(s)
  PROVE  /\ "idle" \in habits
         /\ epc[s] = "idle"
         /\ epc'[s] = "ended"
         /\ Others(epc, epc', s)
         /\ UNCHANGED <<phase, gen, inbox, reqs, sent, ws_conns, buffer, work, serving, posts,
            io, builtins, cmds, wpc, queues, results, late, owner, signaled, got, polled>>
<1>t. LinkTypes /\ EntryTypes /\ WorkerTypes
  BY TypesOf
<1> QED
  BY <1>t DEF ExecutorTimesOut, LinkTypes, EntryTypes, WorkerTypes, Others,
     linkVars, entryVars, workerVars

(* The effect of ExecutorEnds, variable by variable. *)
LEMMA ExecutorEndsDoes ==
  ASSUME WInv, NEW s \in Sockets, ExecutorEnds(s)
  PROVE  /\ epc[s] = "idle"
         /\ work[s] # <<>>
         /\ epc'[s] = "ended"
         /\ Others(epc, epc', s)
         /\ Len(work[s]) > 0
         /\ work[s][1] = "destroy"
         /\ UNCHANGED <<phase, gen, inbox, reqs, sent, ws_conns, buffer, work, serving, posts,
            io, builtins, cmds, wpc, queues, results, late, owner, signaled, got, polled>>
<1>t. LinkTypes /\ EntryTypes /\ WorkerTypes
  BY TypesOf
<1> USE DEF linkVars, entryVars, workerVars
<1>1. /\ epc[s] = "idle"
      /\ work[s] # <<>>
      /\ epc'[s] = "ended"
      /\ Others(epc, epc', s)
      /\ UNCHANGED <<phase, gen, inbox, reqs, sent, ws_conns, buffer, work, serving, posts, io,
         builtins, cmds, wpc, queues, results, late, owner, signaled, got, polled>>
  BY <1>t DEF ExecutorEnds, LinkTypes, EntryTypes, WorkerTypes, Others
<1>2. work[s] \in Seq(Items)
  BY <1>t DEF EntryTypes
<1>3. /\ work[s] # <<>>
      /\ Head(work[s]) = "destroy"
  BY <1>t DEF ExecutorEnds, LinkTypes, EntryTypes
<1>4. /\ Len(work[s]) > 0
      /\ work[s][1] = "destroy"
      /\ Head(work[s]) = work[s][1]
  BY <1>2, <1>3, TailIs
<1> QED
  BY <1>1, <1>2, <1>3, <1>4

(* The effect of WorkerCreatesQueue, variable by variable. *)
LEMMA WorkerCreatesQueueDoes ==
  ASSUME WInv, NEW s \in Sockets, WorkerCreatesQueue(s)
  PROVE  /\ <<"create", s>> \in builtins
         /\ builtins' = builtins \ {<<"create", s>>}
         /\ queues' = queues \cup {s}
         /\ UNCHANGED <<phase, gen, inbox, reqs, sent, ws_conns, buffer, work, serving, epc,
            posts, io, cmds, wpc, results, late, owner, signaled, got, polled>>
<1>t. LinkTypes /\ EntryTypes /\ WorkerTypes
  BY TypesOf
<1> QED
  BY <1>t DEF WorkerCreatesQueue, LinkTypes, EntryTypes, WorkerTypes, Others,
     linkVars, entryVars, workerVars

(* The effect of WorkerDestroysQueue, variable by variable. *)
LEMMA WorkerDestroysQueueDoes ==
  ASSUME WInv, NEW s \in Sockets, WorkerDestroysQueue(s)
  PROVE  /\ <<"destroy", s>> \in builtins
         /\ builtins' = builtins \ {<<"destroy", s>>}
         /\ queues' = queues \ {s}
         /\ results'[s] = {}
         /\ Others(results, results', s)
         /\ late' = late \cup {c \in cmds : reqs[c].s = s}
         /\ UNCHANGED <<phase, gen, inbox, reqs, sent, ws_conns, buffer, work, serving, epc,
            posts, io, cmds, wpc, owner, signaled, got, polled>>
<1>t. LinkTypes /\ EntryTypes /\ WorkerTypes
  BY TypesOf
<1> QED
  BY <1>t DEF WorkerDestroysQueue, DestroysQueue, LinkTypes, EntryTypes, WorkerTypes, Others,
     linkVars, entryVars, workerVars

(* The effect of WorkerShutsDown, variable by variable. *)
LEMMA WorkerShutsDownDoes ==
  ASSUME WInv, WorkerShutsDown
  PROVE  /\ wpc = "idle"
         /\ builtins = {<<"shutdown", 0>>}
         /\ builtins' = {}
         /\ wpc' = "gone"
         /\ UNCHANGED <<phase, gen, inbox, reqs, sent, ws_conns, buffer, work, serving, epc,
            posts, io, cmds, queues, results, late, owner, signaled, got, polled>>
<1>t. LinkTypes /\ EntryTypes /\ WorkerTypes
  BY TypesOf
<1> QED
  BY <1>t DEF WorkerShutsDown, LinkTypes, EntryTypes, WorkerTypes, Others,
     linkVars, entryVars, workerVars

(* The effect of WorkerRuns, variable by variable. *)
LEMMA WorkerRunsDoes ==
  ASSUME WInv, NEW c \in cmds, WorkerRuns(c)
  PROVE  /\ cmds' = cmds \ {c}
         /\ reqs[c].s \in queues =>
              /\ reqs[c].s \in queues
              /\ Others(results, results', reqs[c].s)
              /\ results'[reqs[c].s] = results[reqs[c].s] \cup {c}
         /\ reqs[c].s \notin queues =>
              /\ UNCHANGED results
         /\ UNCHANGED <<phase, gen, inbox, reqs, sent, ws_conns, buffer, work, serving, epc,
            posts, io, builtins, wpc, queues, late, owner, signaled, got, polled>>
<1>t. LinkTypes /\ EntryTypes /\ WorkerTypes
  BY TypesOf
<1> QED
  BY <1>t DEF WorkerRuns, Finishes, LinkTypes, EntryTypes, WorkerTypes, Others,
     linkVars, entryVars, workerVars

(* The effect of WorkerAsksState, variable by variable. *)
LEMMA WorkerAsksStateDoes ==
  ASSUME WInv, NEW c \in cmds, WorkerAsksState(c)
  PROVE  /\ wpc' = "asking"
         /\ reqs[c].kind = "state"
         /\ Appended(posts, posts', [kind |-> "state", s |-> 0, req |-> c])
         /\ UNCHANGED <<phase, gen, inbox, reqs, sent, ws_conns, buffer, work, serving, epc, io,
            builtins, cmds, queues, results, late, owner, signaled, got, polled>>
<1>t. LinkTypes /\ EntryTypes /\ WorkerTypes
  BY TypesOf
<1> USE DEF linkVars, entryVars, workerVars
<1>1. /\ wpc' = "asking"
      /\ reqs[c].kind = "state"
      /\ UNCHANGED <<phase, gen, inbox, reqs, sent, ws_conns, buffer, work, serving, epc, io,
         builtins, cmds, queues, results, late, owner, signaled, got, polled>>
  BY <1>t DEF WorkerAsksState, LinkTypes, EntryTypes, WorkerTypes, Others
<1>2. posts \in Seq(Posts)
  BY <1>t DEF EntryTypes
<1>3. posts' = Append(posts, [kind |-> "state", s |-> 0, req |-> c])
  BY <1>t DEF WorkerAsksState, LinkTypes, EntryTypes
<1>4. Appended(posts, posts', [kind |-> "state", s |-> 0, req |-> c])
  BY <1>2, <1>3, AppendIs
<1> QED
  BY <1>1, <1>2, <1>4

(* The effect of WorkerHasState, variable by variable. *)
LEMMA WorkerHasStateDoes ==
  ASSUME WInv, NEW c \in cmds, WorkerHasState(c)
  PROVE  /\ cmds' = cmds \ {c}
         /\ wpc' = "idle"
         /\ reqs[c].s \in queues =>
              /\ reqs[c].s \in queues
              /\ Others(results, results', reqs[c].s)
              /\ results'[reqs[c].s] = results[reqs[c].s] \cup {c}
         /\ reqs[c].s \notin queues =>
              /\ UNCHANGED results
         /\ UNCHANGED <<phase, gen, inbox, reqs, sent, ws_conns, buffer, work, serving, epc,
            posts, io, builtins, queues, late, owner, signaled, got, polled>>
<1>t. LinkTypes /\ EntryTypes /\ WorkerTypes
  BY TypesOf
<1> QED
  BY <1>t DEF WorkerHasState, Finishes, LinkTypes, EntryTypes, WorkerTypes, Others,
     linkVars, entryVars, workerVars

(* The effect of ShutdownBegins, variable by variable. *)
LEMMA ShutdownBeginsDoes ==
  ASSUME WInv, ShutdownBegins
  PROVE  /\ owner = "running"
         /\ owner' = "closing"
         /\ Appended(posts, posts', [kind |-> "closeall", s |-> 0, req |-> 0])
         /\ UNCHANGED <<phase, gen, inbox, reqs, sent, ws_conns, buffer, work, serving, epc, io,
            builtins, cmds, wpc, queues, results, late, signaled, got, polled>>
<1>t. LinkTypes /\ EntryTypes /\ WorkerTypes
  BY TypesOf
<1> USE DEF linkVars, entryVars, workerVars
<1>1. /\ owner = "running"
      /\ owner' = "closing"
      /\ UNCHANGED <<phase, gen, inbox, reqs, sent, ws_conns, buffer, work, serving, epc, io,
         builtins, cmds, wpc, queues, results, late, signaled, got, polled>>
  BY <1>t DEF ShutdownBegins, LinkTypes, EntryTypes, WorkerTypes, Others
<1>2. posts \in Seq(Posts)
  BY <1>t DEF EntryTypes
<1>3. posts' = Append(posts, [kind |-> "closeall", s |-> 0, req |-> 0])
  BY <1>t DEF ShutdownBegins, LinkTypes, EntryTypes
<1>4. Appended(posts, posts', [kind |-> "closeall", s |-> 0, req |-> 0])
  BY <1>2, <1>3, AppendIs
<1> QED
  BY <1>1, <1>2, <1>4

(* The effect of StopsManager, variable by variable. *)
LEMMA StopsManagerDoes ==
  ASSUME WInv, StopsManager
  PROVE  /\ owner = "closed"
         /\ owner' = "stopping"
         /\ builtins' = builtins \cup {<<"shutdown", 0>>}
         /\ UNCHANGED <<phase, gen, inbox, reqs, sent, ws_conns, buffer, work, serving, epc,
            posts, io, cmds, wpc, queues, results, late, signaled, got, polled>>
<1>t. LinkTypes /\ EntryTypes /\ WorkerTypes
  BY TypesOf
<1> QED
  BY <1>t DEF StopsManager, LinkTypes, EntryTypes, WorkerTypes, Others,
     linkVars, entryVars, workerVars

(* The effect of DestroysServer, variable by variable. *)
LEMMA DestroysServerDoes ==
  ASSUME WInv, DestroysServer
  PROVE  /\ owner = "stopping"
         /\ owner' = "destroyed"
         /\ UNCHANGED <<phase, gen, inbox, reqs, sent, ws_conns, buffer, work, serving, epc,
            posts, io, builtins, cmds, wpc, queues, results, late, signaled, got, polled>>
<1>t. LinkTypes /\ EntryTypes /\ WorkerTypes
  BY TypesOf
<1> QED
  BY <1>t DEF DestroysServer, LinkTypes, EntryTypes, WorkerTypes, Others,
     linkVars, entryVars, workerVars

(* The effect of JoinsIo, variable by variable. *)
LEMMA JoinsIoDoes ==
  ASSUME WInv, JoinsIo
  PROVE  /\ owner = "destroyed"
         /\ owner' = "gone"
         /\ UNCHANGED <<phase, gen, inbox, reqs, sent, ws_conns, buffer, work, serving, epc,
            posts, io, builtins, cmds, wpc, queues, results, late, signaled, got, polled>>
<1>t. LinkTypes /\ EntryTypes /\ WorkerTypes
  BY TypesOf
<1> QED
  BY <1>t DEF JoinsIo, LinkTypes, EntryTypes, WorkerTypes, Others,
     linkVars, entryVars, workerVars

(* The effect of ClientConnects, variable by variable. *)
LEMMA ClientConnectsDoes ==
  ASSUME WInv, NEW s \in Sockets, ClientConnects(s)
  PROVE  /\ phase[s] = "free"
         /\ owner = "running"
         /\ Others(phase, phase', s)
         /\ Others(gen, gen', s)
         /\ Others(got, got', s)
         /\ Others(inbox, inbox', s)
         /\ Others(sent, sent', s)
         /\ Cardinality(Connections) < MaxOpens[habits]
         /\ gen'[s] = gen[s] + 1
         /\ Len(got'[s]) = 0
         /\ phase'[s] # "http" =>
              /\ phase'[s] = "handshake"
              /\ UNCHANGED reqs
              /\ Len(inbox'[s]) = 0
              /\ Len(sent'[s]) = 0
              /\ "overlaps" \in habits \/ \A t \in Sockets : phase[t] \notin {"handshake", "valid"}
         /\ phase'[s] = "http" =>
              /\ "http" \in habits
              /\ Appended(reqs, reqs', [s |-> s, gen |-> gen[s] + 1, kind |-> "run", queue |-> s])
              /\ Len(inbox'[s]) = 1
              /\ inbox'[s][1] = Len(reqs) + 1
              /\ Len(sent'[s]) = 1
              /\ sent'[s][1] = Len(reqs) + 1
         /\ UNCHANGED <<ws_conns, buffer, work, serving, epc, posts, io, builtins, cmds, wpc,
            queues, results, late, owner, signaled, polled>>
<1>t. LinkTypes /\ EntryTypes /\ WorkerTypes
  BY TypesOf
<1> USE DEF linkVars, entryVars, workerVars
<1>1. /\ phase[s] = "free"
      /\ owner = "running"
      /\ Others(phase, phase', s)
      /\ Others(gen, gen', s)
      /\ Others(got, got', s)
      /\ Others(inbox, inbox', s)
      /\ Others(sent, sent', s)
      /\ Cardinality(Connections) < MaxOpens[habits]
      /\ gen'[s] = gen[s] + 1
      /\ Len(got'[s]) = 0
      /\ phase'[s] # "http" =>
           /\ phase'[s] = "handshake"
           /\ UNCHANGED reqs
           /\ Len(inbox'[s]) = 0
           /\ Len(sent'[s]) = 0
           /\ "overlaps" \in habits \/ \A t \in Sockets : phase[t] \notin {"handshake", "valid"}
      /\ phase'[s] = "http" =>
           /\ "http" \in habits
      /\ UNCHANGED <<ws_conns, buffer, work, serving, epc, posts, io, builtins, cmds, wpc,
         queues, results, late, owner, signaled, polled>>
  <2>1. /\ phase[s] = "free" /\ owner = "running" /\ Cardinality(Connections) < MaxOpens[habits]
        /\ gen' = [gen EXCEPT ![s] = gen[s] + 1] /\ got' = [got EXCEPT ![s] = <<>>]
    BY DEF ClientConnects, Listens
  <2>2. \/ /\ "overlaps" \in habits \/ \A t \in Sockets : phase[t] \notin {"handshake", "valid"}
           /\ phase' = [phase EXCEPT ![s] = "handshake"] /\ reqs' = reqs
           /\ inbox' = [inbox EXCEPT ![s] = <<>>] /\ sent' = [sent EXCEPT ![s] = <<>>]
        \/ /\ "http" \in habits /\ phase' = [phase EXCEPT ![s] = "http"]
           /\ inbox' = [inbox EXCEPT ![s] = <<Len(reqs')>>]
           /\ sent' = [sent EXCEPT ![s] = <<Len(reqs')>>]
    BY DEF ClientConnects
  <2>3. UNCHANGED <<ws_conns, buffer, work, serving, epc, posts, io, builtins, cmds, wpc, queues,
                    results, late, owner, signaled, polled>>
    BY DEF ClientConnects
  <2>4. /\ Others(gen, gen', s) /\ Others(got, got', s) /\ Len(got'[s]) = 0
        /\ gen'[s] = gen[s] + 1
    BY <1>t, <2>1 DEF LinkTypes, Others
  <2>5. Others(phase, phase', s) /\ Others(inbox, inbox', s) /\ Others(sent, sent', s)
    BY <1>t, <2>2 DEF LinkTypes, Others
  <2>6. phase'[s] # "http" =>
          /\ phase'[s] = "handshake" /\ reqs' = reqs /\ Len(inbox'[s]) = 0 /\ Len(sent'[s]) = 0
          /\ "overlaps" \in habits \/ \A t \in Sockets : phase[t] \notin {"handshake", "valid"}
    BY <1>t, <2>2 DEF LinkTypes
  <2>7. phase'[s] = "http" => "http" \in habits
    BY <1>t, <2>2 DEF LinkTypes
  <2> QED
    BY <2>1, <2>3, <2>4, <2>5, <2>6, <2>7
<1>2. reqs \in Seq(Requests)
  BY <1>t DEF LinkTypes
<1>3. phase'[s] = "http" => reqs' = Append(reqs, [s |-> s, gen |-> gen[s] + 1, kind |-> "run", queue |-> s])
  BY <1>t DEF ClientConnects, Listens, Request, LinkTypes, EntryTypes
<1>4. phase'[s] = "http" => Appended(reqs, reqs', [s |-> s, gen |-> gen[s] + 1, kind |-> "run", queue |-> s])
  BY <1>2, <1>3, AppendIs
<1>5. phase'[s] = "http" => inbox'[s] = <<Len(reqs')>> /\ sent'[s] = <<Len(reqs')>> /\ Len(reqs') = Len(reqs) + 1
  BY <1>t, <1>4 DEF ClientConnects, Listens, Request, LinkTypes, Appended
<1>6. phase'[s] = "http" => /\ Len(inbox'[s]) = 1 /\ inbox'[s][1] = Len(reqs) + 1
                              /\ Len(sent'[s]) = 1 /\ sent'[s][1] = Len(reqs) + 1
  <2>1. ASSUME NEW x, NEW y, y = <<x>> PROVE Len(y) = 1 /\ y[1] = x
    BY <2>1
  <2> HIDE <1>t
  <2> QED
    BY <1>5, <2>1, Zenon
<1> QED
  BY <1>1, <1>2, <1>4, <1>5, <1>6

(* The effect of ClientCloses, variable by variable. *)
LEMMA ClientClosesDoes ==
  ASSUME WInv, NEW s \in Sockets, ClientCloses(s)
  PROVE  /\ phase[s] \in {"open", "closing"}
         /\ \A i \in 1..Len(inbox[s]) : inbox[s][i] # 0
         /\ "leaves" \in habits \/ phase[s] = "closing" \/ Len(sent[s]) = Len(got[s])
         /\ Others(inbox, inbox', s)
         /\ Appended(inbox[s], inbox'[s], 0)
         /\ UNCHANGED <<phase, gen, reqs, sent, ws_conns, buffer, work, serving, epc, posts, io,
            builtins, cmds, wpc, queues, results, late, owner, signaled, got, polled>>
<1>t. LinkTypes /\ EntryTypes /\ WorkerTypes
  BY TypesOf
<1> USE DEF linkVars, entryVars, workerVars
<1>1. /\ phase[s] \in {"open", "closing"}
      /\ \A i \in 1..Len(inbox[s]) : inbox[s][i] # 0
      /\ "leaves" \in habits \/ phase[s] = "closing" \/ Len(sent[s]) = Len(got[s])
      /\ Others(inbox, inbox', s)
      /\ UNCHANGED <<phase, gen, reqs, sent, ws_conns, buffer, work, serving, epc, posts, io,
         builtins, cmds, wpc, queues, results, late, owner, signaled, got, polled>>
  <2>1. /\ phase[s] \in {"open", "closing"} /\ 0 \notin ToSet(inbox[s])
        /\ "leaves" \in habits \/ phase[s] = "closing" \/ Len(sent[s]) = Len(got[s])
        /\ inbox' = [inbox EXCEPT ![s] = Append(@, 0)]
    BY DEF ClientCloses, Answered
  <2>2. \A i \in 1..Len(inbox[s]) : inbox[s][i] # 0
    BY <2>1 DEF ToSet
  <2>3. Others(inbox, inbox', s)
    BY <1>t, <2>1 DEF LinkTypes, Others
  <2>4. UNCHANGED <<phase, gen, reqs, sent, ws_conns, buffer, work, serving, epc, posts, io,
                    builtins, cmds, wpc, queues, results, late, owner, signaled, got, polled>>
    BY DEF ClientCloses
  <2> QED
    BY <2>1, <2>2, <2>3, <2>4
<1>2. inbox[s] \in Seq(Nat)
  BY <1>t DEF LinkTypes
<1>3. inbox'[s] = Append(inbox[s], 0)
  BY <1>t DEF ClientCloses, Answered, ToSet, LinkTypes, EntryTypes
<1>4. Appended(inbox[s], inbox'[s], 0)
  BY <1>2, <1>3, AppendIs
<1> QED
  BY <1>1, <1>2, <1>4

(* The effect of ClientSends, variable by variable. *)
LEMMA ClientSendsDoes ==
  ASSUME WInv, NEW s \in Sockets, NEW k \in Kinds, NEW q \in Names(s, k), ClientSends(s, k, q)
  PROVE  /\ phase[s] = "open"
         /\ \A i \in 1..Len(inbox[s]) : inbox[s][i] # 0
         /\ "pipelines" \in habits \/ Len(sent[s]) = Len(got[s])
         /\ Others(inbox, inbox', s)
         /\ Others(sent, sent', s)
         /\ k \in RequestKinds
         /\ k = "state" => "asks" \in habits
         /\ k = "shutdown" => "abrupt" \in habits
         /\ q \in Sockets
         /\ "shares" \notin habits => q = s
         /\ Appended(reqs, reqs', [s |-> s, gen |-> gen[s], kind |-> k, queue |-> q])
         /\ Appended(inbox[s], inbox'[s], Len(reqs) + 1)
         /\ Appended(sent[s], sent'[s], Len(reqs) + 1)
         /\ UNCHANGED <<phase, gen, ws_conns, buffer, work, serving, epc, posts, io, builtins,
            cmds, wpc, queues, results, late, owner, signaled, got, polled>>
<1>t. LinkTypes /\ EntryTypes /\ WorkerTypes
  BY TypesOf
<1> USE DEF linkVars, entryVars, workerVars
<1>k. /\ k \in RequestKinds /\ q \in Sockets
      /\ k = "state" => "asks" \in habits
      /\ k = "shutdown" => "abrupt" \in habits
      /\ "shares" \notin habits => q = s
  BY DEF Kinds, Names, RequestKinds
<1>1. /\ phase[s] = "open"
      /\ \A i \in 1..Len(inbox[s]) : inbox[s][i] # 0
      /\ "pipelines" \in habits \/ Len(sent[s]) = Len(got[s])
      /\ Others(inbox, inbox', s)
      /\ Others(sent, sent', s)
      /\ UNCHANGED <<phase, gen, ws_conns, buffer, work, serving, epc, posts, io, builtins,
         cmds, wpc, queues, results, late, owner, signaled, got, polled>>
  <2>1. /\ phase[s] = "open" /\ 0 \notin ToSet(inbox[s])
        /\ "pipelines" \in habits \/ Len(sent[s]) = Len(got[s])
    BY DEF ClientSends, Answered
  <2>2. \A i \in 1..Len(inbox[s]) : inbox[s][i] # 0
    BY <2>1 DEF ToSet
  <2>3. /\ inbox' = [inbox EXCEPT ![s] = Append(@, Len(reqs'))]
        /\ sent' = [sent EXCEPT ![s] = Append(@, Len(reqs'))]
    BY DEF ClientSends
  <2>4. Others(inbox, inbox', s) /\ Others(sent, sent', s)
    BY <1>t, <2>3 DEF LinkTypes, Others
  <2>5. UNCHANGED <<phase, gen, ws_conns, buffer, work, serving, epc, posts, io, builtins, cmds,
                    wpc, queues, results, late, owner, signaled, got, polled>>
    BY DEF ClientSends
  <2> QED
    BY <1>k, <2>1, <2>2, <2>4, <2>5
<1>2. reqs \in Seq(Requests)
  BY <1>t DEF LinkTypes
<1>3. reqs' = Append(reqs, [s |-> s, gen |-> gen[s], kind |-> k, queue |-> q])
  BY <1>t DEF ClientSends, Answered, ToSet, Request, Kinds, LinkTypes, EntryTypes
<1>4. Appended(reqs, reqs', [s |-> s, gen |-> gen[s], kind |-> k, queue |-> q])
  BY <1>2, <1>3, AppendIs
<1>5. inbox[s] \in Seq(Nat)
  BY <1>t DEF LinkTypes
<1>6. inbox'[s] = Append(inbox[s], Len(reqs) + 1)
  BY <1>t DEF ClientSends, Answered, ToSet, Request, Kinds, LinkTypes, EntryTypes
<1>7. Appended(inbox[s], inbox'[s], Len(reqs) + 1)
  BY <1>5, <1>6, AppendIs
<1>8. sent[s] \in Seq(Nat)
  BY <1>t DEF LinkTypes
<1>9. sent'[s] = Append(sent[s], Len(reqs) + 1)
  BY <1>t DEF ClientSends, Answered, ToSet, Request, Kinds, LinkTypes, EntryTypes
<1>10. Appended(sent[s], sent'[s], Len(reqs) + 1)
  BY <1>8, <1>9, AppendIs
<1> QED
  BY <1>1, <1>k, <1>2, <1>4, <1>5, <1>7, <1>8, <1>10

(* The effect of TextHandler, variable by variable. *)
LEMMA TextHandlerDoes ==
  ASSUME WInv, NEW s \in Sockets, TextHandler(s)
  PROVE  /\ io.at = "idle"
         /\ UNCHANGED <<phase, gen, inbox, reqs, sent, ws_conns, buffer, work, serving, epc,
            posts, io, builtins, cmds, wpc, queues, results, late, owner, signaled, got,
            polled>>
<1>t. LinkTypes /\ EntryTypes /\ WorkerTypes
  BY TypesOf
<1> QED
  BY <1>t DEF TextHandler, Idle, LinkTypes, EntryTypes, WorkerTypes, Others,
     linkVars, entryVars, workerVars

(* The effect of ClientSendsText, variable by variable. *)
LEMMA ClientSendsTextDoes ==
  ASSUME WInv, NEW s \in Sockets, ClientSendsText(s)
  PROVE  /\ phase[s] = "open"
         /\ Appended(reqs, reqs', [s |-> s, gen |-> gen[s], kind |-> "text", queue |-> s])
         /\ UNCHANGED <<phase, gen, inbox, sent, ws_conns, buffer, work, serving, epc, posts,
            io, builtins, cmds, wpc, queues, results, late, owner, signaled, got, polled>>
<1>t. LinkTypes /\ EntryTypes /\ WorkerTypes
  BY TypesOf
<1> USE DEF linkVars, entryVars, workerVars
<1>1. /\ phase[s] = "open"
      /\ UNCHANGED <<phase, gen, inbox, sent, ws_conns, buffer, work, serving, epc, posts, io,
         builtins, cmds, wpc, queues, results, late, owner, signaled, got, polled>>
  BY <1>t DEF ClientSendsText, Request, LinkTypes, EntryTypes, WorkerTypes, Others
<1>2. reqs \in Seq(Requests)
  BY <1>t DEF LinkTypes
<1>3. reqs' = Append(reqs, [s |-> s, gen |-> gen[s], kind |-> "text", queue |-> s])
  BY <1>t DEF ClientSendsText, Request, LinkTypes, EntryTypes
<1>4. Appended(reqs, reqs', [s |-> s, gen |-> gen[s], kind |-> "text", queue |-> s])
  BY <1>2, <1>3, AppendIs
<1> QED
  BY <1>1, <1>2, <1>4


-----------------------------------------------------------------------------
(* The bound on connections is a number. *)
LEMMA OpensNat ==
  ASSUME LinkTypes
  PROVE  MaxOpens[habits] \in Nat
BY ServerAssumption DEF LinkTypes

(* With fewer than MaxOpens connections a socket has had fewer. *)
LEMMA OpensLeft ==
  ASSUME LinkTypes, NEW s \in Sockets, Cardinality(Connections) < MaxOpens[habits]
  PROVE  gen[s] + 1 \in 0..MaxOpens[habits]
<1> DEFINE C == {s} \X (1..MaxOpens[habits])
<1>1. MaxOpens[habits] \in Nat /\ gen[s] \in 0..MaxOpens[habits]
  BY OpensNat DEF LinkTypes
<1>0. PICK m \in Nat : m = MaxOpens[habits]
  BY <1>1
<1>2. ASSUME gen[s] = MaxOpens[habits] PROVE FALSE
  <2>1. C \subseteq Connections
    BY <1>1, <1>2 DEF Connections
  <2>2. IsFiniteSet(1..MaxOpens[habits]) /\ Cardinality(1..MaxOpens[habits]) = MaxOpens[habits]
    <3>1. IsFiniteSet(1..m) /\ Cardinality(1..m) = IF 1 > m THEN 0 ELSE m - 1 + 1
      BY FS_Interval
    <3>2. Cardinality(1..m) = m
      BY <3>1
    <3> QED
      BY <1>0, <3>1, <3>2
  <2>3. IsFiniteSet({s}) /\ Cardinality({s}) = 1
    BY FS_Singleton
  <2>4. Cardinality(C) = MaxOpens[habits]
    <3>1. IsFiniteSet(1..m) /\ Cardinality(1..m) = m
      BY <1>0, <2>2
    <3>2. Cardinality({s} \X (1..m)) = Cardinality({s}) * Cardinality(1..m)
      BY <2>3, <3>1, FS_Product
    <3>3. 1 * m = m
      OBVIOUS
    <3> QED
      BY <1>0, <2>3, <3>1, <3>2, <3>3
  <2>5. IsFiniteSet(Sockets \X (1..MaxOpens[habits]))
    BY <2>2, ServerAssumption, FS_Product
  <2>6. IsFiniteSet(Connections)
    <3>1. Connections \subseteq Sockets \X (1..MaxOpens[habits])
      BY DEF Connections
    <3> QED
      BY <2>5, <3>1, FS_Subset
  <2>7. Cardinality(C) <= Cardinality(Connections)
    BY <2>1, <2>6, FS_Subset
  <2>8. Cardinality(Connections) \in Nat
    BY <2>6, FS_CardinalityType
  <2> QED
    BY <1>1, <2>4, <2>7, <2>8
<1> QED
  BY <1>1, <1>2

(* Steps keep the types of connections and requests. *)
LEMMA LinkTypesNext ==
  ASSUME WInv, Next
  PROVE  LinkTypes'
<1>t. LinkTypes /\ EntryTypes /\ WorkerTypes
  BY TypesOf
<1>h. habits' = habits
  BY DEF Next
<1>f. UNCHANGED <<phase, gen, inbox, sent, got, reqs>> => LinkTypes'
  BY <1>t, <1>h DEF LinkTypes
<1>1. ASSUME NEW s \in Sockets, ValidateHandler(s) PROVE LinkTypes'
  BY <1>t, <1>h, <1>1 DEF ValidateHandler, Idle, At, linkVars, entryVars, workerVars, LinkTypes, EntryTypes,
     WorkerTypes, Phases, Places, PostKinds, Posts, Items, Requests, Steps
<1>2. ASSUME NEW s \in Sockets, OpenHandler(s) PROVE LinkTypes'
  BY <1>f, <1>2, OpenHandlerDoes
<1>3. ASSUME NEW s \in Sockets, HttpHandler(s) PROVE LinkTypes'
  BY <1>f, <1>3, HttpHandlerDoes
<1>4. ASSUME NEW s \in Sockets, AcceptReturns(s) PROVE LinkTypes'
  <2>0. inbox[s] \in Seq(Nat) /\ (phase[s] = "http" => Len(inbox[s]) > 0)
    <3>1. phase[s] = "http" => Len(inbox[s]) > 0
      BY <1>4, AcceptReturnsDoes
    <3> QED
      BY <1>t, <3>1 DEF LinkTypes
  <2>1. phase[s] = "http" => inbox[s] # <<>>
    BY <2>0
  <2>2. phase[s] = "http" => Tail(inbox[s]) \in Seq(Nat) /\ Head(inbox[s]) \in Nat
    BY <2>0, <2>1, TailIs
  <2>3. /\ phase[s] = "http" => /\ inbox' = [inbox EXCEPT ![s] = Tail(inbox[s])]
                               /\ buffer' = [buffer EXCEPT ![s] = Head(inbox[s])]
                               /\ phase' = phase
        /\ phase[s] # "http" => UNCHANGED <<buffer, inbox>> /\ phase' = [phase EXCEPT ![s] = "open"]
        /\ io' = At("push", s) \/ io' = Idle
        /\ UNCHANGED <<gen, sent, got, reqs, ws_conns, work, serving, epc, posts>>
    BY <1>4 DEF AcceptReturns, StoresRequest
  <2>4. At("push", s) \in [at : Places, s : Sockets \cup {0}] /\ Idle \in [at : Places, s : Sockets \cup {0}]
    BY DEF At, Idle, Places
  <2>5. CASE phase[s] = "http"
    <3>1. /\ \A x \in Seq(Nat) : [inbox EXCEPT ![s] = x] \in [Sockets -> Seq(Nat)]
          /\ \A x \in Nat : [buffer EXCEPT ![s] = x] \in [Sockets -> Nat]
      BY <1>t DEF LinkTypes, EntryTypes
    <3>2. inbox' \in [Sockets -> Seq(Nat)] /\ buffer' \in [Sockets -> Nat] /\ phase' = phase
      BY <2>2, <2>3, <2>5, <3>1, Zenon
    <3>3. io' \in [at : Places, s : Sockets \cup {0}]
      BY <2>3, <2>4, Zenon
    <3> QED
      BY <1>t, <1>h, <2>3, <3>2, <3>3 DEF LinkTypes, EntryTypes
  <2>6. CASE phase[s] # "http"
    BY <1>t, <1>h, <2>3, <2>4, <2>6 DEF LinkTypes, EntryTypes, Phases
  <2> QED
    BY <2>5, <2>6
<1>5. ASSUME NEW s \in Sockets, MessageHandler(s) PROVE LinkTypes'
  BY <1>t, <1>h, <1>5 DEF MessageHandler, StoresRequest, Idle, At, linkVars, entryVars, workerVars, LinkTypes, EntryTypes,
     WorkerTypes, Phases, Places, PostKinds, Posts, Items, Requests, Steps
<1>6. ASSUME NEW s \in Sockets, PushWork(s) PROVE LinkTypes'
  BY <1>f, <1>6, PushWorkDoes
<1>7. ASSUME NEW s \in Sockets, CloseHandler(s) PROVE LinkTypes'
  BY <1>f, <1>7, CloseHandlerDoes
<1>8. ASSUME NEW s \in Sockets, CloseReturns(s) PROVE LinkTypes'
  BY <1>t, <1>h, <1>8 DEF CloseReturns, Erases, Idle, At, linkVars, entryVars, workerVars, LinkTypes, EntryTypes,
     WorkerTypes, Phases, Places, PostKinds, Posts, Items, Requests, Steps
<1>9. ASSUME NEW s \in Sockets, StopsExecutor(s) PROVE LinkTypes'
  BY <1>f, <1>9, StopsExecutorDoes
<1>10. ASSUME NEW s \in Sockets, JoinsExecutor(s) PROVE LinkTypes'
  BY <1>t, <1>h, <1>10 DEF JoinsExecutor, Idle, At, linkVars, entryVars, workerVars, LinkTypes, EntryTypes,
     WorkerTypes, Phases, Places, PostKinds, Posts, Items, Requests, Steps
<1>11. ASSUME NEW s \in Sockets, PostSends(s) PROVE LinkTypes'
  <2>1. posts \in Seq(Posts) /\ posts # <<>>
    BY <1>t, <1>11 DEF PostSends, Posted, EntryTypes
  <2>2. Head(posts) \in Posts
    BY <2>1, TailIs
  <2>3. Head(posts).req \in Nat
    BY <2>2 DEF Posts
  <2>4. \A q \in Seq(Nat) : Append(q, Head(posts).req) \in Seq(Nat)
    BY <2>3
  <2> QED
    BY <1>t, <1>h, <1>11, <2>4 DEF PostSends, Idle, At, linkVars, entryVars, workerVars, LinkTypes
<1>12. ASSUME NEW s \in Sockets, PostSendsHttp(s) PROVE LinkTypes'
  <2>1. posts \in Seq(Posts) /\ posts # <<>>
    BY <1>t, <1>12 DEF PostSendsHttp, Posted, EntryTypes
  <2>2. Head(posts) \in Posts
    BY <2>1, TailIs
  <2>3. Head(posts).req \in Nat
    BY <2>2 DEF Posts
  <2>4. \A q \in Seq(Nat) : Append(q, Head(posts).req) \in Seq(Nat)
    BY <2>3
  <2> QED
    BY <1>t, <1>h, <1>12, <2>4 DEF PostSendsHttp, Idle, At, linkVars, entryVars, workerVars, LinkTypes
<1>13. ASSUME NEW s \in Sockets, PostHttpThrows(s) PROVE LinkTypes'
  BY <1>f, <1>13, PostHttpThrowsDoes
<1>14. ASSUME NEW s \in Sockets, HttpCloseReturns(s) PROVE LinkTypes'
  BY <1>f, <1>14, HttpCloseReturnsDoes
<1>15. ASSUME NEW s \in Sockets, InterruptHandler(s) PROVE LinkTypes'
  BY <1>t, <1>h, <1>15 DEF InterruptHandler, Posted, Erases, Idle, At, linkVars, entryVars, workerVars, LinkTypes, EntryTypes,
     WorkerTypes, Phases, Places, PostKinds, Posts, Items, Requests, Steps
<1>16. ASSUME NEW s \in Sockets, ClearTakes(s) PROVE LinkTypes'
  BY <1>f, <1>16, ClearTakesDoes
<1>17. ASSUME NEW s \in Sockets, ClearJoins(s) PROVE LinkTypes'
  BY <1>f, <1>17, ClearJoinsDoes
<1>18. ASSUME NEW s \in Sockets, UsesDestroyed(s) PROVE LinkTypes'
  BY <1>f, <1>18, UsesDestroyedDoes
<1>19. ASSUME PostReadsState PROVE LinkTypes'
  BY <1>f, <1>19, PostReadsStateDoes
<1>20. ASSUME PostClosesAll PROVE LinkTypes'
  BY <1>t, <1>h, <1>20 DEF PostClosesAll, Posted, Idle, At, linkVars, entryVars, workerVars, LinkTypes, EntryTypes,
     WorkerTypes, Phases, Places, PostKinds, Posts, Items, Requests, Steps
<1>21. ASSUME ClearEnds PROVE LinkTypes'
  BY <1>f, <1>21, ClearEndsDoes
<1>22. ASSUME NEW s \in Sockets, ExecutorServes(s) PROVE LinkTypes'
  BY <1>f, <1>22, ExecutorServesDoes
<1>23. ASSUME NEW s \in Sockets, ExecutorBlocks(s) PROVE LinkTypes'
  BY <1>f, <1>23, ExecutorBlocksDoes
<1>24. ASSUME NEW s \in Sockets, ExecutorFlushes(s) PROVE LinkTypes'
  BY <1>f, <1>24, ExecutorFlushesDoes
<1>25. ASSUME NEW s \in Sockets, ExecutorTimesOut(s) PROVE LinkTypes'
  BY <1>f, <1>25, ExecutorTimesOutDoes
<1>26. ASSUME NEW s \in Sockets, ExecutorEnds(s) PROVE LinkTypes'
  BY <1>f, <1>26, ExecutorEndsDoes
<1>27. ASSUME NEW s \in Sockets, WorkerCreatesQueue(s) PROVE LinkTypes'
  BY <1>f, <1>27, WorkerCreatesQueueDoes
<1>28. ASSUME NEW s \in Sockets, WorkerDestroysQueue(s) PROVE LinkTypes'
  BY <1>f, <1>28, WorkerDestroysQueueDoes
<1>29. ASSUME WorkerShutsDown PROVE LinkTypes'
  BY <1>f, <1>29, WorkerShutsDownDoes
<1>30. ASSUME NEW c \in cmds, WorkerRuns(c) PROVE LinkTypes'
  BY <1>f, <1>30, WorkerRunsDoes
<1>31. ASSUME NEW c \in cmds, WorkerAsksState(c) PROVE LinkTypes'
  BY <1>f, <1>31, WorkerAsksStateDoes
<1>32. ASSUME NEW c \in cmds, WorkerHasState(c) PROVE LinkTypes'
  BY <1>f, <1>32, WorkerHasStateDoes
<1>33. ASSUME ShutdownBegins PROVE LinkTypes'
  BY <1>f, <1>33, ShutdownBeginsDoes
<1>34. ASSUME StopsManager PROVE LinkTypes'
  BY <1>f, <1>34, StopsManagerDoes
<1>35. ASSUME DestroysServer PROVE LinkTypes'
  BY <1>f, <1>35, DestroysServerDoes
<1>36. ASSUME JoinsIo PROVE LinkTypes'
  BY <1>f, <1>36, JoinsIoDoes
<1>37. ASSUME NEW s \in Sockets, ClientConnects(s) PROVE LinkTypes'
  <2>1. gen[s] + 1 \in 0..MaxOpens[habits]
    BY <1>t, <1>37, OpensLeft, ClientConnectsDoes
  <2>2. gen[s] + 1 \in Nat /\ reqs \in Seq(Requests)
    BY <1>t, <2>1, OpensNat DEF LinkTypes
  <2>3. [s |-> s, gen |-> gen[s] + 1, kind |-> "run", queue |-> s] \in Requests
    BY <2>2 DEF Requests, RequestKinds
  <2>4. /\ gen' = [gen EXCEPT ![s] = gen[s] + 1]
        /\ gen'[s] = gen[s] + 1
        /\ got' = [got EXCEPT ![s] = <<>>]
        /\ phase' \in {[phase EXCEPT ![s] = "handshake"], [phase EXCEPT ![s] = "http"]}
    BY <1>t, <1>37 DEF ClientConnects, LinkTypes
  <2>5. gen' \in [Sockets -> 0..MaxOpens[habits]] /\ got' \in [Sockets -> Seq(Nat)]
    BY <1>t, <2>1, <2>4 DEF LinkTypes
  <2>6. phase' \in [Sockets -> Phases]
    BY <1>t, <2>4 DEF LinkTypes, Phases
  <2>7. /\ reqs' = reqs \/ reqs' = Append(reqs, [s |-> s, gen |-> gen[s] + 1, kind |-> "run", queue |-> s])
        /\ inbox' = [inbox EXCEPT ![s] = <<>>] \/ inbox' = [inbox EXCEPT ![s] = <<Len(reqs')>>]
        /\ sent' = [sent EXCEPT ![s] = <<>>] \/ sent' = [sent EXCEPT ![s] = <<Len(reqs')>>]
    BY <1>37, <2>4 DEF ClientConnects, Request
  <2>8. reqs' \in Seq(Requests)
    BY <2>2, <2>3, <2>7
  <2>9. <<Len(reqs')>> \in Seq(Nat)
    BY <2>8
  <2>10. inbox' \in [Sockets -> Seq(Nat)] /\ sent' \in [Sockets -> Seq(Nat)]
    <3>1. ASSUME NEW x \in Seq(Nat)
          PROVE  /\ [inbox EXCEPT ![s] = x] \in [Sockets -> Seq(Nat)]
                 /\ [sent EXCEPT ![s] = x] \in [Sockets -> Seq(Nat)]
      BY <1>t DEF LinkTypes
    <3>2. <<>> \in Seq(Nat)
      OBVIOUS
    <3>3. /\ [inbox EXCEPT ![s] = <<>>] \in [Sockets -> Seq(Nat)]
          /\ [sent EXCEPT ![s] = <<>>] \in [Sockets -> Seq(Nat)]
          /\ [inbox EXCEPT ![s] = <<Len(reqs')>>] \in [Sockets -> Seq(Nat)]
          /\ [sent EXCEPT ![s] = <<Len(reqs')>>] \in [Sockets -> Seq(Nat)]
      BY <2>9, <3>1, <3>2, Zenon
    <3> QED
      BY <2>7, <3>3, Zenon
  <2> QED
    BY <1>t, <1>h, <2>5, <2>6, <2>8, <2>10 DEF LinkTypes
<1>38. ASSUME NEW s \in Sockets, ClientCloses(s) PROVE LinkTypes'
  BY <1>t, <1>h, <1>38 DEF ClientCloses, Answered, ToSet, linkVars, entryVars, workerVars, LinkTypes, EntryTypes,
     WorkerTypes, Phases, Places, PostKinds, Posts, Items, Requests, Steps
<1>39. ASSUME NEW s \in Sockets, NEW k \in Kinds, NEW q \in Names(s, k), ClientSends(s, k, q) PROVE LinkTypes'
  <2>1. gen[s] \in Nat /\ reqs \in Seq(Requests)
    BY <1>t, OpensNat DEF LinkTypes
  <2>2. k \in RequestKinds /\ q \in Sockets
    BY <1>39, ClientSendsDoes
  <2>3. [s |-> s, gen |-> gen[s], kind |-> k, queue |-> q] \in Requests
    BY <2>1, <2>2 DEF Requests, RequestKinds
  <2>4. /\ reqs' = Append(reqs, [s |-> s, gen |-> gen[s], kind |-> k, queue |-> q])
        /\ inbox' = [inbox EXCEPT ![s] = Append(inbox[s], Len(reqs'))]
        /\ sent' = [sent EXCEPT ![s] = Append(sent[s], Len(reqs'))]
        /\ UNCHANGED <<phase, gen, got>>
    BY <1>39 DEF ClientSends, Request
  <2>5. reqs' \in Seq(Requests)
    BY <2>1, <2>3, <2>4
  <2>6. Append(inbox[s], Len(reqs')) \in Seq(Nat) /\ Append(sent[s], Len(reqs')) \in Seq(Nat)
    <3>1. Len(reqs') \in Nat /\ inbox[s] \in Seq(Nat) /\ sent[s] \in Seq(Nat)
      BY <1>t, <2>5 DEF LinkTypes
    <3> QED
      BY <3>1
  <2>7. inbox' \in [Sockets -> Seq(Nat)] /\ sent' \in [Sockets -> Seq(Nat)]
    BY <1>t, <2>4, <2>6 DEF LinkTypes
  <2> QED
    BY <1>t, <1>h, <2>4, <2>5, <2>7 DEF LinkTypes
<1>40. ASSUME NEW s \in Sockets, TextHandler(s) PROVE LinkTypes'
  BY <1>f, <1>40, TextHandlerDoes
<1>41. ASSUME NEW s \in Sockets, ClientSendsText(s) PROVE LinkTypes'
  <2>1. gen[s] \in Nat /\ reqs \in Seq(Requests)
    BY <1>t, OpensNat DEF LinkTypes
  <2>3. [s |-> s, gen |-> gen[s], kind |-> "text", queue |-> s] \in Requests
    BY <2>1 DEF Requests, RequestKinds
  <2>4. /\ reqs' = Append(reqs, [s |-> s, gen |-> gen[s], kind |-> "text", queue |-> s])
        /\ UNCHANGED <<phase, gen, inbox, sent, got>>
    BY <1>41 DEF ClientSendsText, Request
  <2>5. reqs' \in Seq(Requests)
    BY <2>1, <2>3, <2>4
  <2> QED
    BY <1>t, <1>h, <2>4, <2>5 DEF LinkTypes
<1> QED
  BY <1>1, <1>2, <1>3, <1>4, <1>5, <1>6, <1>7, <1>8, <1>9, <1>10, <1>11, <1>12, <1>13, <1>14,
     <1>15, <1>16, <1>17, <1>18, <1>19, <1>20, <1>21, <1>22, <1>23, <1>24, <1>25, <1>26,
     <1>27, <1>28, <1>29, <1>30, <1>31, <1>32, <1>33, <1>34, <1>35, <1>36, <1>37, <1>38,
     <1>39, <1>40, <1>41
     DEF Next, IoThread, Executor, Worker, Owner, Client

(* Steps keep the types of entries, executors and posted functions. *)
LEMMA EntryTypesNext ==
  ASSUME WInv, Next
  PROVE  EntryTypes'
<1>t. LinkTypes /\ EntryTypes /\ WorkerTypes
  BY TypesOf
<1>h. habits' = habits
  BY DEF Next
<1>f. UNCHANGED <<ws_conns, buffer, work, serving, epc, posts, io>> => EntryTypes'
  BY <1>t, <1>h DEF EntryTypes
<1>1. ASSUME NEW s \in Sockets, ValidateHandler(s) PROVE EntryTypes'
  BY <1>f, <1>1, ValidateHandlerDoes
<1>2. ASSUME NEW s \in Sockets, OpenHandler(s) PROVE EntryTypes'
  BY <1>t, <1>h, <1>2 DEF OpenHandler, AddConnection, Idle, At, linkVars, entryVars, workerVars, LinkTypes, EntryTypes,
     WorkerTypes, Phases, Places, PostKinds, Posts, Items, Requests, Steps
<1>3. ASSUME NEW s \in Sockets, HttpHandler(s) PROVE EntryTypes'
  BY <1>t, <1>h, <1>3 DEF HttpHandler, AddConnection, Idle, At, linkVars, entryVars, workerVars, LinkTypes, EntryTypes,
     WorkerTypes, Phases, Places, PostKinds, Posts, Items, Requests, Steps
<1>4. ASSUME NEW s \in Sockets, AcceptReturns(s) PROVE EntryTypes'
  <2>0. inbox[s] \in Seq(Nat) /\ (phase[s] = "http" => Len(inbox[s]) > 0)
    <3>1. phase[s] = "http" => Len(inbox[s]) > 0
      BY <1>4, AcceptReturnsDoes
    <3> QED
      BY <1>t, <3>1 DEF LinkTypes
  <2>1. phase[s] = "http" => inbox[s] # <<>>
    BY <2>0
  <2>2. phase[s] = "http" => Tail(inbox[s]) \in Seq(Nat) /\ Head(inbox[s]) \in Nat
    BY <2>0, <2>1, TailIs
  <2>3. /\ phase[s] = "http" => /\ inbox' = [inbox EXCEPT ![s] = Tail(inbox[s])]
                               /\ buffer' = [buffer EXCEPT ![s] = Head(inbox[s])]
                               /\ phase' = phase
        /\ phase[s] # "http" => UNCHANGED <<buffer, inbox>> /\ phase' = [phase EXCEPT ![s] = "open"]
        /\ io' = At("push", s) \/ io' = Idle
        /\ UNCHANGED <<gen, sent, got, reqs, ws_conns, work, serving, epc, posts>>
    BY <1>4 DEF AcceptReturns, StoresRequest
  <2>4. At("push", s) \in [at : Places, s : Sockets \cup {0}] /\ Idle \in [at : Places, s : Sockets \cup {0}]
    BY DEF At, Idle, Places
  <2>5. CASE phase[s] = "http"
    <3>1. /\ \A x \in Seq(Nat) : [inbox EXCEPT ![s] = x] \in [Sockets -> Seq(Nat)]
          /\ \A x \in Nat : [buffer EXCEPT ![s] = x] \in [Sockets -> Nat]
      BY <1>t DEF LinkTypes, EntryTypes
    <3>2. inbox' \in [Sockets -> Seq(Nat)] /\ buffer' \in [Sockets -> Nat] /\ phase' = phase
      BY <2>2, <2>3, <2>5, <3>1, Zenon
    <3>3. io' \in [at : Places, s : Sockets \cup {0}]
      BY <2>3, <2>4, Zenon
    <3> QED
      BY <1>t, <1>h, <2>3, <3>2, <3>3 DEF LinkTypes, EntryTypes
  <2>6. CASE phase[s] # "http"
    BY <1>t, <1>h, <2>3, <2>4, <2>6 DEF LinkTypes, EntryTypes, Phases
  <2> QED
    BY <2>5, <2>6
<1>5. ASSUME NEW s \in Sockets, MessageHandler(s) PROVE EntryTypes'
  BY <1>t, <1>h, <1>5 DEF MessageHandler, StoresRequest, Idle, At, linkVars, entryVars, workerVars, LinkTypes, EntryTypes,
     WorkerTypes, Phases, Places, PostKinds, Posts, Items, Requests, Steps
<1>6. ASSUME NEW s \in Sockets, PushWork(s) PROVE EntryTypes'
  BY <1>t, <1>h, <1>6 DEF PushWork, Room, Idle, At, linkVars, entryVars, workerVars, LinkTypes, EntryTypes,
     WorkerTypes, Phases, Places, PostKinds, Posts, Items, Requests, Steps
<1>7. ASSUME NEW s \in Sockets, CloseHandler(s) PROVE EntryTypes'
  BY <1>t, <1>h, <1>7 DEF CloseHandler, Idle, At, linkVars, entryVars, workerVars, LinkTypes, EntryTypes,
     WorkerTypes, Phases, Places, PostKinds, Posts, Items, Requests, Steps
<1>8. ASSUME NEW s \in Sockets, CloseReturns(s) PROVE EntryTypes'
  BY <1>t, <1>h, <1>8 DEF CloseReturns, Erases, Idle, At, linkVars, entryVars, workerVars, LinkTypes, EntryTypes,
     WorkerTypes, Phases, Places, PostKinds, Posts, Items, Requests, Steps
<1>9. ASSUME NEW s \in Sockets, StopsExecutor(s) PROVE EntryTypes'
  BY <1>t, <1>h, <1>9 DEF StopsExecutor, Room, At, linkVars, entryVars, workerVars, LinkTypes, EntryTypes,
     WorkerTypes, Phases, Places, PostKinds, Posts, Items, Requests, Steps
<1>10. ASSUME NEW s \in Sockets, JoinsExecutor(s) PROVE EntryTypes'
  BY <1>t, <1>h, <1>10 DEF JoinsExecutor, Idle, At, linkVars, entryVars, workerVars, LinkTypes, EntryTypes,
     WorkerTypes, Phases, Places, PostKinds, Posts, Items, Requests, Steps
<1>11. ASSUME NEW s \in Sockets, PostSends(s) PROVE EntryTypes'
  <2>1. posts \in Seq(Posts) /\ posts # <<>>
    BY <1>t, <1>11 DEF PostSends, Posted, EntryTypes
  <2>2. Tail(posts) \in Seq(Posts)
    BY <2>1, TailIs
  <2>3. /\ posts' = Tail(posts) /\ epc' = [epc EXCEPT ![s] = "idle"]
        /\ UNCHANGED <<ws_conns, buffer, work, serving, io>>
    BY <1>11 DEF PostSends, entryVars
  <2> QED
    BY <1>t, <2>2, <2>3 DEF EntryTypes, Steps
<1>12. ASSUME NEW s \in Sockets, PostSendsHttp(s) PROVE EntryTypes'
  BY <1>t, <1>h, <1>12 DEF PostSendsHttp, Posted, Idle, At, linkVars, entryVars, workerVars, LinkTypes, EntryTypes,
     WorkerTypes, Phases, Places, PostKinds, Posts, Items, Requests, Steps
<1>13. ASSUME NEW s \in Sockets, PostHttpThrows(s) PROVE EntryTypes'
  BY <1>t, <1>h, <1>13 DEF PostHttpThrows, Posted, Idle, Interrupts, linkVars, entryVars, workerVars, LinkTypes, EntryTypes,
     WorkerTypes, Phases, Places, PostKinds, Posts, Items, Requests, Steps
<1>14. ASSUME NEW s \in Sockets, HttpCloseReturns(s) PROVE EntryTypes'
  BY <1>t, <1>h, <1>14 DEF HttpCloseReturns, HttpInterrupts, Idle, At, linkVars, entryVars, workerVars, LinkTypes, EntryTypes,
     WorkerTypes, Phases, Places, PostKinds, Posts, Items, Requests, Steps
<1>15. ASSUME NEW s \in Sockets, InterruptHandler(s) PROVE EntryTypes'
  BY <1>t, <1>h, <1>15 DEF InterruptHandler, Posted, Erases, Idle, At, linkVars, entryVars, workerVars, LinkTypes, EntryTypes,
     WorkerTypes, Phases, Places, PostKinds, Posts, Items, Requests, Steps
<1>16. ASSUME NEW s \in Sockets, ClearTakes(s) PROVE EntryTypes'
  BY <1>t, <1>h, <1>16 DEF ClearTakes, Erases, At, linkVars, entryVars, workerVars, LinkTypes, EntryTypes,
     WorkerTypes, Phases, Places, PostKinds, Posts, Items, Requests, Steps
<1>17. ASSUME NEW s \in Sockets, ClearJoins(s) PROVE EntryTypes'
  BY <1>t, <1>h, <1>17 DEF ClearJoins, At, linkVars, entryVars, workerVars, LinkTypes, EntryTypes,
     WorkerTypes, Phases, Places, PostKinds, Posts, Items, Requests, Steps
<1>18. ASSUME NEW s \in Sockets, UsesDestroyed(s) PROVE EntryTypes'
  BY <1>t, <1>h, <1>18 DEF UsesDestroyed, Idle, At, linkVars, entryVars, workerVars, LinkTypes, EntryTypes,
     WorkerTypes, Phases, Places, PostKinds, Posts, Items, Requests, Steps
<1>19. ASSUME PostReadsState PROVE EntryTypes'
  BY <1>t, <1>h, <1>19 DEF PostReadsState, Posted, Idle, linkVars, entryVars, workerVars, LinkTypes, EntryTypes,
     WorkerTypes, Phases, Places, PostKinds, Posts, Items, Requests, Steps
<1>20. ASSUME PostClosesAll PROVE EntryTypes'
  BY <1>t, <1>h, <1>20 DEF PostClosesAll, Posted, Idle, At, linkVars, entryVars, workerVars, LinkTypes, EntryTypes,
     WorkerTypes, Phases, Places, PostKinds, Posts, Items, Requests, Steps
<1>21. ASSUME ClearEnds PROVE EntryTypes'
  BY <1>t, <1>h, <1>21 DEF ClearEnds, Idle, At, linkVars, entryVars, workerVars, LinkTypes, EntryTypes,
     WorkerTypes, Phases, Places, PostKinds, Posts, Items, Requests, Steps
<1>22. ASSUME NEW s \in Sockets, ExecutorServes(s) PROVE EntryTypes'
  <2> DEFINE p == [kind |-> IF phase[s] = "http" THEN "http" ELSE "send", s |-> s, req |-> buffer[s]]
  <2>1. p \in Posts
    BY <1>t DEF EntryTypes, Posts, PostKinds
  <2>2. /\ posts' = Append(posts, p) /\ work' = [work EXCEPT ![s] = Tail(work[s])]
        /\ epc' = [epc EXCEPT ![s] = "posting"] /\ work[s] # <<>>
        /\ UNCHANGED <<ws_conns, buffer, serving, io>>
    BY <1>t, <1>22 DEF ExecutorServes, Takes, Replies, Popped, EntryTypes
  <2> HIDE DEF p
  <2>3. posts' \in Seq(Posts)
    BY <1>t, <2>1, <2>2 DEF EntryTypes
  <2>4. work[s] \in Seq(Items)
    BY <1>t DEF EntryTypes
  <2>5. Tail(work[s]) \in Seq(Items)
    BY <2>2, <2>4, TailIs
  <2>6. work' \in [Sockets -> Seq(Items)]
    BY <1>t, <2>2, <2>5 DEF EntryTypes
  <2> QED
    BY <1>t, <2>2, <2>3, <2>6 DEF EntryTypes, Steps
<1>23. ASSUME NEW s \in Sockets, ExecutorBlocks(s) PROVE EntryTypes'
  <2>2. /\ work' = [work EXCEPT ![s] = Tail(work[s])] /\ serving' = [serving EXCEPT ![s] = buffer[s]]
        /\ epc' = [epc EXCEPT ![s] = "polling"] /\ work[s] # <<>>
        /\ UNCHANGED <<ws_conns, buffer, posts, io>>
    BY <1>t, <1>23 DEF ExecutorBlocks, Takes, Popped, EntryTypes
  <2>4. work[s] \in Seq(Items)
    BY <1>t DEF EntryTypes
  <2>5. Tail(work[s]) \in Seq(Items)
    BY <2>2, <2>4, TailIs
  <2>6. work' \in [Sockets -> Seq(Items)]
    BY <1>t, <2>2, <2>5 DEF EntryTypes
  <2> QED
    BY <1>t, <2>2, <2>6 DEF EntryTypes, Steps
<1>24. ASSUME NEW s \in Sockets, ExecutorFlushes(s) PROVE EntryTypes'
  <2> DEFINE p == [kind |-> IF phase[s] = "http" THEN "http" ELSE "send", s |-> s, req |-> serving[s]]
  <2>1. p \in Posts
    BY <1>t DEF EntryTypes, Posts, PostKinds
  <2>2. /\ posts' = Append(posts, p) /\ epc' = [epc EXCEPT ![s] = "posting"]
        /\ UNCHANGED <<ws_conns, buffer, work, serving, io>>
    BY <1>24 DEF ExecutorFlushes, Replies, entryVars
  <2> HIDE DEF p
  <2>3. posts' \in Seq(Posts)
    BY <1>t, <2>1, <2>2 DEF EntryTypes
  <2> QED
    BY <1>t, <2>2, <2>3 DEF EntryTypes, Steps
<1>25. ASSUME NEW s \in Sockets, ExecutorTimesOut(s) PROVE EntryTypes'
  BY <1>t, <1>h, <1>25 DEF ExecutorTimesOut, linkVars, entryVars, workerVars, LinkTypes, EntryTypes,
     WorkerTypes, Phases, Places, PostKinds, Posts, Items, Requests, Steps
<1>26. ASSUME NEW s \in Sockets, ExecutorEnds(s) PROVE EntryTypes'
  BY <1>t, <1>h, <1>26 DEF ExecutorEnds, linkVars, entryVars, workerVars, LinkTypes, EntryTypes,
     WorkerTypes, Phases, Places, PostKinds, Posts, Items, Requests, Steps
<1>27. ASSUME NEW s \in Sockets, WorkerCreatesQueue(s) PROVE EntryTypes'
  BY <1>f, <1>27, WorkerCreatesQueueDoes
<1>28. ASSUME NEW s \in Sockets, WorkerDestroysQueue(s) PROVE EntryTypes'
  BY <1>f, <1>28, WorkerDestroysQueueDoes
<1>29. ASSUME WorkerShutsDown PROVE EntryTypes'
  BY <1>f, <1>29, WorkerShutsDownDoes
<1>30. ASSUME NEW c \in cmds, WorkerRuns(c) PROVE EntryTypes'
  BY <1>f, <1>30, WorkerRunsDoes
<1>31. ASSUME NEW c \in cmds, WorkerAsksState(c) PROVE EntryTypes'
  <2>1. [kind |-> "state", s |-> 0, req |-> c] \in Posts
    BY <1>t DEF WorkerTypes, Posts, PostKinds
  <2>2. /\ posts' = Append(posts, [kind |-> "state", s |-> 0, req |-> c])
        /\ UNCHANGED <<ws_conns, buffer, work, serving, epc, io>>
    BY <1>31 DEF WorkerAsksState, entryVars
  <2>3. posts' \in Seq(Posts)
    BY <1>t, <2>1, <2>2 DEF EntryTypes
  <2> QED
    BY <1>t, <2>2, <2>3 DEF EntryTypes, Steps
<1>32. ASSUME NEW c \in cmds, WorkerHasState(c) PROVE EntryTypes'
  BY <1>f, <1>32, WorkerHasStateDoes
<1>33. ASSUME ShutdownBegins PROVE EntryTypes'
  BY <1>t, <1>h, <1>33 DEF ShutdownBegins, linkVars, entryVars, workerVars, LinkTypes, EntryTypes,
     WorkerTypes, Phases, Places, PostKinds, Posts, Items, Requests, Steps
<1>34. ASSUME StopsManager PROVE EntryTypes'
  BY <1>f, <1>34, StopsManagerDoes
<1>35. ASSUME DestroysServer PROVE EntryTypes'
  BY <1>f, <1>35, DestroysServerDoes
<1>36. ASSUME JoinsIo PROVE EntryTypes'
  BY <1>f, <1>36, JoinsIoDoes
<1>37. ASSUME NEW s \in Sockets, ClientConnects(s) PROVE EntryTypes'
  BY <1>f, <1>37, ClientConnectsDoes
<1>38. ASSUME NEW s \in Sockets, ClientCloses(s) PROVE EntryTypes'
  BY <1>f, <1>38, ClientClosesDoes
<1>39. ASSUME NEW s \in Sockets, NEW k \in Kinds, NEW q \in Names(s, k), ClientSends(s, k, q) PROVE EntryTypes'
  BY <1>f, <1>39, ClientSendsDoes
<1>40. ASSUME NEW s \in Sockets, TextHandler(s) PROVE EntryTypes'
  BY <1>f, <1>40, TextHandlerDoes
<1>41. ASSUME NEW s \in Sockets, ClientSendsText(s) PROVE EntryTypes'
  BY <1>f, <1>41, ClientSendsTextDoes
<1> QED
  BY <1>1, <1>2, <1>3, <1>4, <1>5, <1>6, <1>7, <1>8, <1>9, <1>10, <1>11, <1>12, <1>13, <1>14,
     <1>15, <1>16, <1>17, <1>18, <1>19, <1>20, <1>21, <1>22, <1>23, <1>24, <1>25, <1>26,
     <1>27, <1>28, <1>29, <1>30, <1>31, <1>32, <1>33, <1>34, <1>35, <1>36, <1>37, <1>38,
     <1>39, <1>40, <1>41
     DEF Next, IoThread, Executor, Worker, Owner, Client

(* Steps keep the types of the worker and of the owner. *)
LEMMA WorkerTypesNext ==
  ASSUME WInv, Next
  PROVE  WorkerTypes'
<1>t. LinkTypes /\ EntryTypes /\ WorkerTypes
  BY TypesOf
<1>h. habits' = habits
  BY DEF Next
<1>f. UNCHANGED <<builtins, cmds, wpc, queues, results, late, owner, signaled>> => WorkerTypes'
  BY <1>t, <1>h DEF WorkerTypes
<1>1. ASSUME NEW s \in Sockets, ValidateHandler(s) PROVE WorkerTypes'
  BY <1>f, <1>1, ValidateHandlerDoes
<1>2. ASSUME NEW s \in Sockets, OpenHandler(s) PROVE WorkerTypes'
  <2>1. builtins' = builtins \cup {<<"create", s>>} /\ <<"create", s>> \in {"create", "destroy"} \X Sockets
    BY <1>2 DEF OpenHandler, AddConnection
  <2>2. UNCHANGED <<cmds, wpc, queues, results, late, owner, signaled>>
    BY <1>2 DEF OpenHandler
  <2> QED
    BY <1>t, <1>h, <2>1, <2>2 DEF WorkerTypes
<1>3. ASSUME NEW s \in Sockets, HttpHandler(s) PROVE WorkerTypes'
  <2>1. builtins' = builtins \cup {<<"create", s>>} /\ <<"create", s>> \in {"create", "destroy"} \X Sockets
    BY <1>3 DEF HttpHandler, AddConnection
  <2>2. UNCHANGED <<cmds, wpc, queues, results, late, owner, signaled>>
    BY <1>3 DEF HttpHandler
  <2> QED
    BY <1>t, <1>h, <2>1, <2>2 DEF WorkerTypes
<1>4. ASSUME NEW s \in Sockets, AcceptReturns(s) PROVE WorkerTypes'
  BY <1>f, <1>4, AcceptReturnsDoes
<1>5. ASSUME NEW s \in Sockets, MessageHandler(s) PROVE WorkerTypes'
  BY <1>f, <1>5, MessageHandlerDoes
<1>6. ASSUME NEW s \in Sockets, PushWork(s) PROVE WorkerTypes'
  BY <1>f, <1>6, PushWorkDoes
<1>7. ASSUME NEW s \in Sockets, CloseHandler(s) PROVE WorkerTypes'
  <2>1. builtins' = builtins \cup {<<"destroy", s>>} /\ <<"destroy", s>> \in {"create", "destroy"} \X Sockets
    BY <1>7 DEF CloseHandler
  <2>2. UNCHANGED <<cmds, wpc, queues, results, late, owner, signaled>>
    BY <1>7 DEF CloseHandler
  <2> QED
    BY <1>t, <1>h, <2>1, <2>2 DEF WorkerTypes
<1>8. ASSUME NEW s \in Sockets, CloseReturns(s) PROVE WorkerTypes'
  BY <1>f, <1>8, CloseReturnsDoes
<1>9. ASSUME NEW s \in Sockets, StopsExecutor(s) PROVE WorkerTypes'
  BY <1>f, <1>9, StopsExecutorDoes
<1>10. ASSUME NEW s \in Sockets, JoinsExecutor(s) PROVE WorkerTypes'
  BY <1>f, <1>10, JoinsExecutorDoes
<1>11. ASSUME NEW s \in Sockets, PostSends(s) PROVE WorkerTypes'
  BY <1>f, <1>11, PostSendsDoes
<1>12. ASSUME NEW s \in Sockets, PostSendsHttp(s) PROVE WorkerTypes'
  BY <1>t, <1>h, <1>12 DEF PostSendsHttp, Posted, Idle, At, linkVars, entryVars, workerVars, LinkTypes, EntryTypes,
     WorkerTypes, Phases, Places, PostKinds, Posts, Items, Requests, Steps
<1>13. ASSUME NEW s \in Sockets, PostHttpThrows(s) PROVE WorkerTypes'
  BY <1>f, <1>13, PostHttpThrowsDoes
<1>14. ASSUME NEW s \in Sockets, HttpCloseReturns(s) PROVE WorkerTypes'
  BY <1>f, <1>14, HttpCloseReturnsDoes
<1>15. ASSUME NEW s \in Sockets, InterruptHandler(s) PROVE WorkerTypes'
  BY <1>f, <1>15, InterruptHandlerDoes
<1>16. ASSUME NEW s \in Sockets, ClearTakes(s) PROVE WorkerTypes'
  BY <1>f, <1>16, ClearTakesDoes
<1>17. ASSUME NEW s \in Sockets, ClearJoins(s) PROVE WorkerTypes'
  BY <1>f, <1>17, ClearJoinsDoes
<1>18. ASSUME NEW s \in Sockets, UsesDestroyed(s) PROVE WorkerTypes'
  BY <1>t, <1>h, <1>18 DEF UsesDestroyed, Idle, At, linkVars, entryVars, workerVars, LinkTypes, EntryTypes,
     WorkerTypes, Phases, Places, PostKinds, Posts, Items, Requests, Steps
<1>19. ASSUME PostReadsState PROVE WorkerTypes'
  BY <1>t, <1>h, <1>19 DEF PostReadsState, Posted, Idle, linkVars, entryVars, workerVars, LinkTypes, EntryTypes,
     WorkerTypes, Phases, Places, PostKinds, Posts, Items, Requests, Steps
<1>20. ASSUME PostClosesAll PROVE WorkerTypes'
  BY <1>f, <1>20, PostClosesAllDoes
<1>21. ASSUME ClearEnds PROVE WorkerTypes'
  BY <1>t, <1>h, <1>21 DEF ClearEnds, Idle, At, linkVars, entryVars, workerVars, LinkTypes, EntryTypes,
     WorkerTypes, Phases, Places, PostKinds, Posts, Items, Requests, Steps
<1>22. ASSUME NEW s \in Sockets, ExecutorServes(s) PROVE WorkerTypes'
  <2>1. /\ cmds' = cmds \/ cmds' = cmds \cup {buffer[s]}
        /\ signaled' \in BOOLEAN
        /\ results' = results \/ results' = [results EXCEPT ![reqs[buffer[s]].queue] = {}]
        /\ UNCHANGED <<builtins, wpc, queues, late, owner>>
    BY <1>t, <1>22 DEF ExecutorServes, Takes, Replies, WorkerTypes
  <2>2. buffer[s] \in Nat
    BY <1>t DEF EntryTypes
  <2> QED
    BY <1>t, <2>1, <2>2 DEF WorkerTypes
<1>23. ASSUME NEW s \in Sockets, ExecutorBlocks(s) PROVE WorkerTypes'
  <2>1. /\ cmds' = cmds \/ cmds' = cmds \cup {buffer[s]}
        /\ UNCHANGED <<builtins, wpc, queues, results, late, owner, signaled>>
    BY <1>t, <1>23 DEF ExecutorBlocks, Takes, WorkerTypes
  <2>2. buffer[s] \in Nat
    BY <1>t DEF EntryTypes
  <2> QED
    BY <1>t, <2>1, <2>2 DEF WorkerTypes
<1>24. ASSUME NEW s \in Sockets, ExecutorFlushes(s) PROVE WorkerTypes'
  <2>1. /\ results' = results \/ results' = [results EXCEPT ![reqs[serving[s]].queue] = {}]
        /\ UNCHANGED <<builtins, cmds, wpc, queues, late, owner, signaled>>
    BY <1>24 DEF ExecutorFlushes, Replies
  <2> QED
    BY <1>t, <2>1 DEF WorkerTypes
<1>25. ASSUME NEW s \in Sockets, ExecutorTimesOut(s) PROVE WorkerTypes'
  BY <1>f, <1>25, ExecutorTimesOutDoes
<1>26. ASSUME NEW s \in Sockets, ExecutorEnds(s) PROVE WorkerTypes'
  BY <1>f, <1>26, ExecutorEndsDoes
<1>27. ASSUME NEW s \in Sockets, WorkerCreatesQueue(s) PROVE WorkerTypes'
  BY <1>t, <1>h, <1>27 DEF WorkerCreatesQueue, linkVars, entryVars, workerVars, LinkTypes, EntryTypes,
     WorkerTypes, Phases, Places, PostKinds, Posts, Items, Requests, Steps
<1>28. ASSUME NEW s \in Sockets, WorkerDestroysQueue(s) PROVE WorkerTypes'
  BY <1>t, <1>h, <1>28 DEF WorkerDestroysQueue, DestroysQueue, linkVars, entryVars, workerVars, LinkTypes, EntryTypes,
     WorkerTypes, Phases, Places, PostKinds, Posts, Items, Requests, Steps
<1>29. ASSUME WorkerShutsDown PROVE WorkerTypes'
  BY <1>t, <1>h, <1>29 DEF WorkerShutsDown, linkVars, entryVars, workerVars, LinkTypes, EntryTypes,
     WorkerTypes, Phases, Places, PostKinds, Posts, Items, Requests, Steps
<1>30. ASSUME NEW c \in cmds, WorkerRuns(c) PROVE WorkerTypes'
  BY <1>t, <1>h, <1>30 DEF WorkerRuns, Finishes, linkVars, entryVars, workerVars, LinkTypes, EntryTypes,
     WorkerTypes, Phases, Places, PostKinds, Posts, Items, Requests, Steps
<1>31. ASSUME NEW c \in cmds, WorkerAsksState(c) PROVE WorkerTypes'
  BY <1>t, <1>h, <1>31 DEF WorkerAsksState, linkVars, entryVars, workerVars, LinkTypes, EntryTypes,
     WorkerTypes, Phases, Places, PostKinds, Posts, Items, Requests, Steps
<1>32. ASSUME NEW c \in cmds, WorkerHasState(c) PROVE WorkerTypes'
  BY <1>t, <1>h, <1>32 DEF WorkerHasState, Finishes, linkVars, entryVars, workerVars, LinkTypes, EntryTypes,
     WorkerTypes, Phases, Places, PostKinds, Posts, Items, Requests, Steps
<1>33. ASSUME ShutdownBegins PROVE WorkerTypes'
  BY <1>t, <1>h, <1>33 DEF ShutdownBegins, linkVars, entryVars, workerVars, LinkTypes, EntryTypes,
     WorkerTypes, Phases, Places, PostKinds, Posts, Items, Requests, Steps
<1>34. ASSUME StopsManager PROVE WorkerTypes'
  BY <1>t, <1>h, <1>34 DEF StopsManager, linkVars, entryVars, workerVars, LinkTypes, EntryTypes,
     WorkerTypes, Phases, Places, PostKinds, Posts, Items, Requests, Steps
<1>35. ASSUME DestroysServer PROVE WorkerTypes'
  BY <1>t, <1>h, <1>35 DEF DestroysServer, linkVars, entryVars, workerVars, LinkTypes, EntryTypes,
     WorkerTypes, Phases, Places, PostKinds, Posts, Items, Requests, Steps
<1>36. ASSUME JoinsIo PROVE WorkerTypes'
  BY <1>t, <1>h, <1>36 DEF JoinsIo, linkVars, entryVars, workerVars, LinkTypes, EntryTypes,
     WorkerTypes, Phases, Places, PostKinds, Posts, Items, Requests, Steps
<1>37. ASSUME NEW s \in Sockets, ClientConnects(s) PROVE WorkerTypes'
  BY <1>f, <1>37, ClientConnectsDoes
<1>38. ASSUME NEW s \in Sockets, ClientCloses(s) PROVE WorkerTypes'
  BY <1>f, <1>38, ClientClosesDoes
<1>39. ASSUME NEW s \in Sockets, NEW k \in Kinds, NEW q \in Names(s, k), ClientSends(s, k, q) PROVE WorkerTypes'
  BY <1>f, <1>39, ClientSendsDoes
<1>40. ASSUME NEW s \in Sockets, TextHandler(s) PROVE WorkerTypes'
  BY <1>f, <1>40, TextHandlerDoes
<1>41. ASSUME NEW s \in Sockets, ClientSendsText(s) PROVE WorkerTypes'
  BY <1>f, <1>41, ClientSendsTextDoes
<1> QED
  BY <1>1, <1>2, <1>3, <1>4, <1>5, <1>6, <1>7, <1>8, <1>9, <1>10, <1>11, <1>12, <1>13, <1>14,
     <1>15, <1>16, <1>17, <1>18, <1>19, <1>20, <1>21, <1>22, <1>23, <1>24, <1>25, <1>26,
     <1>27, <1>28, <1>29, <1>30, <1>31, <1>32, <1>33, <1>34, <1>35, <1>36, <1>37, <1>38,
     <1>39, <1>40, <1>41
     DEF Next, IoThread, Executor, Worker, Owner, Client

-----------------------------------------------------------------------------
(* The types after a step. *)
LEMMA TypesAfter ==
  ASSUME WInv, Next
  PROVE  LinkTypes' /\ EntryTypes' /\ WorkerTypes'
BY LinkTypesNext, EntryTypesNext, WorkerTypesNext

(* What the types say of one socket. *)
Sizes(s) ==
  /\ Len(inbox[s]) \in Nat /\ Len(sent[s]) \in Nat /\ Len(got[s]) \in Nat /\ Len(work[s]) \in Nat
  /\ phase[s] \in Phases /\ epc[s] \in Steps
  /\ buffer[s] \in Nat /\ serving[s] \in Nat /\ gen[s] \in Nat
  /\ Len(reqs) \in Nat /\ Len(posts) \in Nat
  /\ \A i \in 1..Len(work[s]) : work[s][i] \in Items
  /\ ExecutorSize \in Nat /\ ExecutorSize > 0

(* Now, *)
LEMMA SizesOf ==
  ASSUME LinkTypes, EntryTypes, NEW s \in Sockets
  PROVE  Sizes(s)
<1>1. Len(inbox[s]) \in Nat /\ Len(sent[s]) \in Nat /\ Len(got[s]) \in Nat
  <2>1. inbox[s] \in Seq(Nat) /\ sent[s] \in Seq(Nat) /\ got[s] \in Seq(Nat)
    BY DEF LinkTypes
  <2> QED
    BY <2>1
<1>2. work[s] \in Seq(Items)
  BY DEF EntryTypes
<1>3. Len(work[s]) \in Nat /\ \A i \in 1..Len(work[s]) : work[s][i] \in Items
  BY <1>2
<1>4. Len(reqs) \in Nat /\ Len(posts) \in Nat
  BY DEF LinkTypes, EntryTypes
<1>5. phase[s] \in Phases /\ gen[s] \in Nat
  BY OpensNat DEF LinkTypes
<1>6. epc[s] \in Steps /\ buffer[s] \in Nat /\ serving[s] \in Nat
  BY DEF EntryTypes
<1> QED
  BY <1>1, <1>3, <1>4, <1>5, <1>6, ServerAssumption DEF Sizes

(* and after a step. *)
LEMMA SizesAfter ==
  ASSUME LinkTypes', EntryTypes', NEW s \in Sockets
  PROVE  Sizes(s)'
<1>1. Len(inbox'[s]) \in Nat /\ Len(sent'[s]) \in Nat /\ Len(got'[s]) \in Nat
  <2>1. inbox'[s] \in Seq(Nat) /\ sent'[s] \in Seq(Nat) /\ got'[s] \in Seq(Nat)
    BY DEF LinkTypes
  <2> QED
    BY <2>1
<1>2. work'[s] \in Seq(Items)
  BY DEF EntryTypes
<1>3. Len(work'[s]) \in Nat /\ \A i \in 1..Len(work'[s]) : work'[s][i] \in Items
  BY <1>2
<1>4. Len(reqs') \in Nat /\ Len(posts') \in Nat
  BY DEF LinkTypes, EntryTypes
<1>5. phase'[s] \in Phases /\ gen'[s] \in Nat
  <2>1. MaxOpens[habits'] \in Nat
    BY ServerAssumption DEF LinkTypes
  <2> QED
    BY <2>1 DEF LinkTypes
<1>6. epc'[s] \in Steps /\ buffer'[s] \in Nat /\ serving'[s] \in Nat
  BY DEF EntryTypes
<1> QED
  BY <1>1, <1>3, <1>4, <1>5, <1>6, ServerAssumption DEF Sizes

(* A step may add requests and nothing else that others see: what all steps  *)
(* but the ends of the service and of a clearing have in common.             *)
Steady ==
  /\ habits' = habits
  /\ Len(reqs') \in Nat /\ Len(reqs) \in Nat /\ Len(reqs') >= Len(reqs)
  /\ \A i \in 1..Len(reqs) : reqs'[i] = reqs[i]
  /\ owner' = "running" <=> owner = "running"
  /\ io'.at \in Clearing <=> io.at \in Clearing
  /\ late \subseteq late'

(* A step has nothing to do with socket t. *)
Busy == Places \ {"idle", "clearing"}
Away(t) == ~IoAt(Busy, t)
Same(t) ==
  /\ phase'[t] = phase[t] /\ gen'[t] = gen[t] /\ inbox'[t] = inbox[t]
  /\ sent'[t] = sent[t] /\ got'[t] = got[t] /\ buffer'[t] = buffer[t]
  /\ work'[t] = work[t] /\ serving'[t] = serving[t] /\ epc'[t] = epc[t]
  /\ t \in ws_conns' <=> t \in ws_conns
  /\ t \in queues' <=> t \in queues
  /\ <<"create", t>> \in builtins' <=> <<"create", t>> \in builtins
  /\ <<"destroy", t>> \in builtins' <=> <<"destroy", t>> \in builtins
  /\ results'[t] \subseteq results[t]
  /\ io' = io \/ (Away(t) /\ Away(t)')
  /\ \A c \in cmds' : c \in cmds \/ reqs'[c].s # t

(* The places of the io thread, seen from a socket it does not work for. *)
LEMMA IoSame ==
  ASSUME NEW t \in Sockets, io' = io \/ (Away(t) /\ Away(t)')
  PROVE  /\ IoAt(Ending, t)' <=> IoAt(Ending, t)
         /\ IoAt(Joining, t)' <=> IoAt(Joining, t)
         /\ IoAt({"accept"}, t)' <=> IoAt({"accept"}, t)
         /\ IoAt({"push"}, t)' <=> IoAt({"push"}, t)
         /\ IoAt({"close"}, t)' <=> IoAt({"close"}, t)
         /\ IoAt({"http_close"}, t)' <=> IoAt({"http_close"}, t)
         /\ IoAt({"close", "http_close"}, t)' <=> IoAt({"close", "http_close"}, t)
         /\ IoAt({"erase", "join"}, t)' <=> IoAt({"erase", "join"}, t)
         /\ IoAt({"erase", "join", "http_close"}, t)' <=> IoAt({"erase", "join", "http_close"}, t)
         /\ IoAt({"close", "erase", "join"}, t)' <=> IoAt({"close", "erase", "join"}, t)
         /\ IoAt({"clear", "clear_join"}, t)' <=> IoAt({"clear", "clear_join"}, t)
         /\ IoAt({"undefined"}, t)' <=> IoAt({"undefined"}, t)
         /\ IoAt({"accept", "erase", "join", "push"}, t)' <=> IoAt({"accept", "erase", "join", "push"}, t)
<1>1. CASE io' = io
  BY <1>1 DEF IoAt
<1>2. CASE Away(t) /\ Away(t)'
  BY <1>2 DEF Away, IoAt, Busy, Places, Ending, Joining
<1> QED
  BY <1>1, <1>2

(* A socket that a step has nothing to do with keeps its invariant. *)
LEMMA Bystander ==
  ASSUME WInv, NEW t \in Sockets, Steady, Same(t)
  PROVE  SocketInv(t)'
<1>s. /\ ExecutorInv(t) /\ PhaseInv(t) /\ IoInv(t) /\ MailInv(t) /\ BufferInv(t) /\ CountInv(t)
      /\ HttpInv(t) /\ QueueInv(t) /\ LateInv(t) /\ ResultInv(t) /\ AnswersInv(t)
  BY DEF WInv, SocketInv
<1>c. cmds \subseteq 1..Len(reqs)
  BY DEF WInv, CommandInv
<1>i. io' = io \/ (Away(t) /\ Away(t)')
  BY DEF Same
<1>0. Gone' <=> Gone
  BY DEF Steady, Gone
<1>1. ExecutorInv(t)'
  BY <1>s, <1>i, IoSame DEF Same, Steady, ExecutorInv
<1>2. PhaseInv(t)'
  BY <1>s, <1>i, IoSame DEF Same, Steady, PhaseInv
<1>3. IoInv(t)'
  BY <1>s, <1>i, IoSame DEF Same, IoInv
<1>4. MailInv(t)'
  <2>1. Parting(t)' <=> Parting(t)
    BY DEF Same, Parting
  <2>2. Unread(t)' = Unread(t)
    BY <2>1 DEF Same, Unread
  <2>3. \A i \in 1..Len(sent[t]) : /\ sent'[t][i] \in 1..Len(reqs')
                                   /\ reqs'[sent'[t][i]].s = t /\ reqs'[sent'[t][i]].gen = gen'[t]
    BY <1>s DEF Same, Steady, MailInv
  <2>4. \A i \in 1..Len(inbox[t]) : inbox'[t][i] \in 0..Len(reqs')
    BY <1>s DEF Same, Steady, MailInv
  <2> QED
    BY <1>s, <2>2, <2>3, <2>4 DEF Same, MailInv
<1>5. BufferInv(t)'
  <2>1. buffer'[t] \in 0..Len(reqs')
    BY <1>s DEF Same, Steady, BufferInv
  <2> QED
    BY <1>s, <2>1 DEF Same, BufferInv, NoWork
<1>6. CountInv(t)'
  <2>1. Parting(t)' <=> Parting(t)
    BY DEF Same, Parting
  <2>2. Unread(t)' = Unread(t)
    BY <2>1 DEF Same, Unread
  <2>3. Undone(t)' = Undone(t) /\ Pushing(t)' = Pushing(t) /\ Posting(t)' = Posting(t)
    BY <1>i, IoSame DEF Same, Undone, Pushing, Posting, Serving
  <2> QED
    BY <1>s, <2>1, <2>2, <2>3 DEF Same, Steady, CountInv
<1>7. HttpInv(t)'
  <2>1. NoWork(t)' <=> NoWork(t)
    BY DEF Same, NoWork
  <2> QED
    BY <1>s, <1>i, <2>1, IoSame DEF Same, HttpInv, Serving
<1>8. QueueInv(t)'
  BY <1>s, <1>i, <1>0, IoSame DEF Same, QueueInv
<1>9. LateInv(t)'
  <2>1. Settled(t) => Settled(t)'
    BY <1>c DEF Same, Steady, Settled
  <2> QED
    BY <1>s, <1>i, <1>0, <2>1, IoSame DEF Same, LateInv, Serving
<1>10. ResultInv(t)'
  <2>1. results'[t] \subseteq 1..Len(reqs')
    BY <1>s DEF Same, Steady, ResultInv
  <2>2. \A x \in results[t] : reqs'[x] = reqs[x]
    BY <1>s DEF Steady, ResultInv
  <2> QED
    BY <1>s, <1>0, <2>1, <2>2 DEF Same, Steady, ResultInv
<1>11. AnswersInv(t)'
  BY <1>s DEF Same, Steady, AnswersInv
<1> QED
  BY <1>1, <1>2, <1>3, <1>4, <1>5, <1>6, <1>7, <1>8, <1>9, <1>10, <1>11 DEF SocketInv

(* A post of such a socket stays fine. *)
LEMMA PostBystander ==
  ASSUME WInv, NEW t \in Sockets, Steady, Same(t), NEW p, p.s = t,
         AnswerFine(p), InterruptFine(p)
  PROVE  AnswerFine(p)' /\ InterruptFine(p)'
<1>c. cmds \subseteq 1..Len(reqs)
  BY DEF WInv, CommandInv
<1>i. io' = io \/ (Away(t) /\ Away(t)')
  BY DEF Same
<1>1. AnswerFine(p)'
  BY <1>i, IoSame DEF Same, AnswerFine
<1>2. (Settled(t) => Settled(t)') /\ (NoWork(t)' <=> NoWork(t)) /\ (Gone' <=> Gone)
  BY <1>c DEF Same, Steady, Settled, NoWork, Gone
<1>3. InterruptFine(p)'
  BY <1>i, <1>2, IoSame DEF Same, InterruptFine, Serving
<1> QED
  BY <1>1, <1>3

(* The posts of socket s stay fine. *)
PostsFine(s) ==
  \A p : p.kind \in Own /\ p.s = s /\ AnswerFine(p) /\ InterruptFine(p)
           => AnswerFine(p)' /\ InterruptFine(p)'

-----------------------------------------------------------------------------
(* Places in a sequence that has lost its first element, *)
LEMMA Shifts ==
  ASSUME NEW m \in Int, NEW n \in Int, NEW u \in Int, NEW v \in Int, NEW i \in 1..v, v = u - 1, u <= n
  PROVE  i + 1 \in 1..u /\ i \in 1..n - 1 /\ m - u + (i + 1) = m - v + i
OBVIOUS

(* and in the ends of two sequences. *)
LEMMA EndAt ==
  ASSUME NEW m \in Nat, NEW n \in Nat, n <= m
  PROVE  m - n + (n + 1) = m + 1 /\ \A i \in 1..n : m - n + i \in 1..m
OBVIOUS

(* A request that moves from one place to the next leaves the sum alone. *)
LEMMA Sums ==
  ASSUME NEW g \in Int, NEW u \in Int, NEW q \in Int, NEW d \in Int, NEW p \in Int
  PROVE  /\ g + u + 0 + (d + 1) + p = g + u + 1 + d + p
         /\ (g + 1) + u + q + d + 0 = g + u + q + d + 1
         /\ g + u + q + (d - 1) + 1 = g + u + q + d + 0
         /\ g + (u + 1) + q + d + p = g + u + q + d + p + 1
OBVIOUS

(* The io thread reads a request: one less is unread, and it is the one that *)
(* the others come after.                                                    *)
LEMMA ReadsMail ==
  ASSUME NEW s \in Sockets, Sizes(s), Sizes(s)', MailInv(s), phase[s] # "free",
         Len(inbox[s]) > 0, inbox[s][1] # 0, Dropped(inbox[s], inbox'[s]),
         sent'[s] = sent[s], gen'[s] = gen[s], reqs' = reqs
  PROVE  /\ MailInv(s)' /\ (Parting(s)' <=> Parting(s))
         /\ Unread(s) \in Nat /\ Unread(s) > 0 /\ Unread(s) <= Len(sent[s]) /\ Unread(s)' = Unread(s) - 1
         /\ inbox[s][1] = sent[s][Len(sent[s]) - Unread(s)']
<1> DEFINE n == Len(inbox[s])
           m == Len(sent[s])
<1>1. n \in Nat /\ m \in Nat /\ n > 0 /\ Len(inbox'[s]) = n - 1
      /\ \A i \in 1..n - 1 : inbox'[s][i] = inbox[s][i + 1]
  BY DEF Sizes, Dropped
<1>2. Parting(s)' <=> Parting(s)
  <2>1. ASSUME NEW i \in 1..n, inbox[s][i] = 0
        PROVE  i - 1 \in 1..n - 1 /\ inbox'[s][i - 1] = 0
    BY <1>1, <2>1
  <2>2. ASSUME NEW i \in 1..n - 1, inbox'[s][i] = 0
        PROVE  i + 1 \in 1..n /\ inbox[s][i + 1] = 0
    BY <1>1, <2>2
  <2> QED
    BY <1>1, <2>1, <2>2 DEF Parting
<1>3. Parting(s) => n > 1
  BY <1>1 DEF Parting
<1>4. Unread(s) \in Nat /\ Unread(s) > 0 /\ Unread(s)' = Unread(s) - 1 /\ Unread(s) <= n
  BY <1>1, <1>2, <1>3 DEF Unread
<1>5. Unread(s) <= m /\ \A i \in 1..Unread(s) : inbox[s][i] = sent[s][m - Unread(s) + i]
  BY DEF MailInv
<1>6. inbox[s][1] = sent[s][m - Unread(s)']
  <2>1. 1 \in 1..Unread(s) /\ m - Unread(s) + 1 = m - Unread(s)'
    BY <1>1, <1>4
  <2> QED
    BY <1>5, <2>1
<1>7. ASSUME NEW i \in 1..Unread(s)'
      PROVE  inbox'[s][i] = sent[s][m - Unread(s)' + i]
  <2>2. i + 1 \in 1..Unread(s) /\ i \in 1..n - 1 /\ m - Unread(s) + (i + 1) = m - Unread(s)' + i
    <3>1. m \in Int /\ n \in Int /\ Unread(s) \in Int /\ Unread(s)' \in Int
      BY <1>1, <1>4
    <3>2. PICK u \in Int, v \in Int : u = Unread(s) /\ v = Unread(s)'
      BY <3>1
    <3>3. i \in 1..v /\ v = u - 1 /\ u <= n /\ i \in Int
      BY <1>4, <3>2
    <3> HIDE DEF n, m
    <3>4. i + 1 \in 1..u /\ i \in 1..n - 1 /\ m - u + (i + 1) = m - v + i
      BY <3>1, <3>3, Shifts
    <3> QED
      BY <3>2, <3>4
  <2> QED
    BY <1>1, <1>5, <2>2
<1>8. \A i \in 1..n - 1 : inbox'[s][i] \in 0..Len(reqs)
  <2>1. \A i \in 1..n : inbox[s][i] \in 0..Len(reqs)
    BY DEF MailInv
  <2>2. \A i \in 1..n - 1 : i + 1 \in 1..n
    BY <1>1
  <2> QED
    BY <1>1, <2>1, <2>2
<1>9. \A i \in 1..n - 1 : inbox'[s][i] = 0 => i = n - 1
  <2>1. \A i \in 1..n : inbox[s][i] = 0 => i = n
    BY DEF MailInv
  <2>2. ASSUME NEW i \in 1..n - 1, inbox'[s][i] = 0
        PROVE  i = n - 1
    <3>1. i + 1 \in 1..n /\ inbox[s][i + 1] = 0
      BY <1>1, <2>2
    <3> QED
      BY <1>1, <2>1, <3>1
  <2> QED
    BY <2>2
<1>10. \A i \in 1..Len(sent'[s]) : /\ sent'[s][i] \in 1..Len(reqs')
                                   /\ reqs'[sent'[s][i]].s = s /\ reqs'[sent'[s][i]].gen = gen'[s]
  BY DEF MailInv
<1>11. Unread(s)' <= Len(sent'[s])
  BY <1>1, <1>4, <1>5
<1>12. MailInv(s)'
  BY <1>1, <1>7, <1>8, <1>9, <1>10, <1>11 DEF MailInv
<1> QED
  BY <1>2, <1>4, <1>5, <1>6, <1>12

(* A request was sent: it is the last that is unread. *)
LEMMA SendsMail ==
  ASSUME NEW s \in Sockets, Sizes(s), Sizes(s)', MailInv(s), phase[s] # "free",
         NEW r, Appended(reqs, reqs', r), r.s = s, r.gen = gen[s],
         \A i \in 1..Len(inbox[s]) : inbox[s][i] # 0, gen'[s] = gen[s],
         Appended(inbox[s], inbox'[s], Len(reqs) + 1), Appended(sent[s], sent'[s], Len(reqs) + 1)
  PROVE  /\ MailInv(s)' /\ ~Parting(s) /\ ~Parting(s)'
         /\ Unread(s) = Len(inbox[s]) /\ Unread(s)' = Unread(s) + 1 /\ Unread(s) <= Len(sent[s])
<1> DEFINE n == Len(inbox[s])
           m == Len(sent[s])
           k == Len(reqs)
<1>1. n \in Nat /\ m \in Nat /\ k \in Nat /\ Len(inbox'[s]) = n + 1 /\ Len(sent'[s]) = m + 1
      /\ Len(reqs') = k + 1
  BY DEF Sizes, Appended
<1>2. /\ inbox'[s][n + 1] = k + 1 /\ \A i \in 1..n : inbox'[s][i] = inbox[s][i]
      /\ sent'[s][m + 1] = k + 1 /\ \A i \in 1..m : sent'[s][i] = sent[s][i]
      /\ reqs'[k + 1] = r /\ \A i \in 1..k : reqs'[i] = reqs[i]
  BY DEF Appended
<1>3. ~Parting(s)
  BY DEF Parting
<1>4. \A i \in 1..n + 1 : inbox'[s][i] # 0 /\ inbox'[s][i] \in 0..k + 1
  <2>1. \A i \in 1..n : inbox[s][i] \in 0..k
    BY DEF MailInv
  <2>2. \A i \in 1..n + 1 : i = n + 1 \/ i \in 1..n
    BY <1>1
  <2>3. ASSUME NEW i \in 1..n
        PROVE  inbox'[s][i] # 0 /\ inbox'[s][i] \in 0..k + 1
    <3>1. inbox'[s][i] = inbox[s][i] /\ inbox[s][i] # 0 /\ inbox[s][i] \in 0..k
      BY <1>2, <2>1
    <3> QED
      BY <1>1, <3>1
  <2>4. inbox'[s][n + 1] # 0 /\ inbox'[s][n + 1] \in 0..k + 1
    BY <1>1, <1>2
  <2> QED
    BY <2>2, <2>3, <2>4
<1>5. ~Parting(s)'
  BY <1>1, <1>4 DEF Parting
<1>6. Unread(s) = n /\ Unread(s)' = n + 1
  BY <1>1, <1>3, <1>5 DEF Unread
<1>7. n <= m /\ \A i \in 1..n : inbox[s][i] = sent[s][m - n + i]
  BY <1>6 DEF MailInv
<1>8. ASSUME NEW i \in 1..m + 1
      PROVE  sent'[s][i] \in 1..k + 1 /\ reqs'[sent'[s][i]].s = s /\ reqs'[sent'[s][i]].gen = gen'[s]
  <2>1. CASE i = m + 1
    BY <1>1, <1>2, <2>1
  <2>2. CASE i \in 1..m
    <3>1. sent[s][i] \in 1..k /\ reqs[sent[s][i]].s = s /\ reqs[sent[s][i]].gen = gen[s]
      BY <2>2 DEF MailInv
    <3> QED
      BY <1>1, <1>2, <2>2, <3>1
  <2> QED
    BY <1>1, <2>1, <2>2
<1>9. \A i \in 1..n + 1 : inbox'[s][i] = sent'[s][m - n + i]
  <2>1. \A i \in 1..n + 1 : i = n + 1 \/ i \in 1..n
    BY <1>1
  <2>2. m - n + (n + 1) = m + 1 /\ \A i \in 1..n : m - n + i \in 1..m
    BY <1>1, <1>7, EndAt
  <2>3. ASSUME NEW i \in 1..n
        PROVE  inbox'[s][i] = sent'[s][m - n + i]
    <3>1. m - n + i \in 1..m
      BY <2>2
    <3>2. inbox'[s][i] = inbox[s][i] /\ inbox[s][i] = sent[s][m - n + i]
      BY <1>2, <1>7
    <3> QED
      BY <1>2, <3>1, <3>2
  <2>4. inbox'[s][n + 1] = sent'[s][m - n + (n + 1)]
    BY <1>2, <2>2
  <2> QED
    BY <2>1, <2>3, <2>4
<1>10. MailInv(s)'
  <2>1. Unread(s)' <= Len(sent'[s]) /\ Len(sent'[s]) - Unread(s)' = m - n
    BY <1>1, <1>6, <1>7
  <2>2. \A i \in 1..Unread(s)' : inbox'[s][i] = sent'[s][Len(sent'[s]) - Unread(s)' + i]
    BY <1>6, <1>9, <2>1
  <2>3. \A i \in 1..Len(inbox'[s]) : inbox'[s][i] \in 0..Len(reqs') /\ inbox'[s][i] # 0
    BY <1>1, <1>4
  <2>4. \A i \in 1..Len(sent'[s]) : /\ sent'[s][i] \in 1..Len(reqs')
                                    /\ reqs'[sent'[s][i]].s = s /\ reqs'[sent'[s][i]].gen = gen'[s]
    BY <1>1, <1>8
  <2> QED
    BY <2>1, <2>2, <2>3, <2>4 DEF MailInv
<1> QED
  BY <1>3, <1>5, <1>6, <1>7, <1>10

(* The close frame leaves the unread requests as they are. *)
LEMMA ClosesMail ==
  ASSUME NEW s \in Sockets, Sizes(s), Sizes(s)', MailInv(s), phase[s] # "free",
         \A i \in 1..Len(inbox[s]) : inbox[s][i] # 0, gen'[s] = gen[s], reqs' = reqs,
         Appended(inbox[s], inbox'[s], 0), sent'[s] = sent[s]
  PROVE  MailInv(s)' /\ ~Parting(s) /\ Unread(s)' = Unread(s)
<1> DEFINE n == Len(inbox[s])
<1>1. /\ n \in Nat /\ Len(inbox'[s]) = n + 1 /\ Len(reqs) \in Nat
      /\ inbox'[s][n + 1] = 0 /\ \A i \in 1..n : inbox'[s][i] = inbox[s][i]
  BY DEF Sizes, Appended
<1>0. \A i \in 1..n + 1 : i = n + 1 \/ i \in 1..n
  BY <1>1
<1>2. ~Parting(s) /\ Parting(s)'
  BY <1>1 DEF Parting
<1>3. Unread(s) = n /\ Unread(s)' = n
  BY <1>1, <1>2 DEF Unread
<1>4. \A i \in 1..n + 1 : inbox'[s][i] \in 0..Len(reqs)
  <2>1. \A i \in 1..n : inbox[s][i] \in 0..Len(reqs)
    BY DEF MailInv
  <2>2. \A i \in 1..n : inbox'[s][i] \in 0..Len(reqs)
    BY <1>1, <2>1
  <2>3. inbox'[s][n + 1] \in 0..Len(reqs)
    BY <1>1
  <2> HIDE DEF n
  <2> QED
    BY <1>0, <2>2, <2>3
<1>5. \A i \in 1..n + 1 : inbox'[s][i] = 0 => i = n + 1
  <2>1. \A i \in 1..n : inbox'[s][i] # 0
    BY <1>1
  <2> QED
    BY <1>0, <2>1
<1>6. n <= Len(sent[s]) /\ \A i \in 1..n : inbox'[s][i] = sent[s][Len(sent[s]) - n + i]
  BY <1>1, <1>3 DEF MailInv
<1>7. \A i \in 1..Len(sent'[s]) : /\ sent'[s][i] \in 1..Len(reqs')
                                   /\ reqs'[sent'[s][i]].s = s /\ reqs'[sent'[s][i]].gen = gen'[s]
  BY DEF MailInv
<1>8. MailInv(s)'
  BY <1>1, <1>3, <1>4, <1>5, <1>6, <1>7 DEF MailInv
<1> QED
  BY <1>2, <1>3, <1>8

(* An executor that takes a request finds one of its own connection in the   *)
(* buffer,                                                                   *)
LEMMA ServesOwn ==
  ASSUME WInv, NEW s \in Sockets, epc[s] = "idle", Len(work[s]) > 0, work[s][1] = "work"
  PROVE  /\ buffer[s] # 0 /\ buffer[s] \in 1..Len(reqs)
         /\ reqs[buffer[s]].s = s /\ reqs[buffer[s]].gen = gen[s]
         /\ \E j \in 1..Len(sent[s]) : buffer[s] = sent[s][j]
<1>1. BufferInv(s) /\ MailInv(s) /\ Len(work[s]) \in Nat
  BY TypesOf, SizesOf DEF WInv, SocketInv, Sizes
<1>2. 1 \in 1..Len(work[s])
  BY <1>1
<1>3. buffer[s] # 0
  BY <1>1, <1>2 DEF BufferInv, NoWork
<1>4. PICK j \in 1..Len(sent[s]) : buffer[s] = sent[s][j]
  BY <1>1, <1>3 DEF BufferInv
<1> QED
  BY <1>1, <1>3, <1>4 DEF MailInv

(* and that one has no answer yet.                                           *)
LEMMA ServesNew ==
  ASSUME WInv, NEW s \in Sockets, epc[s] = "idle", Len(work[s]) > 0, work[s][1] = "work"
  PROVE  /\ phase[s] \in {"open", "http", "closing"} /\ ~IoAt({"http_close"}, s)
         /\ phase[s] # "closing" => \E j \in Len(got[s]) + 1..Len(sent[s]) : buffer[s] = sent[s][j]
<1>1. /\ ExecutorInv(s) /\ PhaseInv(s) /\ IoInv(s) /\ CountInv(s) /\ HttpInv(s) /\ Sizes(s)
  BY TypesOf, SizesOf DEF WInv, SocketInv
<1>2. /\ Len(work[s]) \in Nat /\ 1 \in 1..Len(work[s]) /\ Len(sent[s]) \in Nat /\ Len(got[s]) \in Nat
      /\ Len(inbox[s]) \in Nat
  BY <1>1 DEF Sizes
<1>3. phase[s] \in {"open", "http", "closing"}
  <2>1. s \in ws_conns \/ IoAt(Ending, s)
    BY <1>1 DEF ExecutorInv
  <2>2. IoAt(Ending, s) => phase[s] \in {"open", "http", "closing"}
    BY <1>1 DEF IoInv, IoAt, Ending
  <2>3. ~IoAt({"accept"}, s)
    BY <1>1, <1>2 DEF IoInv, IoAt
  <2> QED
    BY <1>1, <2>1, <2>2, <2>3 DEF PhaseInv
<1>4. ~IoAt({"http_close"}, s)
  BY <1>1 DEF IoInv
<1>5. ASSUME phase[s] = "http"
      PROVE  \E j \in Len(got[s]) + 1..Len(sent[s]) : buffer[s] = sent[s][j]
  <2>1. Len(got[s]) = 0 /\ Len(sent[s]) = 1
    BY <1>1, <1>2, <1>5 DEF HttpInv
  <2>2. PICK j \in 1..Len(sent[s]) : buffer[s] = sent[s][j]
    BY ServesOwn
  <2> QED
    BY <2>1, <2>2
<1>6. ASSUME phase[s] = "open"
      PROVE  \E j \in Len(got[s]) + 1..Len(sent[s]) : buffer[s] = sent[s][j]
  <2>1. Undone(s) \in Nat /\ Undone(s) > 0
    <3>1. IoAt(Joining, s) => Len(work[s]) > 1
      BY <1>1, <1>2 DEF ExecutorInv
    <3> QED
      BY <1>2, <3>1 DEF Undone
  <2>2. Unread(s) \in Nat /\ Pushing(s) \in {0, 1} /\ Posting(s) = 0
    BY <1>2 DEF Unread, Parting, Pushing, Posting, Serving
  <2>3. Len(sent[s]) = Len(got[s]) + Unread(s) + Pushing(s) + Undone(s) + Posting(s)
    BY <1>1, <1>6 DEF CountInv
  <2>4. ASSUME NEW m \in Nat, NEW g \in Nat, NEW u \in Nat, NEW w \in {0, 1}, NEW d \in Nat, d > 0,
               m = g + u + w + d + 0
        PROVE  m > u /\ m - u \in g + 1..m
    BY <2>4
  <2>5. Len(sent[s]) > Unread(s) /\ Len(sent[s]) - Unread(s) \in Len(got[s]) + 1..Len(sent[s])
    BY <1>2, <2>1, <2>2, <2>3, <2>4
  <2> QED
    BY <1>1, <1>6, <2>5 DEF CountInv
<1> QED
  BY <1>3, <1>4, <1>5, <1>6

(* What an executor waits for is a request of its own connection. *)
LEMMA FlushesOwn ==
  ASSUME WInv, NEW s \in Sockets, epc[s] = "polling"
  PROVE  /\ serving[s] \in 1..Len(reqs) /\ reqs[serving[s]].s = s
         /\ phase[s] \in {"open", "http", "closing"} /\ ~IoAt({"http_close"}, s)
         /\ phase[s] # "closing" => \E j \in Len(got[s]) + 1..Len(sent[s]) : serving[s] = sent[s][j]
<1>1. /\ ExecutorInv(s) /\ PhaseInv(s) /\ IoInv(s) /\ BufferInv(s) /\ MailInv(s)
  BY DEF WInv, SocketInv
<1>2. PICK j \in 1..Len(sent[s]) : serving[s] = sent[s][j]
  BY <1>1 DEF BufferInv
<1>3. serving[s] \in 1..Len(reqs) /\ reqs[serving[s]].s = s
  BY <1>1, <1>2 DEF MailInv
<1>4. phase[s] \in {"open", "http", "closing"}
  <2>1. s \in ws_conns \/ IoAt(Ending, s)
    BY <1>1 DEF ExecutorInv
  <2>2. IoAt(Ending, s) => phase[s] \in {"open", "http", "closing"}
    BY <1>1 DEF IoInv, IoAt, Ending
  <2>3. ~IoAt({"accept"}, s)
    BY <1>1 DEF IoInv, IoAt
  <2> QED
    BY <1>1, <2>1, <2>2, <2>3 DEF PhaseInv
<1>5. ~IoAt({"http_close"}, s)
  BY <1>1 DEF IoInv
<1> QED
  BY <1>1, <1>3, <1>4, <1>5 DEF BufferInv

(* A flush gives results of the connection that has the queue, or late ones. *)
LEMMA GivesOwn ==
  ASSUME WInv, NEW s \in Sockets, NEW r \in 1..Len(reqs), reqs[r].s = s, Gives(s, r),
         UNCHANGED <<habits, reqs, late>>
  PROVE  (\A p \in polled' : p[1] \in 1..Len(reqs')) /\ ResultsOwn'
<1>1. CommandInv /\ HabitInv
  BY DEF WInv
<1>2. CASE polled' = polled
  BY <1>1, <1>2 DEF CommandInv, ResultsOwn
<1>3. ASSUME NEW q \in Sockets, q = reqs[r].queue,
             polled' = polled \cup {<<x, q, gen[q], s>> : x \in results[q]}
      PROVE  (\A p \in polled' : p[1] \in 1..Len(reqs')) /\ ResultsOwn'
  <2>1. ResultInv(q)
    BY DEF WInv, SocketInv
  <2>2. "shares" \notin habits => q = s
    BY <1>1, <1>3 DEF HabitInv, Asked
  <2>3. ASSUME NEW x \in results[q], NEW p, p = <<x, q, gen[q], s>>
        PROVE  /\ p[1] \in 1..Len(reqs)
               /\ Gone \/ /\ reqs[p[1]].s = p[2] /\ (reqs[p[1]].gen = p[3] \/ p[1] \in late)
                          /\ "shares" \notin habits => p[4] = p[2]
    <3>1. p[1] = x /\ p[2] = q /\ p[3] = gen[q] /\ p[4] = s
      BY <2>3
    <3> QED
      BY <2>1, <2>2, <2>3, <3>1 DEF ResultInv
  <2>4. ASSUME NEW p \in polled'
        PROVE  /\ p[1] \in 1..Len(reqs)
               /\ Gone \/ /\ reqs[p[1]].s = p[2] /\ (reqs[p[1]].gen = p[3] \/ p[1] \in late)
                          /\ "shares" \notin habits => p[4] = p[2]
    <3>1. p \in polled \/ \E x \in results[q] : p = <<x, q, gen[q], s>>
      BY <1>3
    <3>2. CASE p \in polled
      BY <1>1, <3>2 DEF CommandInv, ResultsOwn, Gone
    <3> QED
      BY <2>3, <3>1, <3>2
  <2> QED
    BY <2>4 DEF ResultsOwn, Gone
<1> QED
  BY <1>2, <1>3 DEF Gives

-----------------------------------------------------------------------------
(* ValidateHandler keeps the invariant of its socket. *)
LEMMA ValidateHandlerKeeps ==
  ASSUME WInv, Next, NEW s \in Sockets, ValidateHandler(s)
  PROVE  SocketInv(s)' /\ PostsFine(s)
<1>s. /\ ExecutorInv(s) /\ PhaseInv(s) /\ IoInv(s) /\ MailInv(s) /\ BufferInv(s) /\ CountInv(s)
      /\ HttpInv(s) /\ QueueInv(s) /\ LateInv(s) /\ ResultInv(s) /\ AnswersInv(s)
  BY DEF WInv, SocketInv
<1>z. Sizes(s) /\ Sizes(s)'
  BY TypesOf, TypesAfter, SizesOf, SizesAfter
<1>y. /\ Len(inbox[s]) \in Nat /\ Len(sent[s]) \in Nat /\ Len(got[s]) \in Nat /\ Len(work[s]) \in Nat
      /\ Len(reqs) \in Nat /\ Len(posts) \in Nat /\ buffer[s] \in Nat /\ serving[s] \in Nat /\ gen[s] \in Nat
  BY <1>z DEF Sizes
<1>h. habits' = habits /\ (Gone' <=> Gone)
  BY DEF Next, Gone
<1>d. /\ io.at = "idle"
      /\ phase[s] = "handshake"
      /\ phase'[s] \in {"free", "valid"}
      /\ phase'[s] = "valid" => Cardinality(ws_conns) < MaxConnections
  BY ValidateHandlerDoes
<1>u. /\ UNCHANGED <<gen, inbox, reqs, sent, ws_conns, buffer, work, serving, epc, posts, io,
         builtins, cmds, wpc, queues, results, late, owner, signaled, got, polled>>
  BY ValidateHandlerDoes
<1>e. epc[s] = "none"
  BY <1>s, <1>d DEF ExecutorInv, PhaseInv, IoAt, Ending, Clearing
<1>1. PhaseInv(s)'
  BY <1>s, <1>z, <1>h, <1>d, <1>u DEF PhaseInv, IoAt, Clearing, Sizes
<1>2. IoInv(s)'
  BY <1>s, <1>z, <1>h, <1>d, <1>u DEF IoInv, IoAt, Sizes
<1>3. MailInv(s)'
  BY <1>s, <1>z, <1>h, <1>d, <1>u DEF MailInv, Unread, Parting, Sizes
<1>4. BufferInv(s)'
  BY <1>s, <1>z, <1>h, <1>d, <1>u, <1>e DEF BufferInv, NoWork, Sizes
<1>5. CountInv(s)'
  BY <1>s, <1>z, <1>h, <1>d, <1>u DEF CountInv, IoAt, Joining, Parting, Unread, Undone, Pushing, Posting, Serving, Sizes
<1>6. HttpInv(s)'
  BY <1>s, <1>z, <1>h, <1>d, <1>u DEF HttpInv, IoAt, NoWork, Serving, Sizes
<1>7. QueueInv(s)'
  BY <1>s, <1>z, <1>h, <1>d, <1>u DEF QueueInv, IoAt, Sizes
<1>8. LateInv(s)'
  BY <1>s, <1>z, <1>h, <1>d, <1>u DEF LateInv, IoAt, Settled, Serving, Sizes
<1>9. ExecutorInv(s)'
  BY <1>s, <1>h, <1>u DEF ExecutorInv, IoAt, Ending, Joining
<1>10. ResultInv(s)'
  BY <1>s, <1>h, <1>u DEF ResultInv
<1>11. AnswersInv(s)'
  BY <1>s, <1>h, <1>u DEF AnswersInv
<1>f. PostsFine(s)
  <2> SUFFICES ASSUME NEW p, p.kind \in Own, p.s = s, AnswerFine(p), InterruptFine(p)
               PROVE  AnswerFine(p)' /\ InterruptFine(p)'
    BY DEF PostsFine
  <2>1. FALSE
    BY <1>s, <1>z, <1>d DEF AnswerFine, InterruptFine, Serving, Answers, Own, IoAt
  <2> QED
    BY <2>1
<1> QED
  BY <1>1, <1>2, <1>3, <1>4, <1>5, <1>6, <1>7, <1>8, <1>9, <1>10, <1>11, <1>f DEF SocketInv

(* OpenHandler keeps the invariant of its socket. *)
LEMMA OpenHandlerKeeps ==
  ASSUME WInv, Next, NEW s \in Sockets, OpenHandler(s)
  PROVE  SocketInv(s)' /\ PostsFine(s)
<1>s. /\ ExecutorInv(s) /\ PhaseInv(s) /\ IoInv(s) /\ MailInv(s) /\ BufferInv(s) /\ CountInv(s)
      /\ HttpInv(s) /\ QueueInv(s) /\ LateInv(s) /\ ResultInv(s) /\ AnswersInv(s)
  BY DEF WInv, SocketInv
<1>z. Sizes(s) /\ Sizes(s)'
  BY TypesOf, TypesAfter, SizesOf, SizesAfter
<1>y. /\ Len(inbox[s]) \in Nat /\ Len(sent[s]) \in Nat /\ Len(got[s]) \in Nat /\ Len(work[s]) \in Nat
      /\ Len(reqs) \in Nat /\ Len(posts) \in Nat /\ buffer[s] \in Nat /\ serving[s] \in Nat /\ gen[s] \in Nat
  BY <1>z DEF Sizes
<1>h. habits' = habits /\ (Gone' <=> Gone)
  BY DEF Next, Gone
<1>d. /\ io.at = "idle"
      /\ phase[s] = "valid"
      /\ ws_conns' = ws_conns \cup {s}
      /\ buffer'[s] = 0
      /\ epc'[s] = "idle"
      /\ builtins' = builtins \cup {<<"create", s>>}
      /\ io'.at = "accept"
      /\ io'.s = s
      /\ Len(work'[s]) = 0
  BY OpenHandlerDoes
<1>u. /\ UNCHANGED <<phase, gen, inbox, reqs, sent, serving, posts, cmds, wpc, queues, results,
         late, owner, signaled, got, polled>>
  BY OpenHandlerDoes
<1>1. ExecutorInv(s)'
  BY <1>s, <1>z, <1>h, <1>d, <1>u DEF ExecutorInv, IoAt, Ending, Joining, Sizes
<1>2. PhaseInv(s)'
  BY <1>s, <1>z, <1>h, <1>d, <1>u DEF PhaseInv, IoAt, Clearing, Sizes
<1>3. IoInv(s)'
  BY <1>s, <1>z, <1>h, <1>d, <1>u DEF IoInv, IoAt, Sizes
<1>4. BufferInv(s)'
  BY <1>s, <1>z, <1>h, <1>d, <1>u DEF BufferInv, NoWork, Sizes
<1>5. CountInv(s)'
  BY <1>s, <1>z, <1>h, <1>d, <1>u DEF CountInv, IoAt, Joining, Parting, Unread, Undone, Pushing, Posting, Serving, Sizes
<1>6. HttpInv(s)'
  BY <1>s, <1>z, <1>h, <1>d, <1>u DEF HttpInv, IoAt, NoWork, Serving, Sizes
<1>7. QueueInv(s)'
  BY <1>s, <1>z, <1>h, <1>d, <1>u DEF QueueInv, IoAt, Sizes
<1>8. LateInv(s)'
  BY <1>s, <1>z, <1>h, <1>d, <1>u DEF LateInv, IoAt, Settled, Serving, Sizes
<1>9. MailInv(s)'
  BY <1>s, <1>h, <1>u DEF MailInv, Unread, Parting
<1>10. ResultInv(s)'
  BY <1>s, <1>h, <1>u DEF ResultInv
<1>11. AnswersInv(s)'
  BY <1>s, <1>h, <1>u DEF AnswersInv
<1>f. PostsFine(s)
  <2> SUFFICES ASSUME NEW p, p.kind \in Own, p.s = s, AnswerFine(p), InterruptFine(p)
               PROVE  AnswerFine(p)' /\ InterruptFine(p)'
    BY DEF PostsFine
  <2>1. FALSE
    BY <1>s, <1>z, <1>d DEF AnswerFine, InterruptFine, Serving, Answers, Own, IoAt
  <2> QED
    BY <2>1
<1> QED
  BY <1>1, <1>2, <1>3, <1>4, <1>5, <1>6, <1>7, <1>8, <1>9, <1>10, <1>11, <1>f DEF SocketInv

(* HttpHandler keeps the invariant of its socket. *)
LEMMA HttpHandlerKeeps ==
  ASSUME WInv, Next, NEW s \in Sockets, HttpHandler(s)
  PROVE  SocketInv(s)' /\ PostsFine(s)
<1>s. /\ ExecutorInv(s) /\ PhaseInv(s) /\ IoInv(s) /\ MailInv(s) /\ BufferInv(s) /\ CountInv(s)
      /\ HttpInv(s) /\ QueueInv(s) /\ LateInv(s) /\ ResultInv(s) /\ AnswersInv(s)
  BY DEF WInv, SocketInv
<1>z. Sizes(s) /\ Sizes(s)'
  BY TypesOf, TypesAfter, SizesOf, SizesAfter
<1>y. /\ Len(inbox[s]) \in Nat /\ Len(sent[s]) \in Nat /\ Len(got[s]) \in Nat /\ Len(work[s]) \in Nat
      /\ Len(reqs) \in Nat /\ Len(posts) \in Nat /\ buffer[s] \in Nat /\ serving[s] \in Nat /\ gen[s] \in Nat
  BY <1>z DEF Sizes
<1>h. habits' = habits /\ (Gone' <=> Gone)
  BY DEF Next, Gone
<1>d. /\ io.at = "idle"
      /\ phase[s] = "http"
      /\ inbox[s] # <<>>
      /\ s \notin ws_conns
      /\ ws_conns' = ws_conns \cup {s}
      /\ buffer'[s] = 0
      /\ epc'[s] = "idle"
      /\ builtins' = builtins \cup {<<"create", s>>}
      /\ io'.at = "accept"
      /\ io'.s = s
      /\ Len(work'[s]) = 0
      /\ Len(inbox[s]) > 0
  BY HttpHandlerDoes
<1>u. /\ UNCHANGED <<phase, gen, inbox, reqs, sent, serving, posts, cmds, wpc, queues, results,
         late, owner, signaled, got, polled>>
  BY HttpHandlerDoes
<1>1. ExecutorInv(s)'
  BY <1>s, <1>z, <1>h, <1>d, <1>u DEF ExecutorInv, IoAt, Ending, Joining, Sizes
<1>2. PhaseInv(s)'
  BY <1>s, <1>z, <1>h, <1>d, <1>u DEF PhaseInv, IoAt, Clearing, Sizes
<1>3. IoInv(s)'
  BY <1>s, <1>z, <1>h, <1>d, <1>u DEF IoInv, IoAt, Sizes
<1>4. BufferInv(s)'
  BY <1>s, <1>z, <1>h, <1>d, <1>u DEF BufferInv, NoWork, Sizes
<1>5. CountInv(s)'
  BY <1>s, <1>z, <1>h, <1>d, <1>u DEF CountInv, IoAt, Joining, Parting, Unread, Undone, Pushing, Posting, Serving, Sizes
<1>6. HttpInv(s)'
  BY <1>s, <1>z, <1>h, <1>d, <1>u DEF HttpInv, IoAt, NoWork, Serving, Sizes
<1>7. QueueInv(s)'
  BY <1>s, <1>z, <1>h, <1>d, <1>u DEF QueueInv, IoAt, Sizes
<1>8. LateInv(s)'
  BY <1>s, <1>z, <1>h, <1>d, <1>u DEF LateInv, IoAt, Settled, Serving, Sizes
<1>9. MailInv(s)'
  BY <1>s, <1>h, <1>u DEF MailInv, Unread, Parting
<1>10. ResultInv(s)'
  BY <1>s, <1>h, <1>u DEF ResultInv
<1>11. AnswersInv(s)'
  BY <1>s, <1>h, <1>u DEF AnswersInv
<1>f. PostsFine(s)
  <2> SUFFICES ASSUME NEW p, p.kind \in Own, p.s = s, AnswerFine(p), InterruptFine(p)
               PROVE  AnswerFine(p)' /\ InterruptFine(p)'
    BY DEF PostsFine
  <2>1. FALSE
    BY <1>s, <1>z, <1>d DEF AnswerFine, InterruptFine, Serving, Answers, Own, IoAt, ExecutorInv, Ending
  <2> QED
    BY <2>1
<1> QED
  BY <1>1, <1>2, <1>3, <1>4, <1>5, <1>6, <1>7, <1>8, <1>9, <1>10, <1>11, <1>f DEF SocketInv

(* AcceptReturns keeps the invariant of its socket. *)
LEMMA AcceptReturnsKeeps ==
  ASSUME WInv, Next, NEW s \in Sockets, AcceptReturns(s)
  PROVE  SocketInv(s)' /\ PostsFine(s)
<1>s. /\ ExecutorInv(s) /\ PhaseInv(s) /\ IoInv(s) /\ MailInv(s) /\ BufferInv(s) /\ CountInv(s)
      /\ HttpInv(s) /\ QueueInv(s) /\ LateInv(s) /\ ResultInv(s) /\ AnswersInv(s)
  BY DEF WInv, SocketInv
<1>z. Sizes(s) /\ Sizes(s)'
  BY TypesOf, TypesAfter, SizesOf, SizesAfter
<1>y. /\ Len(inbox[s]) \in Nat /\ Len(sent[s]) \in Nat /\ Len(got[s]) \in Nat /\ Len(work[s]) \in Nat
      /\ Len(reqs) \in Nat /\ Len(posts) \in Nat /\ buffer[s] \in Nat /\ serving[s] \in Nat /\ gen[s] \in Nat
  BY <1>z DEF Sizes
<1>h. habits' = habits /\ (Gone' <=> Gone)
  BY DEF Next, Gone
<1>d. /\ io.at = "accept"
      /\ io.s = s
      /\ <<"create", s>> \notin builtins
      /\ phase[s] = "http" =>
           /\ UNCHANGED phase
           /\ io'.at = "push"
           /\ io'.s = s
           /\ Len(inbox[s]) > 0
           /\ buffer'[s] = inbox[s][1]
           /\ Dropped(inbox[s], inbox'[s])
      /\ phase[s] # "http" =>
           /\ UNCHANGED <<buffer, inbox>>
           /\ phase'[s] = "open"
           /\ io'.at = "idle"
  BY AcceptReturnsDoes
<1>u. /\ UNCHANGED <<gen, reqs, sent, ws_conns, work, serving, epc, posts, builtins, cmds, wpc,
         queues, results, late, owner, signaled, got, polled>>
  BY AcceptReturnsDoes
<1>a. /\ s \in ws_conns /\ phase[s] \in {"valid", "http"} /\ epc[s] \in {"idle", "ended"} /\ Len(work[s]) = 0
      /\ s \in queues
  BY <1>s, <1>d DEF IoInv, QueueInv, IoAt
<1>b. phase[s] # "http" => Len(inbox[s]) = 0 /\ Len(sent[s]) = 0 /\ Len(got[s]) = 0
  BY <1>s, <1>a DEF PhaseInv
<1>e. phase[s] = "http" => /\ Len(sent[s]) = 1 /\ Len(got[s]) = 0 /\ Len(inbox[s]) = 1
                           /\ inbox[s][1] # 0 /\ Len(inbox'[s]) = 0
  <2>1. phase[s] = "http" => Len(sent[s]) = 1 /\ Len(got[s]) = 0 /\ Len(inbox[s]) = 1 /\ inbox[s][1] # 0
    BY <1>s, <1>y, <1>d DEF HttpInv
  <2>3. ASSUME phase[s] = "http"
        PROVE  Len(inbox'[s]) = 0
    <3>1. Len(inbox'[s]) = Len(inbox[s]) - 1
      BY <1>d, <2>3 DEF Dropped
    <3>2. Len(inbox'[s]) = 1 - 1
      BY <2>1, <2>3, <3>1
    <3> QED
      BY <3>2
  <2> QED
    BY <2>1, <2>3
<1>m. ASSUME phase[s] = "http"
      PROVE  MailInv(s)' /\ inbox[s][1] = sent[s][1]
  <2>1. /\ MailInv(s)' /\ Unread(s) \in Nat /\ Unread(s) > 0 /\ Unread(s) <= Len(sent[s])
        /\ Unread(s)' = Unread(s) - 1 /\ inbox[s][1] = sent[s][Len(sent[s]) - Unread(s)']
    BY <1>s, <1>z, <1>d, <1>u, <1>e, <1>m, ReadsMail
  <2>2. Len(sent[s]) - Unread(s)' = 1
    BY <1>e, <1>m, <2>1
  <2> QED
    BY <2>1, <2>2
<1>1. ExecutorInv(s)'
  BY <1>s, <1>z, <1>h, <1>d, <1>u DEF ExecutorInv, IoAt, Ending, Joining, Sizes
<1>2. PhaseInv(s)'
  <2>1. CASE phase[s] = "http"
    BY <1>s, <1>z, <1>h, <1>d, <1>u, <1>a, <1>e, <2>1 DEF PhaseInv, IoAt, Clearing
  <2>2. CASE phase[s] # "http"
    BY <1>s, <1>z, <1>h, <1>d, <1>u, <1>a, <1>b, <2>2 DEF PhaseInv, IoAt, Clearing
  <2> QED
    BY <2>1, <2>2
<1>3. IoInv(s)'
  <2>1. CASE phase[s] = "http"
    BY <1>s, <1>z, <1>h, <1>d, <1>u, <1>a, <1>e, <2>1 DEF IoInv, IoAt
  <2>2. CASE phase[s] # "http"
    BY <1>s, <1>z, <1>h, <1>d, <1>u, <1>a, <2>2 DEF IoInv, IoAt
  <2> QED
    BY <2>1, <2>2
<1>4. MailInv(s)'
  <2>1. CASE phase[s] = "http"
    BY <1>m, <2>1
  <2>2. CASE phase[s] # "http"
    <3>1. Unread(s)' = 0 /\ Unread(s) = 0
      BY <1>d, <1>b, <2>2 DEF Unread, Parting
    <3> QED
      BY <1>s, <1>d, <1>u, <1>b, <2>2, <3>1 DEF MailInv
  <2> QED
    BY <2>1, <2>2
<1>5. BufferInv(s)'
  <2>1. CASE phase[s] = "http"
    <3>1. buffer'[s] = sent'[s][1] /\ 1 \in 1..Len(sent'[s])
      BY <1>d, <1>u, <1>e, <1>m, <2>1
    <3>2. buffer'[s] \in 1..Len(reqs')
      BY <1>m, <2>1, <3>1 DEF MailInv
    <3> QED
      BY <1>z, <1>d, <1>u, <1>a, <2>1, <3>1, <3>2 DEF BufferInv, NoWork, Sizes
  <2>2. CASE phase[s] # "http"
    BY <1>s, <1>d, <1>u, <1>a, <2>2 DEF BufferInv, NoWork
  <2> QED
    BY <2>1, <2>2
<1>6. CountInv(s)'
  <2>1. CASE phase[s] = "http"
    BY <1>d, <2>1 DEF CountInv
  <2>2. CASE phase[s] # "http"
    <3>1. Len(sent'[s]) = 0 /\ Len(got'[s]) = 0 /\ Len(inbox'[s]) = 0 /\ Len(work'[s]) = 0 /\ ~Serving(s)'
      BY <1>d, <1>u, <1>a, <1>b, <2>2 DEF Serving
    <3>2. ~Parting(s)' /\ Unread(s)' = 0 /\ Undone(s)' = 0 /\ Pushing(s)' = 0 /\ Posting(s)' = 0
      BY <1>d, <2>2, <3>1 DEF Parting, Unread, Undone, Pushing, Posting, Serving, IoAt, Joining
    <3> QED
      BY <3>1, <3>2 DEF CountInv
  <2> QED
    BY <2>1, <2>2
<1>7. HttpInv(s)'
  <2>1. CASE phase[s] = "http"
    BY <1>d, <1>u, <1>a, <1>e, <2>1 DEF HttpInv, Serving, IoAt, NoWork
  <2>2. CASE phase[s] # "http"
    BY <1>d, <1>a, <2>2 DEF HttpInv
  <2> QED
    BY <2>1, <2>2
<1>8. QueueInv(s)'
  <2>1. CASE phase[s] = "http"
    BY <1>s, <1>z, <1>h, <1>d, <1>u, <1>a, <1>e, <2>1 DEF QueueInv, IoAt
  <2>2. CASE phase[s] # "http"
    BY <1>s, <1>z, <1>h, <1>d, <1>u, <1>a, <2>2 DEF QueueInv, IoAt
  <2> QED
    BY <2>1, <2>2
<1>9. LateInv(s)'
  BY <1>s, <1>z, <1>h, <1>d, <1>u DEF LateInv, IoAt, Settled, Serving, Sizes
<1>10. ResultInv(s)'
  BY <1>s, <1>h, <1>u DEF ResultInv
<1>11. AnswersInv(s)'
  BY <1>s, <1>h, <1>u DEF AnswersInv
<1>f. PostsFine(s)
  <2> SUFFICES ASSUME NEW p, p.kind \in Own, p.s = s, AnswerFine(p), InterruptFine(p)
               PROVE  AnswerFine(p)' /\ InterruptFine(p)'
    BY DEF PostsFine
  <2>1. FALSE
    BY <1>s, <1>z, <1>d, <1>a DEF AnswerFine, InterruptFine, Serving, Answers, Own, IoAt
  <2> QED
    BY <2>1
<1> QED
  BY <1>1, <1>2, <1>3, <1>4, <1>5, <1>6, <1>7, <1>8, <1>9, <1>10, <1>11, <1>f DEF SocketInv

(* MessageHandler keeps the invariant of its socket. *)
LEMMA MessageHandlerKeeps ==
  ASSUME WInv, Next, NEW s \in Sockets, MessageHandler(s)
  PROVE  SocketInv(s)' /\ PostsFine(s)
<1>s. /\ ExecutorInv(s) /\ PhaseInv(s) /\ IoInv(s) /\ MailInv(s) /\ BufferInv(s) /\ CountInv(s)
      /\ HttpInv(s) /\ QueueInv(s) /\ LateInv(s) /\ ResultInv(s) /\ AnswersInv(s)
  BY DEF WInv, SocketInv
<1>z. Sizes(s) /\ Sizes(s)'
  BY TypesOf, TypesAfter, SizesOf, SizesAfter
<1>y. /\ Len(inbox[s]) \in Nat /\ Len(sent[s]) \in Nat /\ Len(got[s]) \in Nat /\ Len(work[s]) \in Nat
      /\ Len(reqs) \in Nat /\ Len(posts) \in Nat /\ buffer[s] \in Nat /\ serving[s] \in Nat /\ gen[s] \in Nat
  BY <1>z DEF Sizes
<1>h. habits' = habits /\ (Gone' <=> Gone)
  BY DEF Next, Gone
<1>d. /\ io.at = "idle"
      /\ phase[s] = "open"
      /\ inbox[s] # <<>>
      /\ io'.at = "push"
      /\ io'.s = s
      /\ Len(inbox[s]) > 0
      /\ buffer'[s] = inbox[s][1]
      /\ Dropped(inbox[s], inbox'[s])
      /\ inbox[s][1] # 0
  BY MessageHandlerDoes
<1>u. /\ UNCHANGED <<phase, gen, reqs, sent, ws_conns, work, serving, epc, posts, builtins,
         cmds, wpc, queues, results, late, owner, signaled, got, polled>>
  BY MessageHandlerDoes
<1>a. s \in ws_conns
  BY <1>s, <1>d DEF PhaseInv, IoAt
<1>m. /\ MailInv(s)' /\ (Parting(s)' <=> Parting(s)) /\ Unread(s) \in Nat /\ Unread(s) > 0
      /\ Unread(s) <= Len(sent[s]) /\ Unread(s)' = Unread(s) - 1
      /\ buffer'[s] = sent[s][Len(sent[s]) - Unread(s)']
  BY <1>s, <1>z, <1>d, <1>u, ReadsMail
<1>1. ExecutorInv(s)'
  BY <1>s, <1>z, <1>h, <1>d, <1>u DEF ExecutorInv, IoAt, Ending, Joining, Sizes
<1>2. PhaseInv(s)'
  BY <1>s, <1>z, <1>h, <1>d, <1>u DEF PhaseInv, IoAt, Clearing, Sizes
<1>3. IoInv(s)'
  BY <1>s, <1>z, <1>h, <1>d, <1>u, <1>a DEF IoInv, IoAt, Sizes
<1>4. MailInv(s)'
  BY <1>m
<1>5. BufferInv(s)'
  <2>1. Len(sent[s]) - Unread(s)' \in 1..Len(sent[s])
    <3>1. PICK u \in Nat, m \in Nat : u = Unread(s) /\ m = Len(sent[s])
      BY <1>y, <1>m
    <3>2. Len(sent[s]) - Unread(s)' = m - (u - 1) /\ u > 0 /\ u <= m
      BY <1>m, <3>1
    <3>3. m - (u - 1) \in 1..m
      BY <3>2
    <3> QED
      BY <3>1, <3>2, <3>3
  <2>2. buffer'[s] \in 1..Len(reqs)
    BY <1>s, <1>m, <2>1 DEF MailInv
  <2> QED
    BY <1>s, <1>z, <1>d, <1>u, <1>m, <2>1, <2>2 DEF BufferInv, Sizes
<1>6. CountInv(s)'
  <2>1. Undone(s)' = Undone(s) /\ Pushing(s) = 0 /\ Pushing(s)' = 1 /\ Posting(s)' = Posting(s)
    BY <1>d, <1>u DEF Undone, Pushing, Posting, Serving, IoAt, Joining
  <2>2. Undone(s) \in Int /\ Posting(s) \in Int /\ Len(sent[s]) \in Int /\ Len(got[s]) \in Int
    BY <1>z DEF Undone, Posting, Serving, Sizes
  <2>3. Len(sent[s]) = Len(got[s]) + Unread(s) + Pushing(s) + Undone(s) + Posting(s)
    BY <1>s, <1>d DEF CountInv
  <2>4. Len(sent[s]) = Len(got[s]) + Unread(s)' + Pushing(s)' + Undone(s)' + Posting(s)'
    BY <1>m, <2>1, <2>2, <2>3
  <2> QED
    BY <1>s, <1>h, <1>d, <1>u, <1>m, <2>4 DEF CountInv
<1>7. HttpInv(s)'
  BY <1>s, <1>z, <1>h, <1>d, <1>u DEF HttpInv, IoAt, NoWork, Serving, Sizes
<1>8. QueueInv(s)'
  BY <1>s, <1>z, <1>h, <1>d, <1>u DEF QueueInv, IoAt, Sizes
<1>9. LateInv(s)'
  BY <1>s, <1>z, <1>h, <1>d, <1>u DEF LateInv, IoAt, Settled, Serving, Sizes
<1>10. ResultInv(s)'
  BY <1>s, <1>h, <1>u DEF ResultInv
<1>11. AnswersInv(s)'
  BY <1>s, <1>h, <1>u DEF AnswersInv
<1>f. PostsFine(s)
  <2> SUFFICES ASSUME NEW p, p.kind \in Own, p.s = s, AnswerFine(p), InterruptFine(p)
               PROVE  AnswerFine(p)' /\ InterruptFine(p)'
    BY DEF PostsFine
  <2>1. AnswerFine(p)'
    BY <1>s, <1>h, <1>d, <1>u DEF AnswerFine, Answers, IoAt
  <2>2. InterruptFine(p)'
    BY <1>s, <1>h, <1>d, <1>u DEF InterruptFine, Serving, IoAt, NoWork, Settled
  <2> QED
    BY <2>1, <2>2
<1> QED
  BY <1>1, <1>2, <1>3, <1>4, <1>5, <1>6, <1>7, <1>8, <1>9, <1>10, <1>11, <1>f DEF SocketInv

(* PushWork keeps the invariant of its socket. *)
LEMMA PushWorkKeeps ==
  ASSUME WInv, Next, NEW s \in Sockets, PushWork(s)
  PROVE  SocketInv(s)' /\ PostsFine(s)
<1>s. /\ ExecutorInv(s) /\ PhaseInv(s) /\ IoInv(s) /\ MailInv(s) /\ BufferInv(s) /\ CountInv(s)
      /\ HttpInv(s) /\ QueueInv(s) /\ LateInv(s) /\ ResultInv(s) /\ AnswersInv(s)
  BY DEF WInv, SocketInv
<1>z. Sizes(s) /\ Sizes(s)'
  BY TypesOf, TypesAfter, SizesOf, SizesAfter
<1>y. /\ Len(inbox[s]) \in Nat /\ Len(sent[s]) \in Nat /\ Len(got[s]) \in Nat /\ Len(work[s]) \in Nat
      /\ Len(reqs) \in Nat /\ Len(posts) \in Nat /\ buffer[s] \in Nat /\ serving[s] \in Nat /\ gen[s] \in Nat
  BY <1>z DEF Sizes
<1>h. habits' = habits /\ (Gone' <=> Gone)
  BY DEF Next, Gone
<1>d. /\ io.at = "push"
      /\ io.s = s
      /\ Len(work[s]) < ExecutorSize
      /\ io'.at = "idle"
      /\ Appended(work[s], work'[s], "work")
  BY PushWorkDoes
<1>u. /\ UNCHANGED <<phase, gen, inbox, reqs, sent, ws_conns, buffer, serving, epc, posts,
         builtins, cmds, wpc, queues, results, late, owner, signaled, got, polled>>
  BY PushWorkDoes
<1>a. s \in ws_conns /\ phase[s] \in {"open", "http"} /\ buffer[s] # 0 /\ epc[s] # "none"
  BY <1>s, <1>d DEF IoInv, ExecutorInv, IoAt
<1>w. /\ Len(work'[s]) = Len(work[s]) + 1 /\ work'[s][Len(work[s]) + 1] = "work"
      /\ \A i \in 1..Len(work[s]) : work'[s][i] = work[s][i]
  BY <1>d DEF Appended
<1>1. ExecutorInv(s)'
  <2>1. \A i \in 1..Len(work[s]) : work[s][i] # "destroy"
    BY <1>s, <1>d, <1>a DEF ExecutorInv, IoAt, Joining
  <2>2. \A i \in 1..Len(work'[s]) : i \in 1..Len(work[s]) \/ i = Len(work[s]) + 1
    BY <1>z, <1>w DEF Sizes
  <2>3. \A i \in 1..Len(work'[s]) : work'[s][i] # "destroy"
    BY <1>w, <2>1, <2>2
  <2>4. Len(work'[s]) <= ExecutorSize
    BY <1>z, <1>d, <1>w DEF Sizes
  <2>5. ~IoAt(Ending, s)' /\ ~IoAt(Joining, s)' /\ ~IoAt(Ending, s) /\ ~IoAt(Joining, s)
    BY <1>d DEF IoAt, Ending, Joining
  <2>6. epc[s] # "ended" \/ "idle" \in habits
    BY <1>s, <2>5 DEF ExecutorInv
  <2> QED
    BY <1>h, <1>u, <1>a, <2>3, <2>4, <2>5, <2>6 DEF ExecutorInv
<1>2. PhaseInv(s)'
  BY <1>s, <1>z, <1>h, <1>d, <1>u DEF PhaseInv, IoAt, Clearing, Sizes
<1>3. IoInv(s)'
  BY <1>s, <1>z, <1>h, <1>d, <1>u DEF IoInv, IoAt, Sizes
<1>4. BufferInv(s)'
  BY <1>s, <1>u, <1>a DEF BufferInv
<1>5. CountInv(s)'
  <2>1. Undone(s)' = Undone(s) + 1 /\ Pushing(s) = 1 /\ Pushing(s)' = 0 /\ Posting(s)' = Posting(s)
    BY <1>d, <1>u, <1>w DEF Undone, Pushing, Posting, Serving, IoAt, Joining
  <2>2. (Parting(s)' <=> Parting(s)) /\ Unread(s)' = Unread(s)
    BY <1>u DEF Parting, Unread
  <2>3. Undone(s) \in Int /\ Posting(s) \in Int /\ Unread(s) \in Int /\ Len(got[s]) \in Int
    BY <1>z DEF Undone, Posting, Serving, Unread, Sizes
  <2>4. Len(got[s]) + Unread(s)' + Pushing(s)' + Undone(s)' + Posting(s)'
          = Len(got[s]) + Unread(s) + Pushing(s) + Undone(s) + Posting(s)
    BY <2>1, <2>2, <2>3, Sums
  <2> QED
    BY <1>s, <1>h, <1>u, <2>2, <2>4 DEF CountInv
<1>6. HttpInv(s)'
  <2> SUFFICES ASSUME phase[s] = "http"
               PROVE  HttpInv(s)'
    BY <1>u DEF HttpInv
  <2>1. Len(work[s]) = 0 /\ ~Serving(s) /\ Len(got[s]) = 0 /\ Len(sent[s]) = 1 /\ Len(inbox[s]) = 0
    BY <1>s, <1>y, <1>d, <1>a DEF HttpInv, IoAt
  <2>2. \A i \in 1..Len(work'[s]) : i = 1
    BY <1>w, <2>1
  <2> QED
    BY <1>d, <1>u, <2>1, <2>2 DEF HttpInv, Serving, IoAt
<1>7. QueueInv(s)'
  BY <1>s, <1>z, <1>h, <1>d, <1>u DEF QueueInv, IoAt, Sizes
<1>8. LateInv(s)'
  BY <1>s, <1>z, <1>h, <1>d, <1>u DEF LateInv, IoAt, Settled, Serving, Sizes
<1>9. MailInv(s)'
  BY <1>s, <1>h, <1>u DEF MailInv, Unread, Parting
<1>10. ResultInv(s)'
  BY <1>s, <1>h, <1>u DEF ResultInv
<1>11. AnswersInv(s)'
  BY <1>s, <1>h, <1>u DEF AnswersInv
<1>f. PostsFine(s)
  <2> SUFFICES ASSUME NEW p, p.kind \in Own, p.s = s, AnswerFine(p), InterruptFine(p)
               PROVE  AnswerFine(p)' /\ InterruptFine(p)'
    BY DEF PostsFine
  <2>1. AnswerFine(p)'
    BY <1>s, <1>h, <1>d, <1>u DEF AnswerFine, Answers, IoAt
  <2>2. InterruptFine(p)'
    BY <1>d DEF InterruptFine, Serving, IoAt
  <2> QED
    BY <2>1, <2>2
<1> QED
  BY <1>1, <1>2, <1>3, <1>4, <1>5, <1>6, <1>7, <1>8, <1>9, <1>10, <1>11, <1>f DEF SocketInv

(* CloseHandler keeps the invariant of its socket. *)
LEMMA CloseHandlerKeeps ==
  ASSUME WInv, Next, NEW s \in Sockets, CloseHandler(s)
  PROVE  SocketInv(s)' /\ PostsFine(s)
<1>s. /\ ExecutorInv(s) /\ PhaseInv(s) /\ IoInv(s) /\ MailInv(s) /\ BufferInv(s) /\ CountInv(s)
      /\ HttpInv(s) /\ QueueInv(s) /\ LateInv(s) /\ ResultInv(s) /\ AnswersInv(s)
  BY DEF WInv, SocketInv
<1>z. Sizes(s) /\ Sizes(s)'
  BY TypesOf, TypesAfter, SizesOf, SizesAfter
<1>y. /\ Len(inbox[s]) \in Nat /\ Len(sent[s]) \in Nat /\ Len(got[s]) \in Nat /\ Len(work[s]) \in Nat
      /\ Len(reqs) \in Nat /\ Len(posts) \in Nat /\ buffer[s] \in Nat /\ serving[s] \in Nat /\ gen[s] \in Nat
  BY <1>z DEF Sizes
<1>h. habits' = habits /\ (Gone' <=> Gone)
  BY DEF Next, Gone
<1>d. /\ io.at = "idle"
      /\ phase[s] \in {"open", "closing"}
      /\ inbox[s] # <<>>
      /\ builtins' = builtins \cup {<<"destroy", s>>}
      /\ io'.at = "close"
      /\ io'.s = s
      /\ Len(inbox[s]) > 0
      /\ inbox[s][1] = 0
  BY CloseHandlerDoes
<1>u. /\ UNCHANGED <<phase, gen, inbox, reqs, sent, ws_conns, buffer, work, serving, epc, posts,
         cmds, wpc, queues, results, late, owner, signaled, got, polled>>
  BY CloseHandlerDoes
<1>1. ExecutorInv(s)'
  BY <1>s, <1>z, <1>h, <1>d, <1>u DEF ExecutorInv, IoAt, Ending, Joining, Sizes
<1>2. PhaseInv(s)'
  BY <1>s, <1>z, <1>h, <1>d, <1>u DEF PhaseInv, IoAt, Clearing, Sizes
<1>3. IoInv(s)'
  BY <1>s, <1>z, <1>h, <1>d, <1>u DEF IoInv, IoAt, Sizes
<1>4. CountInv(s)'
  BY <1>s, <1>z, <1>h, <1>d, <1>u DEF CountInv, IoAt, Joining, Parting, Unread, Undone, Pushing, Posting, Serving, Sizes
<1>5. HttpInv(s)'
  BY <1>s, <1>z, <1>h, <1>d, <1>u DEF HttpInv, IoAt, NoWork, Serving, Sizes
<1>6. QueueInv(s)'
  BY <1>s, <1>z, <1>h, <1>d, <1>u DEF QueueInv, IoAt, Sizes
<1>7. LateInv(s)'
  BY <1>s, <1>z, <1>h, <1>d, <1>u DEF LateInv, IoAt, Settled, Serving, Sizes
<1>8. MailInv(s)'
  BY <1>s, <1>h, <1>u DEF MailInv, Unread, Parting
<1>9. BufferInv(s)'
  BY <1>s, <1>h, <1>u DEF BufferInv, NoWork
<1>10. ResultInv(s)'
  BY <1>s, <1>h, <1>u DEF ResultInv
<1>11. AnswersInv(s)'
  BY <1>s, <1>h, <1>u DEF AnswersInv
<1>f. PostsFine(s)
  <2> SUFFICES ASSUME NEW p, p.kind \in Own, p.s = s, AnswerFine(p), InterruptFine(p)
               PROVE  AnswerFine(p)' /\ InterruptFine(p)'
    BY DEF PostsFine
  <2>1. AnswerFine(p)'
    BY <1>s, <1>h, <1>d, <1>u DEF AnswerFine, Answers, IoAt
  <2>2. InterruptFine(p)'
    BY <1>s, <1>h, <1>d, <1>u DEF InterruptFine, Serving, IoAt, NoWork, Settled
  <2> QED
    BY <2>1, <2>2
<1> QED
  BY <1>1, <1>2, <1>3, <1>4, <1>5, <1>6, <1>7, <1>8, <1>9, <1>10, <1>11, <1>f DEF SocketInv

(* CloseReturns keeps the invariant of its socket. *)
LEMMA CloseReturnsKeeps ==
  ASSUME WInv, Next, NEW s \in Sockets, CloseReturns(s)
  PROVE  SocketInv(s)' /\ PostsFine(s)
<1>s. /\ ExecutorInv(s) /\ PhaseInv(s) /\ IoInv(s) /\ MailInv(s) /\ BufferInv(s) /\ CountInv(s)
      /\ HttpInv(s) /\ QueueInv(s) /\ LateInv(s) /\ ResultInv(s) /\ AnswersInv(s)
  BY DEF WInv, SocketInv
<1>z. Sizes(s) /\ Sizes(s)'
  BY TypesOf, TypesAfter, SizesOf, SizesAfter
<1>y. /\ Len(inbox[s]) \in Nat /\ Len(sent[s]) \in Nat /\ Len(got[s]) \in Nat /\ Len(work[s]) \in Nat
      /\ Len(reqs) \in Nat /\ Len(posts) \in Nat /\ buffer[s] \in Nat /\ serving[s] \in Nat /\ gen[s] \in Nat
  BY <1>z DEF Sizes
<1>h. habits' = habits /\ (Gone' <=> Gone)
  BY DEF Next, Gone
<1>d. /\ io.at = "close"
      /\ io.s = s
      /\ <<"destroy", s>> \notin builtins
      /\ s \in ws_conns =>
           /\ UNCHANGED phase
           /\ ws_conns' = ws_conns \ {s}
           /\ io'.at = "erase"
           /\ io'.s = s
      /\ s \notin ws_conns =>
           /\ UNCHANGED ws_conns
           /\ io'.at = "idle"
           /\ phase'[s] = "free"
  BY CloseReturnsDoes
<1>u. /\ UNCHANGED <<gen, inbox, reqs, sent, buffer, work, serving, epc, posts, builtins, cmds,
         wpc, queues, results, late, owner, signaled, got, polled>>
  BY CloseReturnsDoes
<1>a. /\ phase[s] \in {"open", "closing"} /\ Len(inbox[s]) > 0 /\ inbox[s][1] = 0
      /\ s \notin ws_conns => epc[s] = "none"
  BY <1>s, <1>d DEF IoInv, ExecutorInv, IoAt, Ending
<1>b. s \in ws_conns => phase[s] = "open"
  BY <1>s, <1>d, <1>a DEF PhaseInv, IoAt, Clearing
<1>1. ExecutorInv(s)'
  BY <1>s, <1>z, <1>h, <1>d, <1>u DEF ExecutorInv, IoAt, Ending, Joining, Sizes
<1>2. PhaseInv(s)'
  BY <1>s, <1>z, <1>h, <1>d, <1>u DEF PhaseInv, IoAt, Clearing, Sizes
<1>3. IoInv(s)'
  BY <1>d, <1>u, <1>a, <1>b DEF IoInv, IoAt
<1>4. MailInv(s)'
  BY <1>s, <1>z, <1>h, <1>d, <1>u DEF MailInv, Unread, Parting, Sizes
<1>5. BufferInv(s)'
  BY <1>s, <1>d, <1>u, <1>a DEF BufferInv, NoWork
<1>6. CountInv(s)'
  BY <1>s, <1>z, <1>h, <1>d, <1>u DEF CountInv, IoAt, Joining, Parting, Unread, Undone, Pushing, Posting, Serving, Sizes
<1>7. HttpInv(s)'
  BY <1>d, <1>a DEF HttpInv
<1>8. QueueInv(s)'
  BY <1>s, <1>z, <1>h, <1>d, <1>u DEF QueueInv, IoAt, Sizes
<1>9. LateInv(s)'
  <2>1. Settled(s)' <=> Settled(s)
    BY <1>u DEF Settled
  <2>2. ~Gone => Settled(s) \/ Serving(s)
    BY <1>s, <1>d DEF LateInv, IoAt
  <2> QED
    BY <1>h, <1>d, <1>u, <1>a, <1>b, <2>1, <2>2 DEF LateInv, Serving, IoAt
<1>10. ResultInv(s)'
  BY <1>s, <1>h, <1>u DEF ResultInv
<1>11. AnswersInv(s)'
  BY <1>s, <1>h, <1>u DEF AnswersInv
<1>f. PostsFine(s)
  <2> SUFFICES ASSUME NEW p, p.kind \in Own, p.s = s, AnswerFine(p), InterruptFine(p)
               PROVE  AnswerFine(p)' /\ InterruptFine(p)'
    BY DEF PostsFine
  <2>1. AnswerFine(p)'
    BY <1>h, <1>d, <1>u, <1>a DEF AnswerFine, Answers, IoAt
  <2>2. InterruptFine(p)'
    BY <1>a DEF InterruptFine
  <2> QED
    BY <2>1, <2>2
<1> QED
  BY <1>1, <1>2, <1>3, <1>4, <1>5, <1>6, <1>7, <1>8, <1>9, <1>10, <1>11, <1>f DEF SocketInv

(* StopsExecutor keeps the invariant of its socket. *)
LEMMA StopsExecutorKeeps ==
  ASSUME WInv, Next, NEW s \in Sockets, StopsExecutor(s)
  PROVE  SocketInv(s)' /\ PostsFine(s)
<1>s. /\ ExecutorInv(s) /\ PhaseInv(s) /\ IoInv(s) /\ MailInv(s) /\ BufferInv(s) /\ CountInv(s)
      /\ HttpInv(s) /\ QueueInv(s) /\ LateInv(s) /\ ResultInv(s) /\ AnswersInv(s)
  BY DEF WInv, SocketInv
<1>z. Sizes(s) /\ Sizes(s)'
  BY TypesOf, TypesAfter, SizesOf, SizesAfter
<1>y. /\ Len(inbox[s]) \in Nat /\ Len(sent[s]) \in Nat /\ Len(got[s]) \in Nat /\ Len(work[s]) \in Nat
      /\ Len(reqs) \in Nat /\ Len(posts) \in Nat /\ buffer[s] \in Nat /\ serving[s] \in Nat /\ gen[s] \in Nat
  BY <1>z DEF Sizes
<1>h. habits' = habits /\ (Gone' <=> Gone)
  BY DEF Next, Gone
<1>d. /\ io.at \in {"erase", "clear"}
      /\ io.s = s
      /\ Len(work[s]) < ExecutorSize
      /\ io'.s = s
      /\ io.at = "erase" => io'.at = "join"
      /\ io.at = "clear" => io'.at = "clear_join"
      /\ Appended(work[s], work'[s], "destroy")
  BY StopsExecutorDoes
<1>u. /\ UNCHANGED <<phase, gen, inbox, reqs, sent, ws_conns, buffer, serving, epc, posts,
         builtins, cmds, wpc, queues, results, late, owner, signaled, got, polled>>
  BY StopsExecutorDoes
<1>a. s \notin ws_conns /\ epc[s] # "none" /\ IoAt(Ending, s) /\ ~IoAt(Joining, s) /\ IoAt(Joining, s)'
  BY <1>s, <1>d DEF ExecutorInv, IoAt, Ending, Joining
<1>w. /\ Len(work'[s]) = Len(work[s]) + 1 /\ work'[s][Len(work[s]) + 1] = "destroy"
      /\ \A i \in 1..Len(work[s]) : work'[s][i] = work[s][i]
  BY <1>d DEF Appended
<1>b. \A i \in 1..Len(work'[s]) : i \in 1..Len(work[s]) \/ i = Len(work[s]) + 1
  BY <1>z, <1>w DEF Sizes
<1>c. NoWork(s)' <=> NoWork(s)
  <2>1. \A i \in 1..Len(work[s]) : i \in 1..Len(work'[s])
    BY <1>z, <1>w DEF Sizes
  <2> QED
    BY <1>w, <1>b, <2>1 DEF NoWork
<1>1. ExecutorInv(s)'
  <2>1. \A i \in 1..Len(work[s]) : work[s][i] # "destroy" /\ i # Len(work'[s])
    BY <1>s, <1>z, <1>a, <1>w DEF ExecutorInv, Sizes
  <2>2. \A i \in 1..Len(work'[s]) : work'[s][i] = "destroy" <=> i = Len(work'[s])
    <3>1. ASSUME NEW i \in 1..Len(work[s])
          PROVE  work'[s][i] # "destroy" /\ i # Len(work'[s])
      BY <1>w, <2>1
    <3>2. work'[s][Len(work[s]) + 1] = "destroy" /\ Len(work[s]) + 1 = Len(work'[s])
      BY <1>w
    <3> QED
      BY <1>b, <3>1, <3>2
  <2>3. Len(work'[s]) <= ExecutorSize /\ Len(work'[s]) > 0
    <3>1. Len(work[s]) \in Nat /\ Len(work[s]) < ExecutorSize
      BY <1>z, <1>d DEF Sizes
    <3> QED
      BY <1>w, <3>1, ServerAssumption
  <2>4. IoAt(Ending, s)'
    BY <1>d DEF IoAt, Ending
  <2>5. epc[s] = "ended" => "idle" \in habits
    BY <1>s, <1>a DEF ExecutorInv
  <2> QED
    BY <1>h, <1>u, <1>a, <2>2, <2>3, <2>4, <2>5 DEF ExecutorInv
<1>2. PhaseInv(s)'
  BY <1>s, <1>z, <1>h, <1>d, <1>u DEF PhaseInv, IoAt, Clearing, Sizes
<1>3. IoInv(s)'
  BY <1>s, <1>z, <1>h, <1>d, <1>u DEF IoInv, IoAt, Sizes
<1>4. BufferInv(s)'
  BY <1>s, <1>u, <1>c DEF BufferInv
<1>5. CountInv(s)'
  <2>1. Undone(s)' = Undone(s) /\ Pushing(s) = 0 /\ Pushing(s)' = 0 /\ Posting(s)' = Posting(s)
    BY <1>z, <1>d, <1>u, <1>a, <1>w DEF Undone, Pushing, Posting, Serving, IoAt, Sizes
  <2>2. (Parting(s)' <=> Parting(s)) /\ Unread(s)' = Unread(s)
    BY <1>u DEF Parting, Unread
  <2> QED
    BY <1>s, <1>h, <1>u, <2>1, <2>2 DEF CountInv
<1>6. HttpInv(s)'
  <2> SUFFICES ASSUME phase[s] = "http"
               PROVE  HttpInv(s)'
    BY <1>u DEF HttpInv
  <2>1. ASSUME NEW i \in 1..Len(work'[s]), work'[s][i] = "work"
        PROVE  i = 1 /\ ~Serving(s) /\ Len(got[s]) = 0
    <3>1. i \in 1..Len(work[s]) /\ work[s][i] = "work"
      BY <1>w, <1>b, <2>1
    <3> QED
      BY <1>s, <1>a, <3>1 DEF HttpInv
  <2>2. Len(inbox[s]) = 0
    BY <1>s, <1>y, <1>d, <1>a DEF HttpInv, IoAt
  <2>3. io.at = "erase" => NoWork(s) /\ ~Serving(s)
    BY <1>s, <1>d DEF HttpInv, IoAt
  <2>4. IoAt({"erase", "join"}, s)' => io.at = "erase"
    BY <1>d DEF IoAt
  <2>5. IoAt({"erase", "join", "http_close"}, s)' => io.at = "erase"
    BY <1>d DEF IoAt
  <2>6. ~IoAt({"push"}, s)'
    BY <1>d DEF IoAt
  <2> QED
    BY <1>s, <1>u, <1>c, <2>1, <2>2, <2>3, <2>4, <2>5, <2>6 DEF HttpInv, Serving
<1>7. QueueInv(s)'
  BY <1>s, <1>z, <1>h, <1>d, <1>u DEF QueueInv, IoAt, Sizes
<1>8. LateInv(s)'
  BY <1>s, <1>z, <1>h, <1>d, <1>u DEF LateInv, IoAt, Settled, Serving, Sizes
<1>9. MailInv(s)'
  BY <1>s, <1>h, <1>u DEF MailInv, Unread, Parting
<1>10. ResultInv(s)'
  BY <1>s, <1>h, <1>u DEF ResultInv
<1>11. AnswersInv(s)'
  BY <1>s, <1>h, <1>u DEF AnswersInv
<1>f. PostsFine(s)
  <2> SUFFICES ASSUME NEW p, p.kind \in Own, p.s = s, AnswerFine(p), InterruptFine(p)
               PROVE  AnswerFine(p)' /\ InterruptFine(p)'
    BY DEF PostsFine
  <2>1. AnswerFine(p)'
    BY <1>s, <1>h, <1>d, <1>u DEF AnswerFine, Answers, IoAt
  <2>2. InterruptFine(p)'
    <3>1. Settled(s)' <=> Settled(s)
      BY <1>u DEF Settled
    <3> QED
      BY <1>h, <1>d, <1>u, <1>c, <3>1 DEF InterruptFine, Serving, IoAt
  <2> QED
    BY <2>1, <2>2
<1> QED
  BY <1>1, <1>2, <1>3, <1>4, <1>5, <1>6, <1>7, <1>8, <1>9, <1>10, <1>11, <1>f DEF SocketInv

(* JoinsExecutor keeps the invariant of its socket. *)
LEMMA JoinsExecutorKeeps ==
  ASSUME WInv, Next, NEW s \in Sockets, JoinsExecutor(s)
  PROVE  SocketInv(s)' /\ PostsFine(s)
<1>s. /\ ExecutorInv(s) /\ PhaseInv(s) /\ IoInv(s) /\ MailInv(s) /\ BufferInv(s) /\ CountInv(s)
      /\ HttpInv(s) /\ QueueInv(s) /\ LateInv(s) /\ ResultInv(s) /\ AnswersInv(s)
  BY DEF WInv, SocketInv
<1>z. Sizes(s) /\ Sizes(s)'
  BY TypesOf, TypesAfter, SizesOf, SizesAfter
<1>y. /\ Len(inbox[s]) \in Nat /\ Len(sent[s]) \in Nat /\ Len(got[s]) \in Nat /\ Len(work[s]) \in Nat
      /\ Len(reqs) \in Nat /\ Len(posts) \in Nat /\ buffer[s] \in Nat /\ serving[s] \in Nat /\ gen[s] \in Nat
  BY <1>z DEF Sizes
<1>h. habits' = habits /\ (Gone' <=> Gone)
  BY DEF Next, Gone
<1>d. /\ io.at = "join"
      /\ io.s = s
      /\ epc[s] = "ended"
      /\ epc'[s] = "none"
      /\ phase'[s] = "free"
      /\ io'.at = "idle"
  BY JoinsExecutorDoes
<1>u. /\ UNCHANGED <<gen, inbox, reqs, sent, ws_conns, buffer, work, serving, posts, builtins,
         cmds, wpc, queues, results, late, owner, signaled, got, polled>>
  BY JoinsExecutorDoes
<1>a. s \notin ws_conns
  BY <1>s, <1>d DEF ExecutorInv, IoAt, Ending
<1>1. ExecutorInv(s)'
  BY <1>s, <1>z, <1>h, <1>d, <1>u DEF ExecutorInv, IoAt, Ending, Joining, Sizes
<1>2. PhaseInv(s)'
  BY <1>s, <1>z, <1>h, <1>d, <1>u, <1>a DEF PhaseInv, IoAt, Clearing, Sizes
<1>3. IoInv(s)'
  BY <1>s, <1>z, <1>h, <1>d, <1>u DEF IoInv, IoAt, Sizes
<1>4. MailInv(s)'
  BY <1>s, <1>z, <1>h, <1>d, <1>u DEF MailInv, Unread, Parting, Sizes
<1>5. BufferInv(s)'
  BY <1>s, <1>z, <1>h, <1>d, <1>u DEF BufferInv, NoWork, Sizes
<1>6. CountInv(s)'
  BY <1>s, <1>z, <1>h, <1>d, <1>u DEF CountInv, IoAt, Joining, Parting, Unread, Undone, Pushing, Posting, Serving, Sizes
<1>7. HttpInv(s)'
  BY <1>s, <1>z, <1>h, <1>d, <1>u DEF HttpInv, IoAt, NoWork, Serving, Sizes
<1>8. QueueInv(s)'
  BY <1>s, <1>z, <1>h, <1>d, <1>u DEF QueueInv, IoAt, Sizes
<1>9. LateInv(s)'
  BY <1>s, <1>z, <1>h, <1>d, <1>u DEF LateInv, IoAt, Settled, Serving, Sizes
<1>10. ResultInv(s)'
  BY <1>s, <1>h, <1>u DEF ResultInv
<1>11. AnswersInv(s)'
  BY <1>s, <1>h, <1>u DEF AnswersInv
<1>f. PostsFine(s)
  <2> SUFFICES ASSUME NEW p, p.kind \in Own, p.s = s, AnswerFine(p), InterruptFine(p)
               PROVE  AnswerFine(p)' /\ InterruptFine(p)'
    BY DEF PostsFine
  <2>1. FALSE
    BY <1>s, <1>z, <1>d DEF AnswerFine, InterruptFine, Serving, Answers, Own, IoAt
  <2> QED
    BY <2>1
<1> QED
  BY <1>1, <1>2, <1>3, <1>4, <1>5, <1>6, <1>7, <1>8, <1>9, <1>10, <1>11, <1>f DEF SocketInv

(* PostSends keeps the invariant of its socket. *)
LEMMA PostSendsKeeps ==
  ASSUME WInv, Next, NEW s \in Sockets, PostSends(s)
  PROVE  SocketInv(s)'
<1>s. /\ ExecutorInv(s) /\ PhaseInv(s) /\ IoInv(s) /\ MailInv(s) /\ BufferInv(s) /\ CountInv(s)
      /\ HttpInv(s) /\ QueueInv(s) /\ LateInv(s) /\ ResultInv(s) /\ AnswersInv(s)
  BY DEF WInv, SocketInv
<1>z. Sizes(s) /\ Sizes(s)'
  BY TypesOf, TypesAfter, SizesOf, SizesAfter
<1>y. /\ Len(inbox[s]) \in Nat /\ Len(sent[s]) \in Nat /\ Len(got[s]) \in Nat /\ Len(work[s]) \in Nat
      /\ Len(reqs) \in Nat /\ Len(posts) \in Nat /\ buffer[s] \in Nat /\ serving[s] \in Nat /\ gen[s] \in Nat
  BY <1>z DEF Sizes
<1>h. habits' = habits /\ (Gone' <=> Gone)
  BY DEF Next, Gone
<1>d. /\ io.at = "idle"
      /\ epc'[s] = "idle"
      /\ phase[s] # "open" => got'[s] = got[s]
      /\ Len(posts) > 0
      /\ posts[1].kind = "send"
      /\ posts[1].s = s
      /\ Dropped(posts, posts')
      /\ phase[s] = "open" => Appended(got[s], got'[s], posts[1].req)
  BY PostSendsDoes
<1>u. /\ UNCHANGED <<phase, gen, inbox, reqs, sent, ws_conns, buffer, work, serving, io,
         builtins, cmds, wpc, queues, results, late, owner, signaled, polled>>
  BY PostSendsDoes
<1>p. /\ epc[s] = "posting" /\ phase[s] \in {"open", "closing"}
      /\ phase[s] = "open" => \E j \in Len(got[s]) + 1..Len(sent[s]) : posts[1].req = sent[s][j]
  <2>1. 1 \in 1..Len(posts)
    BY <1>z, <1>d DEF Sizes
  <2>2. AnswerFine(posts[1])
    BY <2>1 DEF WInv, PostInv
  <2> QED
    BY <1>d, <2>2 DEF AnswerFine, Answers
<1>1. ExecutorInv(s)'
  BY <1>s, <1>d, <1>u, <1>p DEF ExecutorInv, IoAt, Ending, Joining
<1>2. PhaseInv(s)'
  BY <1>s, <1>z, <1>h, <1>d, <1>u DEF PhaseInv, IoAt, Clearing, Sizes
<1>3. IoInv(s)'
  BY <1>s, <1>z, <1>h, <1>d, <1>u DEF IoInv, IoAt, Sizes
<1>4. BufferInv(s)'
  BY <1>s, <1>d, <1>u, <1>p DEF BufferInv, NoWork
<1>5. CountInv(s)'
  <2> SUFFICES ASSUME phase[s] = "open"
               PROVE  CountInv(s)'
    BY <1>u DEF CountInv
  <2>1. Len(got'[s]) = Len(got[s]) + 1 /\ Len(got[s]) + 1 <= Len(sent[s])
    BY <1>z, <1>d, <1>p DEF Appended, Sizes
  <2>2. Undone(s)' = Undone(s) /\ Pushing(s)' = Pushing(s) /\ Posting(s) = 1 /\ Posting(s)' = 0
    BY <1>d, <1>u, <1>p DEF Undone, Pushing, Posting, Serving, IoAt
  <2>3. (Parting(s)' <=> Parting(s)) /\ Unread(s)' = Unread(s)
    BY <1>u DEF Parting, Unread
  <2>4. Undone(s) \in Int /\ Pushing(s) \in Int /\ Unread(s) \in Int /\ Len(got[s]) \in Int
    BY <1>z DEF Undone, Pushing, Unread, Sizes
  <2>5. Len(got'[s]) + Unread(s)' + Pushing(s)' + Undone(s)' + Posting(s)'
          = Len(got[s]) + Unread(s) + Pushing(s) + Undone(s) + Posting(s)
    BY <2>1, <2>2, <2>3, <2>4, Sums
  <2>6. "leaves" \notin habits => ~Parting(s)
    BY <1>s, <1>z, <2>1 DEF CountInv, Sizes
  <2>7. "pipelines" \notin habits => Len(sent[s]) <= Len(got'[s]) + 1
    <3>1. "pipelines" \notin habits => Len(sent[s]) <= Len(got[s]) + 1
      BY <1>s DEF CountInv
    <3> QED
      BY <1>y, <2>1, <3>1
  <2> QED
    BY <1>s, <1>h, <1>u, <2>3, <2>5, <2>6, <2>7 DEF CountInv
<1>6. HttpInv(s)'
  BY <1>u, <1>p DEF HttpInv
<1>7. LateInv(s)'
  BY <1>s, <1>z, <1>h, <1>d, <1>u DEF LateInv, IoAt, Settled, Serving, Sizes
<1>8. AnswersInv(s)'
  <2>1. CASE phase[s] = "open"
    <3>1. PICK j \in Len(got[s]) + 1..Len(sent[s]) : posts[1].req = sent[s][j]
      BY <1>p, <2>1
    <3>2. /\ Len(got'[s]) = Len(got[s]) + 1 /\ got'[s][Len(got[s]) + 1] = sent[s][j]
          /\ \A i \in 1..Len(got[s]) : got'[s][i] = got[s][i]
      BY <1>d, <2>1, <3>1 DEF Appended
    <3>3. "pipelines" \notin habits => j = Len(got[s]) + 1
      <4>1. "pipelines" \notin habits => Len(sent[s]) <= Len(got[s]) + 1
        BY <1>s, <2>1 DEF CountInv
      <4> QED
        BY <1>y, <3>1, <4>1
    <3>4. \A i \in 1..Len(got'[s]) : i \in 1..Len(got[s]) \/ i = Len(got[s]) + 1
      BY <1>y, <3>2
    <3>5. Len(got[s]) + 1 <= Len(sent[s]) /\ j \in Len(got[s]) + 1..Len(sent[s])
      BY <1>y, <3>1
    <3>6. ASSUME NEW i \in 1..Len(got'[s])
          PROVE  /\ i <= Len(sent[s]) /\ \E k \in i..Len(sent[s]) : got'[s][i] = sent[s][k]
                 /\ "pipelines" \notin habits => got'[s][i] = sent[s][i]
      <4>1. CASE i \in 1..Len(got[s])
        BY <1>s, <3>2, <4>1 DEF AnswersInv
      <4>2. CASE i = Len(got[s]) + 1
        BY <3>2, <3>3, <3>5, <4>2
      <4> QED
        BY <3>4, <4>1, <4>2
    <3> QED
      BY <1>h, <1>u, <3>6 DEF AnswersInv
  <2>2. CASE phase[s] # "open"
    BY <1>s, <1>h, <1>d, <1>u, <2>2 DEF AnswersInv
  <2> QED
    BY <2>1, <2>2
<1>9. MailInv(s)'
  BY <1>s, <1>h, <1>u DEF MailInv, Unread, Parting
<1>10. QueueInv(s)'
  BY <1>s, <1>h, <1>u DEF QueueInv, IoAt
<1>11. ResultInv(s)'
  BY <1>s, <1>h, <1>u DEF ResultInv
<1> QED
  BY <1>1, <1>2, <1>3, <1>4, <1>5, <1>6, <1>7, <1>8, <1>9, <1>10, <1>11 DEF SocketInv

(* PostSendsHttp keeps the invariant of its socket. *)
LEMMA PostSendsHttpKeeps ==
  ASSUME WInv, Next, NEW s \in Sockets, PostSendsHttp(s)
  PROVE  SocketInv(s)'
<1>s. /\ ExecutorInv(s) /\ PhaseInv(s) /\ IoInv(s) /\ MailInv(s) /\ BufferInv(s) /\ CountInv(s)
      /\ HttpInv(s) /\ QueueInv(s) /\ LateInv(s) /\ ResultInv(s) /\ AnswersInv(s)
  BY DEF WInv, SocketInv
<1>z. Sizes(s) /\ Sizes(s)'
  BY TypesOf, TypesAfter, SizesOf, SizesAfter
<1>y. /\ Len(inbox[s]) \in Nat /\ Len(sent[s]) \in Nat /\ Len(got[s]) \in Nat /\ Len(work[s]) \in Nat
      /\ Len(reqs) \in Nat /\ Len(posts) \in Nat /\ buffer[s] \in Nat /\ serving[s] \in Nat /\ gen[s] \in Nat
  BY <1>z DEF Sizes
<1>h. habits' = habits /\ (Gone' <=> Gone)
  BY DEF Next, Gone
<1>d. /\ io.at = "idle"
      /\ builtins' = builtins \cup {<<"destroy", s>>}
      /\ io'.at = "http_close"
      /\ io'.s = s
      /\ Len(posts) > 0
      /\ posts[1].kind = "http"
      /\ posts[1].s = s
      /\ Dropped(posts, posts')
      /\ Appended(got[s], got'[s], posts[1].req)
  BY PostSendsHttpDoes
<1>u. /\ UNCHANGED <<phase, gen, inbox, reqs, sent, ws_conns, buffer, work, serving, epc, cmds,
         wpc, queues, results, late, owner, signaled, polled>>
  BY PostSendsHttpDoes
<1>p. /\ epc[s] = "posting" /\ phase[s] = "http" /\ Len(sent[s]) = 1 /\ Len(got[s]) = 0
      /\ posts[1].req = sent[s][1]
  <2>1. 1 \in 1..Len(posts)
    BY <1>z, <1>d DEF Sizes
  <2>2. AnswerFine(posts[1])
    BY <2>1 DEF WInv, PostInv
  <2>3. /\ epc[s] = "posting" /\ phase[s] = "http"
        /\ \E j \in Len(got[s]) + 1..Len(sent[s]) : posts[1].req = sent[s][j]
    BY <1>d, <2>2 DEF AnswerFine, Answers
  <2> QED
    <3>1. Len(sent[s]) = 1 /\ Len(got[s]) <= 1
      BY <1>s, <2>3 DEF HttpInv
    <3> QED
      BY <1>y, <2>3, <3>1
<1>q. s \in ws_conns /\ Len(inbox[s]) = 0 /\ NoWork(s)
  <2>1. s \in ws_conns
    BY <1>s, <1>d, <1>p DEF ExecutorInv, IoAt, Ending
  <2>2. Len(inbox[s]) = 0
    BY <1>s, <1>y, <1>d, <1>p DEF HttpInv, IoAt
  <2>3. NoWork(s)
    BY <1>s, <1>p DEF HttpInv, Serving, NoWork
  <2> QED
    BY <2>1, <2>2, <2>3
<1>1. ExecutorInv(s)'
  BY <1>s, <1>z, <1>h, <1>d, <1>u DEF ExecutorInv, IoAt, Ending, Joining, Sizes
<1>2. PhaseInv(s)'
  BY <1>s, <1>h, <1>d, <1>u, <1>p, <1>q DEF PhaseInv, Clearing
<1>3. IoInv(s)'
  BY <1>d, <1>u, <1>p, <1>q DEF IoInv, IoAt
<1>4. BufferInv(s)'
  BY <1>s, <1>d, <1>u, <1>p DEF BufferInv, NoWork
<1>5. CountInv(s)'
  BY <1>u, <1>p DEF CountInv
<1>6. HttpInv(s)'
  <2>1. Len(got'[s]) = 1
    BY <1>d, <1>p DEF Appended
  <2>2. NoWork(s)' /\ \A i \in 1..Len(work[s]) : work[s][i] # "work"
    BY <1>u, <1>q DEF NoWork
  <2> QED
    BY <1>d, <1>u, <1>p, <1>q, <2>1, <2>2 DEF HttpInv, Serving, IoAt
<1>7. QueueInv(s)'
  BY <1>s, <1>z, <1>h, <1>d, <1>u DEF QueueInv, IoAt, Sizes
<1>8. LateInv(s)'
  BY <1>s, <1>z, <1>h, <1>d, <1>u DEF LateInv, IoAt, Settled, Serving, Sizes
<1>9. AnswersInv(s)'
  <2>1. Len(got'[s]) = 1 /\ got'[s][1] = sent[s][1]
    BY <1>d, <1>p DEF Appended
  <2> QED
    BY <1>u, <1>p, <2>1 DEF AnswersInv
<1>10. MailInv(s)'
  BY <1>s, <1>h, <1>u DEF MailInv, Unread, Parting
<1>11. ResultInv(s)'
  BY <1>s, <1>h, <1>u DEF ResultInv
<1> QED
  BY <1>1, <1>2, <1>3, <1>4, <1>5, <1>6, <1>7, <1>8, <1>9, <1>10, <1>11 DEF SocketInv

(* PostHttpThrows keeps the invariant of its socket. *)
LEMMA PostHttpThrowsKeeps ==
  ASSUME WInv, Next, NEW s \in Sockets, PostHttpThrows(s)
  PROVE  SocketInv(s)'
<1>s. /\ ExecutorInv(s) /\ PhaseInv(s) /\ IoInv(s) /\ MailInv(s) /\ BufferInv(s) /\ CountInv(s)
      /\ HttpInv(s) /\ QueueInv(s) /\ LateInv(s) /\ ResultInv(s) /\ AnswersInv(s)
  BY DEF WInv, SocketInv
<1>z. Sizes(s) /\ Sizes(s)'
  BY TypesOf, TypesAfter, SizesOf, SizesAfter
<1>y. /\ Len(inbox[s]) \in Nat /\ Len(sent[s]) \in Nat /\ Len(got[s]) \in Nat /\ Len(work[s]) \in Nat
      /\ Len(reqs) \in Nat /\ Len(posts) \in Nat /\ buffer[s] \in Nat /\ serving[s] \in Nat /\ gen[s] \in Nat
  BY <1>z DEF Sizes
<1>h. habits' = habits /\ (Gone' <=> Gone)
  BY DEF Next, Gone
<1>d. /\ io.at = "idle"
      /\ "leaves" \in habits
      /\ epc'[s] = "idle"
      /\ Len(posts) > 0
      /\ posts[1].kind = "http"
      /\ posts[1].s = s
      /\ Len(posts) > 0
      /\ Len(posts') = Len(posts)
      /\ \A i \in 1..Len(posts) - 1 : posts'[i] = posts[i + 1]
      /\ posts'[Len(posts)] = [kind |-> "interrupt", s |-> s, req |-> 0]
  BY PostHttpThrowsDoes
<1>u. /\ UNCHANGED <<phase, gen, inbox, reqs, sent, ws_conns, buffer, work, serving, io,
         builtins, cmds, wpc, queues, results, late, owner, signaled, got, polled>>
  BY PostHttpThrowsDoes
<1>p. /\ epc[s] = "posting" /\ phase[s] = "http" /\ Len(sent[s]) = 1 /\ Len(got[s]) = 0
      /\ posts[1].req = sent[s][1]
  <2>1. 1 \in 1..Len(posts)
    BY <1>z, <1>d DEF Sizes
  <2>2. AnswerFine(posts[1])
    BY <2>1 DEF WInv, PostInv
  <2>3. /\ epc[s] = "posting" /\ phase[s] = "http"
        /\ \E j \in Len(got[s]) + 1..Len(sent[s]) : posts[1].req = sent[s][j]
    BY <1>d, <2>2 DEF AnswerFine, Answers
  <2> QED
    <3>1. Len(sent[s]) = 1 /\ Len(got[s]) <= 1
      BY <1>s, <2>3 DEF HttpInv
    <3> QED
      BY <1>y, <2>3, <3>1
<1>q. s \in ws_conns /\ Len(inbox[s]) = 0 /\ NoWork(s)
  <2>1. s \in ws_conns
    BY <1>s, <1>d, <1>p DEF ExecutorInv, IoAt, Ending
  <2>2. Len(inbox[s]) = 0
    BY <1>s, <1>y, <1>d, <1>p DEF HttpInv, IoAt
  <2>3. NoWork(s)
    BY <1>s, <1>p DEF HttpInv, Serving, NoWork
  <2> QED
    BY <2>1, <2>2, <2>3
<1>1. ExecutorInv(s)'
  BY <1>s, <1>d, <1>u, <1>p DEF ExecutorInv, IoAt, Ending, Joining
<1>2. IoInv(s)'
  BY <1>s, <1>z, <1>h, <1>d, <1>u DEF IoInv, IoAt, Sizes
<1>3. BufferInv(s)'
  BY <1>s, <1>d, <1>u, <1>p DEF BufferInv, NoWork
<1>4. CountInv(s)'
  BY <1>u, <1>p DEF CountInv
<1>5. HttpInv(s)'
  <2>1. NoWork(s)' /\ \A i \in 1..Len(work[s]) : work[s][i] # "work"
    BY <1>u, <1>q DEF NoWork
  <2> QED
    BY <1>s, <1>d, <1>u, <1>p, <1>q, <2>1 DEF HttpInv, Serving, IoAt
<1>6. LateInv(s)'
  BY <1>s, <1>z, <1>h, <1>d, <1>u DEF LateInv, IoAt, Settled, Serving, Sizes
<1>7. PhaseInv(s)'
  BY <1>s, <1>h, <1>u DEF PhaseInv, IoAt, Clearing
<1>8. MailInv(s)'
  BY <1>s, <1>h, <1>u DEF MailInv, Unread, Parting
<1>9. QueueInv(s)'
  BY <1>s, <1>h, <1>u DEF QueueInv, IoAt
<1>10. ResultInv(s)'
  BY <1>s, <1>h, <1>u DEF ResultInv
<1>11. AnswersInv(s)'
  BY <1>s, <1>h, <1>u DEF AnswersInv
<1> QED
  BY <1>1, <1>2, <1>3, <1>4, <1>5, <1>6, <1>7, <1>8, <1>9, <1>10, <1>11 DEF SocketInv

(* HttpCloseReturns keeps the invariant of its socket. *)
LEMMA HttpCloseReturnsKeeps ==
  ASSUME WInv, Next, NEW s \in Sockets, HttpCloseReturns(s)
  PROVE  SocketInv(s)' /\ PostsFine(s)
<1>s. /\ ExecutorInv(s) /\ PhaseInv(s) /\ IoInv(s) /\ MailInv(s) /\ BufferInv(s) /\ CountInv(s)
      /\ HttpInv(s) /\ QueueInv(s) /\ LateInv(s) /\ ResultInv(s) /\ AnswersInv(s)
  BY DEF WInv, SocketInv
<1>z. Sizes(s) /\ Sizes(s)'
  BY TypesOf, TypesAfter, SizesOf, SizesAfter
<1>y. /\ Len(inbox[s]) \in Nat /\ Len(sent[s]) \in Nat /\ Len(got[s]) \in Nat /\ Len(work[s]) \in Nat
      /\ Len(reqs) \in Nat /\ Len(posts) \in Nat /\ buffer[s] \in Nat /\ serving[s] \in Nat /\ gen[s] \in Nat
  BY <1>z DEF Sizes
<1>h. habits' = habits /\ (Gone' <=> Gone)
  BY DEF Next, Gone
<1>d. /\ io.at = "http_close"
      /\ io.s = s
      /\ <<"destroy", s>> \notin builtins
      /\ epc'[s] = "idle"
      /\ io'.at = "idle"
      /\ Appended(posts, posts', [kind |-> "interrupt", s |-> s, req |-> 0])
  BY HttpCloseReturnsDoes
<1>u. /\ UNCHANGED <<phase, gen, inbox, reqs, sent, ws_conns, buffer, work, serving, builtins,
         cmds, wpc, queues, results, late, owner, signaled, got, polled>>
  BY HttpCloseReturnsDoes
<1>p. s \in ws_conns /\ phase[s] = "http" /\ epc[s] = "posting"
  BY <1>s, <1>d DEF IoInv, IoAt
<1>q. Len(inbox[s]) = 0 /\ NoWork(s)
  BY <1>s, <1>y, <1>d, <1>p DEF HttpInv, IoAt
<1>1. ExecutorInv(s)'
  BY <1>s, <1>d, <1>u, <1>p DEF ExecutorInv, IoAt, Ending, Joining
<1>2. PhaseInv(s)'
  BY <1>s, <1>z, <1>h, <1>d, <1>u DEF PhaseInv, IoAt, Clearing, Sizes
<1>3. IoInv(s)'
  BY <1>s, <1>z, <1>h, <1>d, <1>u DEF IoInv, IoAt, Sizes
<1>4. BufferInv(s)'
  BY <1>s, <1>d, <1>u, <1>p DEF BufferInv, NoWork
<1>5. CountInv(s)'
  BY <1>u, <1>p DEF CountInv
<1>6. HttpInv(s)'
  <2>1. NoWork(s)' /\ \A i \in 1..Len(work[s]) : work[s][i] # "work"
    BY <1>u, <1>q DEF NoWork
  <2> QED
    BY <1>s, <1>d, <1>u, <1>p, <1>q, <2>1 DEF HttpInv, Serving, IoAt
<1>7. QueueInv(s)'
  BY <1>s, <1>z, <1>h, <1>d, <1>u DEF QueueInv, IoAt, Sizes
<1>8. LateInv(s)'
  BY <1>s, <1>z, <1>h, <1>d, <1>u DEF LateInv, IoAt, Settled, Serving, Sizes
<1>9. MailInv(s)'
  BY <1>s, <1>h, <1>u DEF MailInv, Unread, Parting
<1>10. ResultInv(s)'
  BY <1>s, <1>h, <1>u DEF ResultInv
<1>11. AnswersInv(s)'
  BY <1>s, <1>h, <1>u DEF AnswersInv
<1>f. PostsFine(s)
  <2> SUFFICES ASSUME NEW p, p.kind \in Own, p.s = s, AnswerFine(p), InterruptFine(p)
               PROVE  AnswerFine(p)' /\ InterruptFine(p)'
    BY DEF PostsFine
  <2>1. FALSE
    BY <1>s, <1>z, <1>d, <1>p DEF AnswerFine, InterruptFine, Serving, Answers, Own, IoAt
  <2> QED
    BY <2>1
<1> QED
  BY <1>1, <1>2, <1>3, <1>4, <1>5, <1>6, <1>7, <1>8, <1>9, <1>10, <1>11, <1>f DEF SocketInv

(* InterruptHandler keeps the invariant of its socket. *)
LEMMA InterruptHandlerKeeps ==
  ASSUME WInv, Next, NEW s \in Sockets, InterruptHandler(s)
  PROVE  SocketInv(s)'
<1>s. /\ ExecutorInv(s) /\ PhaseInv(s) /\ IoInv(s) /\ MailInv(s) /\ BufferInv(s) /\ CountInv(s)
      /\ HttpInv(s) /\ QueueInv(s) /\ LateInv(s) /\ ResultInv(s) /\ AnswersInv(s)
  BY DEF WInv, SocketInv
<1>z. Sizes(s) /\ Sizes(s)'
  BY TypesOf, TypesAfter, SizesOf, SizesAfter
<1>y. /\ Len(inbox[s]) \in Nat /\ Len(sent[s]) \in Nat /\ Len(got[s]) \in Nat /\ Len(work[s]) \in Nat
      /\ Len(reqs) \in Nat /\ Len(posts) \in Nat /\ buffer[s] \in Nat /\ serving[s] \in Nat /\ gen[s] \in Nat
  BY <1>z DEF Sizes
<1>h. habits' = habits /\ (Gone' <=> Gone)
  BY DEF Next, Gone
<1>d. /\ io.at = "idle"
      /\ Len(posts) > 0
      /\ posts[1].kind = "interrupt"
      /\ posts[1].s = s
      /\ Dropped(posts, posts')
      /\ s \in ws_conns =>
           /\ UNCHANGED phase
           /\ ws_conns' = ws_conns \ {s}
           /\ io'.at = "erase"
           /\ io'.s = s
      /\ s \notin ws_conns =>
           /\ UNCHANGED <<ws_conns, io>>
           /\ phase'[s] = "free"
  BY InterruptHandlerDoes
<1>u. /\ UNCHANGED <<gen, inbox, reqs, sent, buffer, work, serving, epc, builtins, cmds, wpc,
         queues, results, late, owner, signaled, got, polled>>
  BY InterruptHandlerDoes
<1>p. /\ phase[s] = "http" /\ Len(inbox[s]) = 0 /\ (epc[s] # "none" => ~Serving(s) /\ NoWork(s))
      /\ (Gone \/ (s \notin queues /\ Settled(s)))
  <2>1. 1 \in 1..Len(posts)
    BY <1>z, <1>d DEF Sizes
  <2>2. InterruptFine(posts[1])
    BY <2>1 DEF WInv, PostInv
  <2> QED
    BY <1>d, <2>2 DEF InterruptFine
<1>q. s \notin ws_conns <=> epc[s] = "none"
  BY <1>s, <1>d DEF ExecutorInv, IoAt, Ending
<1>r. Settled(s)' <=> Settled(s)
  BY <1>u DEF Settled
<1>1. ExecutorInv(s)'
  BY <1>s, <1>z, <1>h, <1>d, <1>u DEF ExecutorInv, IoAt, Ending, Joining, Sizes
<1>2. PhaseInv(s)'
  BY <1>s, <1>z, <1>h, <1>d, <1>u DEF PhaseInv, IoAt, Clearing, Sizes
<1>3. IoInv(s)'
  BY <1>d, <1>u, <1>p DEF IoInv, IoAt
<1>4. MailInv(s)'
  BY <1>s, <1>z, <1>h, <1>d, <1>u DEF MailInv, Unread, Parting, Sizes
<1>5. BufferInv(s)'
  BY <1>s, <1>d, <1>u, <1>q DEF BufferInv, NoWork
<1>6. CountInv(s)'
  BY <1>s, <1>z, <1>h, <1>d, <1>u DEF CountInv, IoAt, Joining, Parting, Unread, Undone, Pushing, Posting, Serving, Sizes
<1>7. HttpInv(s)'
  <2>1. CASE s \in ws_conns
    <3>1. NoWork(s)' /\ \A i \in 1..Len(work[s]) : work[s][i] # "work"
      BY <1>u, <1>p, <1>q, <2>1 DEF NoWork
    <3> QED
      BY <1>s, <1>d, <1>u, <1>p, <1>q, <2>1, <3>1 DEF HttpInv, Serving, IoAt
  <2>2. CASE s \notin ws_conns
    BY <1>d, <2>2 DEF HttpInv
  <2> QED
    BY <2>1, <2>2
<1>8. QueueInv(s)'
  BY <1>s, <1>h, <1>d, <1>u, <1>p DEF QueueInv, IoAt
<1>9. LateInv(s)'
  BY <1>s, <1>h, <1>d, <1>u, <1>p, <1>r DEF LateInv, Serving, IoAt
<1>10. ResultInv(s)'
  BY <1>s, <1>h, <1>u DEF ResultInv
<1>11. AnswersInv(s)'
  BY <1>s, <1>h, <1>u DEF AnswersInv
<1> QED
  BY <1>1, <1>2, <1>3, <1>4, <1>5, <1>6, <1>7, <1>8, <1>9, <1>10, <1>11 DEF SocketInv

(* ClearTakes keeps the invariant of its socket. *)
LEMMA ClearTakesKeeps ==
  ASSUME WInv, Next, NEW s \in Sockets, ClearTakes(s)
  PROVE  SocketInv(s)' /\ PostsFine(s)
<1>s. /\ ExecutorInv(s) /\ PhaseInv(s) /\ IoInv(s) /\ MailInv(s) /\ BufferInv(s) /\ CountInv(s)
      /\ HttpInv(s) /\ QueueInv(s) /\ LateInv(s) /\ ResultInv(s) /\ AnswersInv(s)
  BY DEF WInv, SocketInv
<1>z. Sizes(s) /\ Sizes(s)'
  BY TypesOf, TypesAfter, SizesOf, SizesAfter
<1>y. /\ Len(inbox[s]) \in Nat /\ Len(sent[s]) \in Nat /\ Len(got[s]) \in Nat /\ Len(work[s]) \in Nat
      /\ Len(reqs) \in Nat /\ Len(posts) \in Nat /\ buffer[s] \in Nat /\ serving[s] \in Nat /\ gen[s] \in Nat
  BY <1>z DEF Sizes
<1>h. habits' = habits /\ (Gone' <=> Gone)
  BY DEF Next, Gone
<1>d. /\ io.at = "clearing"
      /\ s \in ws_conns
      /\ ws_conns' = ws_conns \ {s}
      /\ io'.at = "clear"
      /\ io'.s = s
  BY ClearTakesDoes
<1>u. /\ UNCHANGED <<phase, gen, inbox, reqs, sent, buffer, work, serving, epc, posts, builtins,
         cmds, wpc, queues, results, late, owner, signaled, got, polled>>
  BY ClearTakesDoes
<1>1. ExecutorInv(s)'
  BY <1>s, <1>z, <1>h, <1>d, <1>u DEF ExecutorInv, IoAt, Ending, Joining, Sizes
<1>2. PhaseInv(s)'
  BY <1>s, <1>z, <1>h, <1>d, <1>u DEF PhaseInv, IoAt, Clearing, Sizes
<1>3. IoInv(s)'
  <2>1. phase[s] \in {"http", "closing"}
    BY <1>s, <1>d DEF PhaseInv, IoAt, Clearing
  <2> QED
    BY <1>d, <1>u, <2>1 DEF IoInv, IoAt
<1>4. CountInv(s)'
  BY <1>s, <1>z, <1>h, <1>d, <1>u DEF CountInv, IoAt, Joining, Parting, Unread, Undone, Pushing, Posting, Serving, Sizes
<1>5. HttpInv(s)'
  BY <1>s, <1>z, <1>h, <1>d, <1>u DEF HttpInv, IoAt, NoWork, Serving, Sizes
<1>6. QueueInv(s)'
  BY <1>s, <1>z, <1>h, <1>d, <1>u DEF QueueInv, IoAt, Sizes
<1>7. LateInv(s)'
  BY <1>s, <1>z, <1>h, <1>d, <1>u DEF LateInv, IoAt, Settled, Serving, Sizes
<1>8. MailInv(s)'
  BY <1>s, <1>h, <1>u DEF MailInv, Unread, Parting
<1>9. BufferInv(s)'
  BY <1>s, <1>h, <1>u DEF BufferInv, NoWork
<1>10. ResultInv(s)'
  BY <1>s, <1>h, <1>u DEF ResultInv
<1>11. AnswersInv(s)'
  BY <1>s, <1>h, <1>u DEF AnswersInv
<1>f. PostsFine(s)
  <2> SUFFICES ASSUME NEW p, p.kind \in Own, p.s = s, AnswerFine(p), InterruptFine(p)
               PROVE  AnswerFine(p)' /\ InterruptFine(p)'
    BY DEF PostsFine
  <2>1. AnswerFine(p)'
    BY <1>s, <1>h, <1>d, <1>u DEF AnswerFine, Answers, IoAt
  <2>2. InterruptFine(p)'
    BY <1>s, <1>h, <1>d, <1>u DEF InterruptFine, Serving, IoAt, NoWork, Settled
  <2> QED
    BY <2>1, <2>2
<1> QED
  BY <1>1, <1>2, <1>3, <1>4, <1>5, <1>6, <1>7, <1>8, <1>9, <1>10, <1>11, <1>f DEF SocketInv

(* ClearJoins keeps the invariant of its socket. *)
LEMMA ClearJoinsKeeps ==
  ASSUME WInv, Next, NEW s \in Sockets, ClearJoins(s)
  PROVE  SocketInv(s)' /\ PostsFine(s)
<1>s. /\ ExecutorInv(s) /\ PhaseInv(s) /\ IoInv(s) /\ MailInv(s) /\ BufferInv(s) /\ CountInv(s)
      /\ HttpInv(s) /\ QueueInv(s) /\ LateInv(s) /\ ResultInv(s) /\ AnswersInv(s)
  BY DEF WInv, SocketInv
<1>z. Sizes(s) /\ Sizes(s)'
  BY TypesOf, TypesAfter, SizesOf, SizesAfter
<1>y. /\ Len(inbox[s]) \in Nat /\ Len(sent[s]) \in Nat /\ Len(got[s]) \in Nat /\ Len(work[s]) \in Nat
      /\ Len(reqs) \in Nat /\ Len(posts) \in Nat /\ buffer[s] \in Nat /\ serving[s] \in Nat /\ gen[s] \in Nat
  BY <1>z DEF Sizes
<1>h. habits' = habits /\ (Gone' <=> Gone)
  BY DEF Next, Gone
<1>d. /\ io.at = "clear_join"
      /\ io.s = s
      /\ epc[s] = "ended"
      /\ epc'[s] = "none"
      /\ io'.at = "clearing"
  BY ClearJoinsDoes
<1>u. /\ UNCHANGED <<phase, gen, inbox, reqs, sent, ws_conns, buffer, work, serving, posts,
         builtins, cmds, wpc, queues, results, late, owner, signaled, got, polled>>
  BY ClearJoinsDoes
<1>1. ExecutorInv(s)'
  BY <1>s, <1>z, <1>h, <1>d, <1>u DEF ExecutorInv, IoAt, Ending, Joining, Sizes
<1>2. PhaseInv(s)'
  BY <1>s, <1>z, <1>h, <1>d, <1>u DEF PhaseInv, IoAt, Clearing, Sizes
<1>3. IoInv(s)'
  BY <1>s, <1>z, <1>h, <1>d, <1>u DEF IoInv, IoAt, Sizes
<1>4. BufferInv(s)'
  BY <1>s, <1>z, <1>h, <1>d, <1>u DEF BufferInv, NoWork, Sizes
<1>5. CountInv(s)'
  <2>1. phase[s] # "open"
    BY <1>s, <1>d DEF PhaseInv, Clearing
  <2> QED
    BY <1>u, <2>1 DEF CountInv
<1>6. HttpInv(s)'
  BY <1>s, <1>z, <1>h, <1>d, <1>u DEF HttpInv, IoAt, NoWork, Serving, Sizes
<1>7. QueueInv(s)'
  BY <1>s, <1>z, <1>h, <1>d, <1>u DEF QueueInv, IoAt, Sizes
<1>8. LateInv(s)'
  BY <1>s, <1>z, <1>h, <1>d, <1>u DEF LateInv, IoAt, Settled, Serving, Sizes
<1>9. MailInv(s)'
  BY <1>s, <1>h, <1>u DEF MailInv, Unread, Parting
<1>10. ResultInv(s)'
  BY <1>s, <1>h, <1>u DEF ResultInv
<1>11. AnswersInv(s)'
  BY <1>s, <1>h, <1>u DEF AnswersInv
<1>f. PostsFine(s)
  <2> SUFFICES ASSUME NEW p, p.kind \in Own, p.s = s, AnswerFine(p), InterruptFine(p)
               PROVE  AnswerFine(p)' /\ InterruptFine(p)'
    BY DEF PostsFine
  <2>1. AnswerFine(p)'
    BY <1>s, <1>h, <1>d, <1>u DEF AnswerFine, Answers, IoAt
  <2>2. InterruptFine(p)'
    BY <1>s, <1>h, <1>d, <1>u DEF InterruptFine, Serving, IoAt, NoWork, Settled
  <2> QED
    BY <2>1, <2>2
<1> QED
  BY <1>1, <1>2, <1>3, <1>4, <1>5, <1>6, <1>7, <1>8, <1>9, <1>10, <1>11, <1>f DEF SocketInv

(* UsesDestroyed keeps the invariant of its socket. *)
LEMMA UsesDestroyedKeeps ==
  ASSUME WInv, Next, NEW s \in Sockets, UsesDestroyed(s)
  PROVE  SocketInv(s)' /\ PostsFine(s)
<1>s. /\ ExecutorInv(s) /\ PhaseInv(s) /\ IoInv(s) /\ MailInv(s) /\ BufferInv(s) /\ CountInv(s)
      /\ HttpInv(s) /\ QueueInv(s) /\ LateInv(s) /\ ResultInv(s) /\ AnswersInv(s)
  BY DEF WInv, SocketInv
<1>z. Sizes(s) /\ Sizes(s)'
  BY TypesOf, TypesAfter, SizesOf, SizesAfter
<1>y. /\ Len(inbox[s]) \in Nat /\ Len(sent[s]) \in Nat /\ Len(got[s]) \in Nat /\ Len(work[s]) \in Nat
      /\ Len(reqs) \in Nat /\ Len(posts) \in Nat /\ buffer[s] \in Nat /\ serving[s] \in Nat /\ gen[s] \in Nat
  BY <1>z DEF Sizes
<1>h. habits' = habits /\ (Gone' <=> Gone)
  BY DEF Next, Gone
<1>d. /\ io.at = "idle"
      /\ owner = "destroyed"
      /\ phase[s] # "free"
      /\ owner' \in {"crashed", "destroyed"}
      /\ io'.at = "undefined"
      /\ io'.s = s
  BY UsesDestroyedDoes
<1>u. /\ UNCHANGED <<phase, gen, inbox, reqs, sent, ws_conns, buffer, work, serving, epc, posts,
         builtins, cmds, wpc, queues, results, late, signaled, got, polled>>
  BY UsesDestroyedDoes
<1>1. ExecutorInv(s)'
  BY <1>s, <1>z, <1>h, <1>d, <1>u DEF ExecutorInv, IoAt, Ending, Joining, Sizes
<1>2. PhaseInv(s)'
  BY <1>s, <1>z, <1>h, <1>d, <1>u DEF PhaseInv, IoAt, Clearing, Sizes
<1>3. IoInv(s)'
  BY <1>s, <1>z, <1>h, <1>d, <1>u DEF IoInv, IoAt, Sizes
<1>4. CountInv(s)'
  BY <1>s, <1>z, <1>h, <1>d, <1>u DEF CountInv, IoAt, Joining, Parting, Unread, Undone, Pushing, Posting, Serving, Sizes
<1>5. HttpInv(s)'
  BY <1>s, <1>z, <1>h, <1>d, <1>u DEF HttpInv, IoAt, NoWork, Serving, Sizes
<1>6. QueueInv(s)'
  BY <1>s, <1>z, <1>h, <1>d, <1>u DEF QueueInv, IoAt, Sizes
<1>7. LateInv(s)'
  BY <1>s, <1>z, <1>h, <1>d, <1>u DEF LateInv, IoAt, Settled, Serving, Sizes
<1>8. MailInv(s)'
  BY <1>s, <1>h, <1>u DEF MailInv, Unread, Parting
<1>9. BufferInv(s)'
  BY <1>s, <1>h, <1>u DEF BufferInv, NoWork
<1>10. ResultInv(s)'
  BY <1>s, <1>h, <1>u DEF ResultInv
<1>11. AnswersInv(s)'
  BY <1>s, <1>h, <1>u DEF AnswersInv
<1>f. PostsFine(s)
  <2> SUFFICES ASSUME NEW p, p.kind \in Own, p.s = s, AnswerFine(p), InterruptFine(p)
               PROVE  AnswerFine(p)' /\ InterruptFine(p)'
    BY DEF PostsFine
  <2>1. AnswerFine(p)'
    BY <1>s, <1>h, <1>d, <1>u DEF AnswerFine, Answers, IoAt
  <2>2. InterruptFine(p)'
    BY <1>s, <1>h, <1>d, <1>u DEF InterruptFine, Serving, IoAt, NoWork, Settled
  <2> QED
    BY <2>1, <2>2
<1> QED
  BY <1>1, <1>2, <1>3, <1>4, <1>5, <1>6, <1>7, <1>8, <1>9, <1>10, <1>11, <1>f DEF SocketInv

(* ExecutorServes keeps the invariant of its socket. *)
LEMMA ExecutorServesKeeps ==
  ASSUME WInv, Next, NEW s \in Sockets, ExecutorServes(s)
  PROVE  SocketInv(s)' /\ PostsFine(s)
<1>s. /\ ExecutorInv(s) /\ PhaseInv(s) /\ IoInv(s) /\ MailInv(s) /\ BufferInv(s) /\ CountInv(s)
      /\ HttpInv(s) /\ QueueInv(s) /\ LateInv(s) /\ ResultInv(s) /\ AnswersInv(s)
  BY DEF WInv, SocketInv
<1>z. Sizes(s) /\ Sizes(s)'
  BY TypesOf, TypesAfter, SizesOf, SizesAfter
<1>y. /\ Len(inbox[s]) \in Nat /\ Len(sent[s]) \in Nat /\ Len(got[s]) \in Nat /\ Len(work[s]) \in Nat
      /\ Len(reqs) \in Nat /\ Len(posts) \in Nat /\ buffer[s] \in Nat /\ serving[s] \in Nat /\ gen[s] \in Nat
  BY <1>z DEF Sizes
<1>h. habits' = habits /\ (Gone' <=> Gone)
  BY DEF Next, Gone
<1>d. /\ epc[s] = "idle"
      /\ work[s] # <<>>
      /\ cmds' = IF reqs[buffer[s]].kind \in {"run", "state", "block"} THEN cmds \cup
         {buffer[s]} ELSE cmds
      /\ epc'[s] = "posting"
      /\ signaled' = (signaled \/ reqs[buffer[s]].kind = "shutdown")
      /\ \A t \in Sockets : results'[t] \subseteq results[t]
      /\ Gives(s, buffer[s])
      /\ Len(work[s]) > 0
      /\ work[s][1] = "work"
      /\ Dropped(work[s], work'[s])
      /\ Appended(posts, posts', [kind |-> IF phase[s] = "http" THEN "http" ELSE "send", s |->
         s, req |-> buffer[s]])
  BY ExecutorServesDoes
<1>u. /\ UNCHANGED <<phase, gen, inbox, reqs, sent, ws_conns, buffer, serving, io, builtins,
         wpc, queues, late, owner, got>>
  BY ExecutorServesDoes
<1>w. /\ Len(work'[s]) = Len(work[s]) - 1 /\ Len(work[s]) \in Nat
      /\ \A i \in 1..Len(work'[s]) : work'[s][i] = work[s][i + 1] /\ i + 1 \in 1..Len(work[s])
  <2>1. /\ Len(work'[s]) = Len(work[s]) - 1 /\ Len(work[s]) \in Nat
        /\ \A i \in 1..Len(work[s]) - 1 : work'[s][i] = work[s][i + 1]
    BY <1>y, <1>d DEF Dropped
  <2> QED
    BY <2>1
<1>b. 1 \in 1..Len(work[s]) /\ Len(work[s]) > 0
  BY <1>d, <1>w
<1>c. IoAt(Joining, s) => Len(work[s]) > 1
  BY <1>s, <1>d, <1>w, <1>b DEF ExecutorInv
<1>e. phase[s] \notin {"free", "handshake"} /\ ~IoAt({"accept", "http_close"}, s)
  <2>1. s \in ws_conns \/ IoAt(Ending, s)
    BY <1>s, <1>d DEF ExecutorInv
  <2>2. IoAt(Ending, s) => phase[s] \in {"open", "http", "closing"}
    BY <1>s DEF IoInv, IoAt, Ending
  <2>3. s \in ws_conns => phase[s] \notin {"free", "handshake"}
    BY <1>s DEF PhaseInv
  <2>4. ~IoAt({"accept", "http_close"}, s)
    BY <1>s, <1>d, <1>w, <1>b DEF IoInv, IoAt
  <2> QED
    BY <2>1, <2>2, <2>3, <2>4
<1>1. ExecutorInv(s)'
  <2>1. ASSUME NEW i \in 1..Len(work'[s])
        PROVE  work'[s][i] = "destroy" <=> i = Len(work'[s]) /\ IoAt(Joining, s)
    <3>1. i + 1 = Len(work[s]) <=> i = Len(work'[s])
      BY <1>w
    <3> QED
      BY <1>s, <1>d, <1>w, <3>1 DEF ExecutorInv
  <2>2. Len(work'[s]) <= ExecutorSize /\ (IoAt(Joining, s) => Len(work'[s]) > 0)
    BY <1>s, <1>z, <1>w, <1>c DEF ExecutorInv, Sizes
  <2>3. (IoAt(Joining, s)' <=> IoAt(Joining, s)) /\ (IoAt(Ending, s)' <=> IoAt(Ending, s))
    BY <1>u DEF IoAt
  <2> QED
    BY <1>s, <1>h, <1>d, <1>u, <2>1, <2>2, <2>3 DEF ExecutorInv
<1>2. IoInv(s)'
  BY <1>s, <1>z, <1>h, <1>d, <1>u DEF IoInv, IoAt, Sizes
<1>3. BufferInv(s)'
  <2>1. buffer[s] # 0
    BY <1>s, <1>d, <1>b DEF BufferInv, NoWork
  <2> QED
    BY <1>s, <1>d, <1>u, <2>1 DEF BufferInv
<1>4. CountInv(s)'
  <2>1. Undone(s)' = Undone(s) - 1 /\ Pushing(s)' = Pushing(s) /\ Posting(s) = 0 /\ Posting(s)' = 1
    BY <1>d, <1>u, <1>w DEF Undone, Pushing, Posting, Serving, IoAt, Joining
  <2>2. (Parting(s)' <=> Parting(s)) /\ Unread(s)' = Unread(s)
    BY <1>u DEF Parting, Unread
  <2>3. Undone(s) \in Int /\ Pushing(s) \in Int /\ Unread(s) \in Int /\ Len(got[s]) \in Int
    BY <1>z DEF Undone, Pushing, Unread, Sizes
  <2>4. Len(got[s]) + Unread(s)' + Pushing(s)' + Undone(s)' + Posting(s)'
          = Len(got[s]) + Unread(s) + Pushing(s) + Undone(s) + Posting(s)
    BY <2>1, <2>2, <2>3, Sums
  <2> QED
    BY <1>s, <1>h, <1>u, <2>2, <2>4 DEF CountInv
<1>5. HttpInv(s)'
  <2> SUFFICES ASSUME phase[s] = "http"
               PROVE  HttpInv(s)'
    BY <1>u DEF HttpInv
  <2>1. /\ Len(got[s]) = 0 /\ ~IoAt({"push"}, s) /\ Len(sent[s]) = 1
        /\ \A i \in 1..Len(work[s]) : work[s][i] = "work" => i = 1
    BY <1>s, <1>d, <1>b DEF HttpInv
  <2>2. ASSUME NEW i \in 1..Len(work'[s])
        PROVE  work'[s][i] # "work"
    <3>1. work'[s][i] = work[s][i + 1] /\ i + 1 \in 1..Len(work[s]) /\ i + 1 # 1
      BY <1>w
    <3> QED
      BY <2>1, <3>1
  <2>3. Len(inbox[s]) = 0
    <3>1. epc[s] # "none" /\ ~IoAt({"accept"}, s)
      BY <1>d, <1>e DEF IoAt
    <3>2. ~(Len(inbox[s]) > 0)
      BY <1>s, <3>1 DEF HttpInv
    <3> QED
      BY <1>y, <3>2
  <2>4. ~IoAt({"erase", "join", "http_close"}, s)
    BY <1>s, <1>d, <1>b DEF HttpInv, NoWork
  <2> QED
    BY <1>d, <1>u, <2>1, <2>2, <2>3, <2>4 DEF HttpInv, Serving, IoAt
<1>6. LateInv(s)'
  BY <1>s, <1>h, <1>d, <1>u, <1>e DEF LateInv, Serving, IoAt
<1>7. ResultInv(s)'
  BY <1>s, <1>h, <1>d, <1>u DEF ResultInv
<1>8. PhaseInv(s)'
  BY <1>s, <1>h, <1>u DEF PhaseInv, IoAt, Clearing
<1>9. MailInv(s)'
  BY <1>s, <1>h, <1>u DEF MailInv, Unread, Parting
<1>10. QueueInv(s)'
  BY <1>s, <1>h, <1>u DEF QueueInv, IoAt
<1>11. AnswersInv(s)'
  BY <1>s, <1>h, <1>u DEF AnswersInv
<1>f. PostsFine(s)
  <2> SUFFICES ASSUME NEW p, p.kind \in Own, p.s = s, AnswerFine(p), InterruptFine(p)
               PROVE  AnswerFine(p)' /\ InterruptFine(p)'
    BY DEF PostsFine
  <2>1. FALSE
    BY <1>s, <1>z, <1>d, <1>b DEF AnswerFine, InterruptFine, Serving, Answers, Own, IoAt, NoWork
  <2> QED
    BY <2>1
<1> QED
  BY <1>1, <1>2, <1>3, <1>4, <1>5, <1>6, <1>7, <1>8, <1>9, <1>10, <1>11, <1>f DEF SocketInv

(* ExecutorBlocks keeps the invariant of its socket. *)
LEMMA ExecutorBlocksKeeps ==
  ASSUME WInv, Next, NEW s \in Sockets, ExecutorBlocks(s)
  PROVE  SocketInv(s)' /\ PostsFine(s)
<1>s. /\ ExecutorInv(s) /\ PhaseInv(s) /\ IoInv(s) /\ MailInv(s) /\ BufferInv(s) /\ CountInv(s)
      /\ HttpInv(s) /\ QueueInv(s) /\ LateInv(s) /\ ResultInv(s) /\ AnswersInv(s)
  BY DEF WInv, SocketInv
<1>z. Sizes(s) /\ Sizes(s)'
  BY TypesOf, TypesAfter, SizesOf, SizesAfter
<1>y. /\ Len(inbox[s]) \in Nat /\ Len(sent[s]) \in Nat /\ Len(got[s]) \in Nat /\ Len(work[s]) \in Nat
      /\ Len(reqs) \in Nat /\ Len(posts) \in Nat /\ buffer[s] \in Nat /\ serving[s] \in Nat /\ gen[s] \in Nat
  BY <1>z DEF Sizes
<1>h. habits' = habits /\ (Gone' <=> Gone)
  BY DEF Next, Gone
<1>d. /\ epc[s] = "idle"
      /\ work[s] # <<>>
      /\ cmds' = IF reqs[buffer[s]].kind \in {"run", "state", "block"} THEN cmds \cup
         {buffer[s]} ELSE cmds
      /\ epc'[s] = "polling"
      /\ serving'[s] = buffer[s]
      /\ Len(work[s]) > 0
      /\ work[s][1] = "work"
      /\ Dropped(work[s], work'[s])
  BY ExecutorBlocksDoes
<1>u. /\ UNCHANGED <<phase, gen, inbox, reqs, sent, ws_conns, buffer, posts, io, builtins, wpc,
         queues, results, late, owner, signaled, got, polled>>
  BY ExecutorBlocksDoes
<1>w. /\ Len(work'[s]) = Len(work[s]) - 1 /\ Len(work[s]) \in Nat
      /\ \A i \in 1..Len(work'[s]) : work'[s][i] = work[s][i + 1] /\ i + 1 \in 1..Len(work[s])
  <2>1. /\ Len(work'[s]) = Len(work[s]) - 1 /\ Len(work[s]) \in Nat
        /\ \A i \in 1..Len(work[s]) - 1 : work'[s][i] = work[s][i + 1]
    BY <1>y, <1>d DEF Dropped
  <2> QED
    BY <2>1
<1>b. 1 \in 1..Len(work[s]) /\ Len(work[s]) > 0
  BY <1>d, <1>w
<1>c. IoAt(Joining, s) => Len(work[s]) > 1
  BY <1>s, <1>d, <1>w, <1>b DEF ExecutorInv
<1>e. phase[s] \notin {"free", "handshake"} /\ ~IoAt({"accept", "http_close"}, s)
  <2>1. s \in ws_conns \/ IoAt(Ending, s)
    BY <1>s, <1>d DEF ExecutorInv
  <2>2. IoAt(Ending, s) => phase[s] \in {"open", "http", "closing"}
    BY <1>s DEF IoInv, IoAt, Ending
  <2>3. s \in ws_conns => phase[s] \notin {"free", "handshake"}
    BY <1>s DEF PhaseInv
  <2>4. ~IoAt({"accept", "http_close"}, s)
    BY <1>s, <1>d, <1>w, <1>b DEF IoInv, IoAt
  <2> QED
    BY <2>1, <2>2, <2>3, <2>4
<1>v. /\ buffer[s] # 0
      /\ phase[s] # "closing" => \E j \in Len(got[s]) + 1..Len(sent[s]) : buffer[s] = sent[s][j]
  <2>1. ~NoWork(s)
    BY <1>d, <1>b DEF NoWork
  <2>2. buffer[s] # 0
    BY <1>s, <1>d, <2>1 DEF BufferInv
  <2> QED
    BY <1>d, <2>2, ServesNew
<1>1. ExecutorInv(s)'
  <2>1. ASSUME NEW i \in 1..Len(work'[s])
        PROVE  work'[s][i] = "destroy" <=> i = Len(work'[s]) /\ IoAt(Joining, s)
    <3>1. i + 1 = Len(work[s]) <=> i = Len(work'[s])
      BY <1>w
    <3> QED
      BY <1>s, <1>d, <1>w, <3>1 DEF ExecutorInv
  <2>2. Len(work'[s]) <= ExecutorSize /\ (IoAt(Joining, s) => Len(work'[s]) > 0)
    BY <1>s, <1>z, <1>w, <1>c DEF ExecutorInv, Sizes
  <2>3. (IoAt(Joining, s)' <=> IoAt(Joining, s)) /\ (IoAt(Ending, s)' <=> IoAt(Ending, s))
    BY <1>u DEF IoAt
  <2> QED
    BY <1>s, <1>h, <1>d, <1>u, <2>1, <2>2, <2>3 DEF ExecutorInv
<1>2. IoInv(s)'
  BY <1>s, <1>z, <1>h, <1>d, <1>u DEF IoInv, IoAt, Sizes
<1>3. BufferInv(s)'
  <2>1. \E j \in 1..Len(sent[s]) : buffer[s] = sent[s][j]
    BY <1>s, <1>d, <1>v DEF BufferInv
  <2> QED
    BY <1>s, <1>d, <1>u, <1>v, <2>1 DEF BufferInv
<1>4. CountInv(s)'
  <2>1. Undone(s)' = Undone(s) - 1 /\ Pushing(s)' = Pushing(s) /\ Posting(s) = 0 /\ Posting(s)' = 1
    BY <1>d, <1>u, <1>w DEF Undone, Pushing, Posting, Serving, IoAt, Joining
  <2>2. (Parting(s)' <=> Parting(s)) /\ Unread(s)' = Unread(s)
    BY <1>u DEF Parting, Unread
  <2>3. Undone(s) \in Int /\ Pushing(s) \in Int /\ Unread(s) \in Int /\ Len(got[s]) \in Int
    BY <1>z DEF Undone, Pushing, Unread, Sizes
  <2>4. Len(got[s]) + Unread(s)' + Pushing(s)' + Undone(s)' + Posting(s)'
          = Len(got[s]) + Unread(s) + Pushing(s) + Undone(s) + Posting(s)
    BY <2>1, <2>2, <2>3, Sums
  <2> QED
    BY <1>s, <1>h, <1>u, <2>2, <2>4 DEF CountInv
<1>5. HttpInv(s)'
  <2> SUFFICES ASSUME phase[s] = "http"
               PROVE  HttpInv(s)'
    BY <1>u DEF HttpInv
  <2>1. /\ Len(got[s]) = 0 /\ ~IoAt({"push"}, s) /\ Len(sent[s]) = 1
        /\ \A i \in 1..Len(work[s]) : work[s][i] = "work" => i = 1
    BY <1>s, <1>d, <1>b DEF HttpInv
  <2>2. ASSUME NEW i \in 1..Len(work'[s])
        PROVE  work'[s][i] # "work"
    <3>1. work'[s][i] = work[s][i + 1] /\ i + 1 \in 1..Len(work[s]) /\ i + 1 # 1
      BY <1>w
    <3> QED
      BY <2>1, <3>1
  <2>3. Len(inbox[s]) = 0
    <3>1. epc[s] # "none" /\ ~IoAt({"accept"}, s)
      BY <1>d, <1>e DEF IoAt
    <3>2. ~(Len(inbox[s]) > 0)
      BY <1>s, <3>1 DEF HttpInv
    <3> QED
      BY <1>y, <3>2
  <2>4. ~IoAt({"erase", "join", "http_close"}, s)
    BY <1>s, <1>d, <1>b DEF HttpInv, NoWork
  <2> QED
    BY <1>d, <1>u, <2>1, <2>2, <2>3, <2>4 DEF HttpInv, Serving, IoAt
<1>6. LateInv(s)'
  BY <1>s, <1>h, <1>d, <1>u, <1>e DEF LateInv, Serving, IoAt
<1>7. PhaseInv(s)'
  BY <1>s, <1>h, <1>u DEF PhaseInv, IoAt, Clearing
<1>8. MailInv(s)'
  BY <1>s, <1>h, <1>u DEF MailInv, Unread, Parting
<1>9. QueueInv(s)'
  BY <1>s, <1>h, <1>u DEF QueueInv, IoAt
<1>10. ResultInv(s)'
  BY <1>s, <1>h, <1>u DEF ResultInv
<1>11. AnswersInv(s)'
  BY <1>s, <1>h, <1>u DEF AnswersInv
<1>f. PostsFine(s)
  <2> SUFFICES ASSUME NEW p, p.kind \in Own, p.s = s, AnswerFine(p), InterruptFine(p)
               PROVE  AnswerFine(p)' /\ InterruptFine(p)'
    BY DEF PostsFine
  <2>1. FALSE
    BY <1>s, <1>z, <1>d, <1>b DEF AnswerFine, InterruptFine, Serving, Answers, Own, IoAt, NoWork
  <2> QED
    BY <2>1
<1> QED
  BY <1>1, <1>2, <1>3, <1>4, <1>5, <1>6, <1>7, <1>8, <1>9, <1>10, <1>11, <1>f DEF SocketInv

(* ExecutorFlushes keeps the invariant of its socket. *)
LEMMA ExecutorFlushesKeeps ==
  ASSUME WInv, Next, NEW s \in Sockets, ExecutorFlushes(s)
  PROVE  SocketInv(s)' /\ PostsFine(s)
<1>s. /\ ExecutorInv(s) /\ PhaseInv(s) /\ IoInv(s) /\ MailInv(s) /\ BufferInv(s) /\ CountInv(s)
      /\ HttpInv(s) /\ QueueInv(s) /\ LateInv(s) /\ ResultInv(s) /\ AnswersInv(s)
  BY DEF WInv, SocketInv
<1>z. Sizes(s) /\ Sizes(s)'
  BY TypesOf, TypesAfter, SizesOf, SizesAfter
<1>y. /\ Len(inbox[s]) \in Nat /\ Len(sent[s]) \in Nat /\ Len(got[s]) \in Nat /\ Len(work[s]) \in Nat
      /\ Len(reqs) \in Nat /\ Len(posts) \in Nat /\ buffer[s] \in Nat /\ serving[s] \in Nat /\ gen[s] \in Nat
  BY <1>z DEF Sizes
<1>h. habits' = habits /\ (Gone' <=> Gone)
  BY DEF Next, Gone
<1>d. /\ epc[s] = "polling"
      /\ epc'[s] = "posting"
      /\ \A t \in Sockets : results'[t] \subseteq results[t]
      /\ Gives(s, serving[s])
      /\ Appended(posts, posts', [kind |-> IF phase[s] = "http" THEN "http" ELSE "send", s |->
         s, req |-> serving[s]])
  BY ExecutorFlushesDoes
<1>u. /\ UNCHANGED <<phase, gen, inbox, reqs, sent, ws_conns, buffer, work, serving, io,
         builtins, cmds, wpc, queues, late, owner, signaled, got>>
  BY ExecutorFlushesDoes
<1>1. ExecutorInv(s)'
  BY <1>s, <1>h, <1>d, <1>u DEF ExecutorInv, IoAt, Ending, Joining
<1>2. IoInv(s)'
  BY <1>s, <1>d, <1>u DEF IoInv, IoAt
<1>3. BufferInv(s)'
  BY <1>s, <1>d, <1>u DEF BufferInv, NoWork
<1>4. CountInv(s)'
  <2>1. Undone(s)' = Undone(s) /\ Pushing(s)' = Pushing(s) /\ Posting(s)' = Posting(s)
    BY <1>d, <1>u DEF Undone, Pushing, Posting, Serving, IoAt
  <2>2. (Parting(s)' <=> Parting(s)) /\ Unread(s)' = Unread(s)
    BY <1>u DEF Parting, Unread
  <2> QED
    BY <1>s, <1>h, <1>u, <2>1, <2>2 DEF CountInv
<1>5. HttpInv(s)'
  BY <1>s, <1>d, <1>u DEF HttpInv, Serving, NoWork, IoAt
<1>6. LateInv(s)'
  BY <1>s, <1>h, <1>d, <1>u DEF LateInv, Serving, Settled, IoAt
<1>7. ResultInv(s)'
  BY <1>s, <1>h, <1>d, <1>u DEF ResultInv
<1>8. PhaseInv(s)'
  BY <1>s, <1>h, <1>u DEF PhaseInv, IoAt, Clearing
<1>9. MailInv(s)'
  BY <1>s, <1>h, <1>u DEF MailInv, Unread, Parting
<1>10. QueueInv(s)'
  BY <1>s, <1>h, <1>u DEF QueueInv, IoAt
<1>11. AnswersInv(s)'
  BY <1>s, <1>h, <1>u DEF AnswersInv
<1>f. PostsFine(s)
  <2> SUFFICES ASSUME NEW p, p.kind \in Own, p.s = s, AnswerFine(p), InterruptFine(p)
               PROVE  AnswerFine(p)' /\ InterruptFine(p)'
    BY DEF PostsFine
  <2>1. FALSE
    BY <1>s, <1>z, <1>d DEF AnswerFine, InterruptFine, Serving, Answers, Own, IoAt
  <2> QED
    BY <2>1
<1> QED
  BY <1>1, <1>2, <1>3, <1>4, <1>5, <1>6, <1>7, <1>8, <1>9, <1>10, <1>11, <1>f DEF SocketInv

(* ExecutorTimesOut keeps the invariant of its socket. *)
LEMMA ExecutorTimesOutKeeps ==
  ASSUME WInv, Next, NEW s \in Sockets, ExecutorTimesOut(s)
  PROVE  SocketInv(s)' /\ PostsFine(s)
<1>s. /\ ExecutorInv(s) /\ PhaseInv(s) /\ IoInv(s) /\ MailInv(s) /\ BufferInv(s) /\ CountInv(s)
      /\ HttpInv(s) /\ QueueInv(s) /\ LateInv(s) /\ ResultInv(s) /\ AnswersInv(s)
  BY DEF WInv, SocketInv
<1>z. Sizes(s) /\ Sizes(s)'
  BY TypesOf, TypesAfter, SizesOf, SizesAfter
<1>y. /\ Len(inbox[s]) \in Nat /\ Len(sent[s]) \in Nat /\ Len(got[s]) \in Nat /\ Len(work[s]) \in Nat
      /\ Len(reqs) \in Nat /\ Len(posts) \in Nat /\ buffer[s] \in Nat /\ serving[s] \in Nat /\ gen[s] \in Nat
  BY <1>z DEF Sizes
<1>h. habits' = habits /\ (Gone' <=> Gone)
  BY DEF Next, Gone
<1>d. /\ "idle" \in habits
      /\ epc[s] = "idle"
      /\ epc'[s] = "ended"
  BY ExecutorTimesOutDoes
<1>u. /\ UNCHANGED <<phase, gen, inbox, reqs, sent, ws_conns, buffer, work, serving, posts, io,
         builtins, cmds, wpc, queues, results, late, owner, signaled, got, polled>>
  BY ExecutorTimesOutDoes
<1>1. ExecutorInv(s)'
  BY <1>s, <1>h, <1>d, <1>u DEF ExecutorInv, IoAt, Ending, Joining
<1>2. IoInv(s)'
  BY <1>s, <1>z, <1>h, <1>d, <1>u DEF IoInv, IoAt, Sizes
<1>3. BufferInv(s)'
  BY <1>s, <1>z, <1>h, <1>d, <1>u DEF BufferInv, NoWork, Sizes
<1>4. CountInv(s)'
  BY <1>s, <1>z, <1>h, <1>d, <1>u DEF CountInv, IoAt, Joining, Parting, Unread, Undone, Pushing, Posting, Serving, Sizes
<1>5. HttpInv(s)'
  BY <1>s, <1>z, <1>h, <1>d, <1>u DEF HttpInv, IoAt, NoWork, Serving, Sizes
<1>6. LateInv(s)'
  BY <1>s, <1>z, <1>h, <1>d, <1>u DEF LateInv, IoAt, Settled, Serving, Sizes
<1>7. PhaseInv(s)'
  BY <1>s, <1>h, <1>u DEF PhaseInv, IoAt, Clearing
<1>8. MailInv(s)'
  BY <1>s, <1>h, <1>u DEF MailInv, Unread, Parting
<1>9. QueueInv(s)'
  BY <1>s, <1>h, <1>u DEF QueueInv, IoAt
<1>10. ResultInv(s)'
  BY <1>s, <1>h, <1>u DEF ResultInv
<1>11. AnswersInv(s)'
  BY <1>s, <1>h, <1>u DEF AnswersInv
<1>f. PostsFine(s)
  <2> SUFFICES ASSUME NEW p, p.kind \in Own, p.s = s, AnswerFine(p), InterruptFine(p)
               PROVE  AnswerFine(p)' /\ InterruptFine(p)'
    BY DEF PostsFine
  <2>1. AnswerFine(p)'
    BY <1>s, <1>h, <1>d, <1>u DEF AnswerFine, Answers, IoAt
  <2>2. InterruptFine(p)'
    BY <1>s, <1>h, <1>d, <1>u DEF InterruptFine, Serving, IoAt, NoWork, Settled
  <2> QED
    BY <2>1, <2>2
<1> QED
  BY <1>1, <1>2, <1>3, <1>4, <1>5, <1>6, <1>7, <1>8, <1>9, <1>10, <1>11, <1>f DEF SocketInv

(* ExecutorEnds keeps the invariant of its socket. *)
LEMMA ExecutorEndsKeeps ==
  ASSUME WInv, Next, NEW s \in Sockets, ExecutorEnds(s)
  PROVE  SocketInv(s)' /\ PostsFine(s)
<1>s. /\ ExecutorInv(s) /\ PhaseInv(s) /\ IoInv(s) /\ MailInv(s) /\ BufferInv(s) /\ CountInv(s)
      /\ HttpInv(s) /\ QueueInv(s) /\ LateInv(s) /\ ResultInv(s) /\ AnswersInv(s)
  BY DEF WInv, SocketInv
<1>z. Sizes(s) /\ Sizes(s)'
  BY TypesOf, TypesAfter, SizesOf, SizesAfter
<1>y. /\ Len(inbox[s]) \in Nat /\ Len(sent[s]) \in Nat /\ Len(got[s]) \in Nat /\ Len(work[s]) \in Nat
      /\ Len(reqs) \in Nat /\ Len(posts) \in Nat /\ buffer[s] \in Nat /\ serving[s] \in Nat /\ gen[s] \in Nat
  BY <1>z DEF Sizes
<1>h. habits' = habits /\ (Gone' <=> Gone)
  BY DEF Next, Gone
<1>d. /\ epc[s] = "idle"
      /\ work[s] # <<>>
      /\ epc'[s] = "ended"
      /\ Len(work[s]) > 0
      /\ work[s][1] = "destroy"
  BY ExecutorEndsDoes
<1>u. /\ UNCHANGED <<phase, gen, inbox, reqs, sent, ws_conns, buffer, work, serving, posts, io,
         builtins, cmds, wpc, queues, results, late, owner, signaled, got, polled>>
  BY ExecutorEndsDoes
<1>1. ExecutorInv(s)'
  <2>1. Len(work[s]) \in Nat /\ 1 \in 1..Len(work[s])
    BY <1>z, <1>d DEF Sizes
  <2>2. 1 = Len(work[s]) /\ IoAt(Joining, s)
    BY <1>s, <1>d, <2>1 DEF ExecutorInv
  <2>3. (IoAt(Joining, s)' <=> IoAt(Joining, s)) /\ (IoAt(Ending, s)' <=> IoAt(Ending, s))
    BY <1>u DEF IoAt
  <2> QED
    BY <1>s, <1>h, <1>d, <1>u, <2>2, <2>3 DEF ExecutorInv
<1>2. IoInv(s)'
  BY <1>s, <1>z, <1>h, <1>d, <1>u DEF IoInv, IoAt, Sizes
<1>3. BufferInv(s)'
  BY <1>s, <1>z, <1>h, <1>d, <1>u DEF BufferInv, NoWork, Sizes
<1>4. CountInv(s)'
  BY <1>s, <1>z, <1>h, <1>d, <1>u DEF CountInv, IoAt, Joining, Parting, Unread, Undone, Pushing, Posting, Serving, Sizes
<1>5. HttpInv(s)'
  BY <1>s, <1>z, <1>h, <1>d, <1>u DEF HttpInv, IoAt, NoWork, Serving, Sizes
<1>6. LateInv(s)'
  BY <1>s, <1>z, <1>h, <1>d, <1>u DEF LateInv, IoAt, Settled, Serving, Sizes
<1>7. PhaseInv(s)'
  BY <1>s, <1>h, <1>u DEF PhaseInv, IoAt, Clearing
<1>8. MailInv(s)'
  BY <1>s, <1>h, <1>u DEF MailInv, Unread, Parting
<1>9. QueueInv(s)'
  BY <1>s, <1>h, <1>u DEF QueueInv, IoAt
<1>10. ResultInv(s)'
  BY <1>s, <1>h, <1>u DEF ResultInv
<1>11. AnswersInv(s)'
  BY <1>s, <1>h, <1>u DEF AnswersInv
<1>f. PostsFine(s)
  <2> SUFFICES ASSUME NEW p, p.kind \in Own, p.s = s, AnswerFine(p), InterruptFine(p)
               PROVE  AnswerFine(p)' /\ InterruptFine(p)'
    BY DEF PostsFine
  <2>1. AnswerFine(p)'
    BY <1>s, <1>h, <1>d, <1>u DEF AnswerFine, Answers, IoAt
  <2>2. InterruptFine(p)'
    BY <1>s, <1>h, <1>d, <1>u DEF InterruptFine, Serving, IoAt, NoWork, Settled
  <2> QED
    BY <2>1, <2>2
<1> QED
  BY <1>1, <1>2, <1>3, <1>4, <1>5, <1>6, <1>7, <1>8, <1>9, <1>10, <1>11, <1>f DEF SocketInv

(* WorkerCreatesQueue keeps the invariant of its socket. *)
LEMMA WorkerCreatesQueueKeeps ==
  ASSUME WInv, Next, NEW s \in Sockets, WorkerCreatesQueue(s)
  PROVE  SocketInv(s)' /\ PostsFine(s)
<1>s. /\ ExecutorInv(s) /\ PhaseInv(s) /\ IoInv(s) /\ MailInv(s) /\ BufferInv(s) /\ CountInv(s)
      /\ HttpInv(s) /\ QueueInv(s) /\ LateInv(s) /\ ResultInv(s) /\ AnswersInv(s)
  BY DEF WInv, SocketInv
<1>z. Sizes(s) /\ Sizes(s)'
  BY TypesOf, TypesAfter, SizesOf, SizesAfter
<1>y. /\ Len(inbox[s]) \in Nat /\ Len(sent[s]) \in Nat /\ Len(got[s]) \in Nat /\ Len(work[s]) \in Nat
      /\ Len(reqs) \in Nat /\ Len(posts) \in Nat /\ buffer[s] \in Nat /\ serving[s] \in Nat /\ gen[s] \in Nat
  BY <1>z DEF Sizes
<1>h. habits' = habits /\ (Gone' <=> Gone)
  BY DEF Next, Gone
<1>d. /\ <<"create", s>> \in builtins
      /\ builtins' = builtins \ {<<"create", s>>}
      /\ queues' = queues \cup {s}
  BY WorkerCreatesQueueDoes
<1>u. /\ UNCHANGED <<phase, gen, inbox, reqs, sent, ws_conns, buffer, work, serving, epc, posts,
         io, cmds, wpc, results, late, owner, signaled, got, polled>>
  BY WorkerCreatesQueueDoes
<1>1. QueueInv(s)'
  BY <1>s, <1>z, <1>h, <1>d, <1>u DEF QueueInv, IoAt, Sizes
<1>2. LateInv(s)'
  BY <1>s, <1>z, <1>h, <1>d, <1>u DEF LateInv, IoAt, Settled, Serving, Sizes
<1>3. ResultInv(s)'
  BY <1>s, <1>z, <1>h, <1>d, <1>u DEF ResultInv, Sizes
<1>4. ExecutorInv(s)'
  BY <1>s, <1>h, <1>u DEF ExecutorInv, IoAt, Ending, Joining
<1>5. PhaseInv(s)'
  BY <1>s, <1>h, <1>u DEF PhaseInv, IoAt, Clearing
<1>6. IoInv(s)'
  BY <1>s, <1>h, <1>u DEF IoInv, IoAt
<1>7. MailInv(s)'
  BY <1>s, <1>h, <1>u DEF MailInv, Unread, Parting
<1>8. BufferInv(s)'
  BY <1>s, <1>h, <1>u DEF BufferInv, NoWork
<1>9. CountInv(s)'
  BY <1>s, <1>h, <1>u DEF CountInv, IoAt, Joining, Parting, Unread, Undone, Pushing, Posting, Serving
<1>10. HttpInv(s)'
  BY <1>s, <1>h, <1>u DEF HttpInv, IoAt, NoWork, Serving
<1>11. AnswersInv(s)'
  BY <1>s, <1>h, <1>u DEF AnswersInv
<1>f. PostsFine(s)
  <2> SUFFICES ASSUME NEW p, p.kind \in Own, p.s = s, AnswerFine(p), InterruptFine(p)
               PROVE  AnswerFine(p)' /\ InterruptFine(p)'
    BY DEF PostsFine
  <2>1. FALSE
    BY <1>s, <1>z, <1>d DEF AnswerFine, InterruptFine, Serving, Answers, Own, IoAt, QueueInv, IoInv
  <2> QED
    BY <2>1
<1> QED
  BY <1>1, <1>2, <1>3, <1>4, <1>5, <1>6, <1>7, <1>8, <1>9, <1>10, <1>11, <1>f DEF SocketInv

(* WorkerDestroysQueue keeps the invariant of its socket. *)
LEMMA WorkerDestroysQueueKeeps ==
  ASSUME WInv, Next, NEW s \in Sockets, WorkerDestroysQueue(s)
  PROVE  SocketInv(s)' /\ PostsFine(s)
<1>s. /\ ExecutorInv(s) /\ PhaseInv(s) /\ IoInv(s) /\ MailInv(s) /\ BufferInv(s) /\ CountInv(s)
      /\ HttpInv(s) /\ QueueInv(s) /\ LateInv(s) /\ ResultInv(s) /\ AnswersInv(s)
  BY DEF WInv, SocketInv
<1>z. Sizes(s) /\ Sizes(s)'
  BY TypesOf, TypesAfter, SizesOf, SizesAfter
<1>y. /\ Len(inbox[s]) \in Nat /\ Len(sent[s]) \in Nat /\ Len(got[s]) \in Nat /\ Len(work[s]) \in Nat
      /\ Len(reqs) \in Nat /\ Len(posts) \in Nat /\ buffer[s] \in Nat /\ serving[s] \in Nat /\ gen[s] \in Nat
  BY <1>z DEF Sizes
<1>h. habits' = habits /\ (Gone' <=> Gone)
  BY DEF Next, Gone
<1>d. /\ <<"destroy", s>> \in builtins
      /\ builtins' = builtins \ {<<"destroy", s>>}
      /\ queues' = queues \ {s}
      /\ results'[s] = {}
      /\ late' = late \cup {c \in cmds : reqs[c].s = s}
  BY WorkerDestroysQueueDoes
<1>u. /\ UNCHANGED <<phase, gen, inbox, reqs, sent, ws_conns, buffer, work, serving, epc, posts,
         io, cmds, wpc, owner, signaled, got, polled>>
  BY WorkerDestroysQueueDoes
<1>1. QueueInv(s)'
  <2>1. <<"create", s>> # <<"destroy", s>>
    OBVIOUS
  <2>2. /\ <<"create", s>> \in builtins' <=> <<"create", s>> \in builtins
        /\ <<"destroy", s>> \notin builtins' /\ s \notin queues'
    BY <1>d, <2>1
  <2>3. IoAt({"close", "http_close"}, s)
    BY <1>s, <1>d DEF QueueInv
  <2> QED
    <3>1. \A P : IoAt(P, s)' <=> IoAt(P, s)
      BY <1>u DEF IoAt
    <3>2. ~IoAt({"accept"}, s)
      BY <2>3 DEF IoAt
    <3>3. phase[s] = "open" => IoAt({"close", "erase", "join"}, s)
      BY <1>s, <2>3 DEF IoInv, IoAt
    <3> QED
      BY <1>s, <1>h, <1>u, <2>2, <2>3, <3>1, <3>2, <3>3 DEF QueueInv
<1>2. LateInv(s)'
  BY <1>s, <1>z, <1>h, <1>d, <1>u DEF LateInv, IoAt, Settled, Serving, Sizes
<1>3. ResultInv(s)'
  BY <1>s, <1>z, <1>h, <1>d, <1>u DEF ResultInv, Sizes
<1>4. ExecutorInv(s)'
  BY <1>s, <1>h, <1>u DEF ExecutorInv, IoAt, Ending, Joining
<1>5. PhaseInv(s)'
  BY <1>s, <1>h, <1>u DEF PhaseInv, IoAt, Clearing
<1>6. IoInv(s)'
  BY <1>s, <1>h, <1>u DEF IoInv, IoAt
<1>7. MailInv(s)'
  BY <1>s, <1>h, <1>u DEF MailInv, Unread, Parting
<1>8. BufferInv(s)'
  BY <1>s, <1>h, <1>u DEF BufferInv, NoWork
<1>9. CountInv(s)'
  BY <1>s, <1>h, <1>u DEF CountInv, IoAt, Joining, Parting, Unread, Undone, Pushing, Posting, Serving
<1>10. HttpInv(s)'
  BY <1>s, <1>h, <1>u DEF HttpInv, IoAt, NoWork, Serving
<1>11. AnswersInv(s)'
  BY <1>s, <1>h, <1>u DEF AnswersInv
<1>f. PostsFine(s)
  <2> SUFFICES ASSUME NEW p, p.kind \in Own, p.s = s, AnswerFine(p), InterruptFine(p)
               PROVE  AnswerFine(p)' /\ InterruptFine(p)'
    BY DEF PostsFine
  <2>1. AnswerFine(p)'
    BY <1>s, <1>h, <1>d, <1>u DEF AnswerFine, Answers, IoAt
  <2>2. InterruptFine(p)'
    BY <1>s, <1>h, <1>d, <1>u DEF InterruptFine, Serving, IoAt, NoWork, Settled
  <2> QED
    BY <2>1, <2>2
<1> QED
  BY <1>1, <1>2, <1>3, <1>4, <1>5, <1>6, <1>7, <1>8, <1>9, <1>10, <1>11, <1>f DEF SocketInv

(* ClientConnects keeps the invariant of its socket. *)
LEMMA ClientConnectsKeeps ==
  ASSUME WInv, Next, NEW s \in Sockets, ClientConnects(s)
  PROVE  SocketInv(s)' /\ PostsFine(s)
<1>s. /\ ExecutorInv(s) /\ PhaseInv(s) /\ IoInv(s) /\ MailInv(s) /\ BufferInv(s) /\ CountInv(s)
      /\ HttpInv(s) /\ QueueInv(s) /\ LateInv(s) /\ ResultInv(s) /\ AnswersInv(s)
  BY DEF WInv, SocketInv
<1>z. Sizes(s) /\ Sizes(s)'
  BY TypesOf, TypesAfter, SizesOf, SizesAfter
<1>y. /\ Len(inbox[s]) \in Nat /\ Len(sent[s]) \in Nat /\ Len(got[s]) \in Nat /\ Len(work[s]) \in Nat
      /\ Len(reqs) \in Nat /\ Len(posts) \in Nat /\ buffer[s] \in Nat /\ serving[s] \in Nat /\ gen[s] \in Nat
  BY <1>z DEF Sizes
<1>h. habits' = habits /\ (Gone' <=> Gone)
  BY DEF Next, Gone
<1>d. /\ phase[s] = "free"
      /\ owner = "running"
      /\ Cardinality(Connections) < MaxOpens[habits]
      /\ gen'[s] = gen[s] + 1
      /\ Len(got'[s]) = 0
      /\ phase'[s] # "http" =>
           /\ phase'[s] = "handshake"
           /\ UNCHANGED reqs
           /\ Len(inbox'[s]) = 0
           /\ Len(sent'[s]) = 0
           /\ "overlaps" \in habits \/ \A t \in Sockets : phase[t] \notin {"handshake", "valid"}
      /\ phase'[s] = "http" =>
           /\ "http" \in habits
           /\ Appended(reqs, reqs', [s |-> s, gen |-> gen[s] + 1, kind |-> "run", queue |-> s])
           /\ Len(inbox'[s]) = 1
           /\ inbox'[s][1] = Len(reqs) + 1
           /\ Len(sent'[s]) = 1
           /\ sent'[s][1] = Len(reqs) + 1
  BY ClientConnectsDoes
<1>u. /\ UNCHANGED <<ws_conns, buffer, work, serving, epc, posts, io, builtins, cmds, wpc,
         queues, results, late, owner, signaled, polled>>
  BY ClientConnectsDoes
<1>a. epc[s] = "none" /\ s \notin ws_conns /\ ~IoAt(Busy, s) /\ ~IoAt(Busy, s)'
  <2>1. ~IoAt({"accept", "push", "close", "http_close", "erase", "join", "clear", "clear_join", "undefined"}, s)
    BY <1>s, <1>d DEF IoInv, IoAt
  <2>2. ~IoAt(Busy, s)
    BY <2>1 DEF IoAt, Busy, Places
  <2>3. s \notin ws_conns
    BY <1>s, <1>d DEF PhaseInv
  <2>4. ~IoAt(Ending, s)
    BY <2>1 DEF IoAt, Ending
  <2> QED
    BY <1>s, <1>u, <2>2, <2>3, <2>4 DEF ExecutorInv, IoAt
<1>q. ~Gone => s \notin queues
  BY <1>s, <1>d, <1>a DEF QueueInv, IoAt, Busy, Places
<1>c. cmds \subseteq 1..Len(reqs)
  BY DEF WInv, CommandInv
<1>r. Len(reqs) \in Nat /\ Len(reqs') >= Len(reqs) /\ \A i \in 1..Len(reqs) : reqs'[i] = reqs[i]
  BY <1>z, <1>d DEF Appended, Sizes
<1>e. phase'[s] = "http" =>
        /\ Len(inbox'[s]) = 1 /\ Len(sent'[s]) = 1 /\ inbox'[s][1] = sent'[s][1]
        /\ sent'[s][1] = Len(reqs) + 1 /\ Len(reqs') = Len(reqs) + 1
        /\ reqs'[sent'[s][1]].s = s /\ reqs'[sent'[s][1]].gen = gen'[s]
  <2>1. phase'[s] = "http" => reqs'[Len(reqs) + 1] = [s |-> s, gen |-> gen[s] + 1, kind |-> "run", queue |-> s]
                              /\ Len(reqs') = Len(reqs) + 1
    BY <1>d DEF Appended
  <2> QED
    BY <1>d, <2>1
<1>1. PhaseInv(s)'
  BY <1>s, <1>z, <1>h, <1>d, <1>u DEF PhaseInv, IoAt, Clearing, Sizes
<1>2. IoInv(s)'
  BY <1>s, <1>z, <1>h, <1>d, <1>u DEF IoInv, IoAt, Sizes
<1>3. MailInv(s)'
  <2>1. CASE phase'[s] = "http"
    <3>1. inbox'[s][1] # 0 /\ inbox'[s][1] \in 1..Len(reqs')
      BY <1>r, <1>e, <2>1
    <3>2. ~Parting(s)' /\ Unread(s)' = 1
      BY <1>e, <2>1, <3>1 DEF Parting, Unread
    <3> QED
      BY <1>e, <2>1, <3>1, <3>2 DEF MailInv
  <2>2. CASE phase'[s] # "http"
    <3>1. Unread(s)' = 0
      BY <1>d, <2>2 DEF Parting, Unread
    <3> QED
      BY <1>d, <2>2, <3>1 DEF MailInv
  <2> QED
    BY <2>1, <2>2
<1>4. BufferInv(s)'
  <2>1. buffer[s] \in 0..Len(reqs')
    <3>1. buffer[s] \in 0..Len(reqs) /\ Len(reqs') \in Nat
      BY <1>s, <1>z DEF BufferInv, Sizes
    <3> QED
      BY <1>r, <3>1
  <2> QED
    BY <1>u, <1>a, <2>1 DEF BufferInv
<1>5. CountInv(s)'
  BY <1>s, <1>z, <1>h, <1>d, <1>u DEF CountInv, IoAt, Joining, Parting, Unread, Undone, Pushing, Posting, Serving, Sizes
<1>6. HttpInv(s)'
  <2> SUFFICES ASSUME phase'[s] = "http"
               PROVE  HttpInv(s)'
    BY DEF HttpInv
  <2>1. inbox'[s][1] # 0
    BY <1>z, <1>e DEF Sizes
  <2> QED
    BY <1>d, <1>u, <1>a, <1>e, <2>1 DEF HttpInv, Serving, IoAt, Busy, Places
<1>7. QueueInv(s)'
  BY <1>s, <1>z, <1>h, <1>d, <1>u DEF QueueInv, IoAt, Sizes
<1>8. LateInv(s)'
  <2>1. Settled(s)' <=> Settled(s)
    BY <1>u, <1>c, <1>r DEF Settled
  <2>2. ~IoAt({"close"}, s)' /\ ~IoAt({"erase", "join"}, s)' /\ ~IoAt({"http_close"}, s)'
    BY <1>a DEF IoAt, Busy, Places
  <2> QED
    BY <1>s, <1>h, <1>d, <2>1, <2>2 DEF LateInv, Serving
<1>9. ResultInv(s)'
  <2>1. results[s] \subseteq 1..Len(reqs')
    <3>1. results[s] \subseteq 1..Len(reqs)
      BY <1>s DEF ResultInv
    <3>2. Len(reqs') \in Nat
      BY <1>z DEF Sizes
    <3>3. 1..Len(reqs) \subseteq 1..Len(reqs')
      BY <1>r, <3>2
    <3> QED
      BY <3>1, <3>3
  <2> QED
    BY <1>s, <1>h, <1>u, <1>q, <2>1 DEF ResultInv
<1>10. AnswersInv(s)'
  BY <1>s, <1>z, <1>h, <1>d, <1>u DEF AnswersInv, Sizes
<1>11. ExecutorInv(s)'
  BY <1>s, <1>h, <1>u DEF ExecutorInv, IoAt, Ending, Joining
<1>f. PostsFine(s)
  <2> SUFFICES ASSUME NEW p, p.kind \in Own, p.s = s, AnswerFine(p), InterruptFine(p)
               PROVE  AnswerFine(p)' /\ InterruptFine(p)'
    BY DEF PostsFine
  <2>1. FALSE
    BY <1>s, <1>z, <1>d DEF AnswerFine, InterruptFine, Serving, Answers, Own, IoAt
  <2> QED
    BY <2>1
<1> QED
  BY <1>1, <1>2, <1>3, <1>4, <1>5, <1>6, <1>7, <1>8, <1>9, <1>10, <1>11, <1>f DEF SocketInv

(* ClientCloses keeps the invariant of its socket. *)
LEMMA ClientClosesKeeps ==
  ASSUME WInv, Next, NEW s \in Sockets, ClientCloses(s)
  PROVE  SocketInv(s)' /\ PostsFine(s)
<1>s. /\ ExecutorInv(s) /\ PhaseInv(s) /\ IoInv(s) /\ MailInv(s) /\ BufferInv(s) /\ CountInv(s)
      /\ HttpInv(s) /\ QueueInv(s) /\ LateInv(s) /\ ResultInv(s) /\ AnswersInv(s)
  BY DEF WInv, SocketInv
<1>z. Sizes(s) /\ Sizes(s)'
  BY TypesOf, TypesAfter, SizesOf, SizesAfter
<1>y. /\ Len(inbox[s]) \in Nat /\ Len(sent[s]) \in Nat /\ Len(got[s]) \in Nat /\ Len(work[s]) \in Nat
      /\ Len(reqs) \in Nat /\ Len(posts) \in Nat /\ buffer[s] \in Nat /\ serving[s] \in Nat /\ gen[s] \in Nat
  BY <1>z DEF Sizes
<1>h. habits' = habits /\ (Gone' <=> Gone)
  BY DEF Next, Gone
<1>d. /\ phase[s] \in {"open", "closing"}
      /\ \A i \in 1..Len(inbox[s]) : inbox[s][i] # 0
      /\ "leaves" \in habits \/ phase[s] = "closing" \/ Len(sent[s]) = Len(got[s])
      /\ Appended(inbox[s], inbox'[s], 0)
  BY ClientClosesDoes
<1>u. /\ UNCHANGED <<phase, gen, reqs, sent, ws_conns, buffer, work, serving, epc, posts, io,
         builtins, cmds, wpc, queues, results, late, owner, signaled, got, polled>>
  BY ClientClosesDoes
<1>m. MailInv(s)' /\ ~Parting(s) /\ Unread(s)' = Unread(s)
  BY <1>s, <1>z, <1>d, <1>u, ClosesMail
<1>1. PhaseInv(s)'
  BY <1>s, <1>z, <1>h, <1>d, <1>u DEF PhaseInv, IoAt, Clearing, Sizes
<1>2. IoInv(s)'
  BY <1>s, <1>z, <1>h, <1>d, <1>u DEF IoInv, IoAt, Sizes
<1>3. MailInv(s)'
  BY <1>m
<1>4. CountInv(s)'
  <2>1. Undone(s)' = Undone(s) /\ Pushing(s)' = Pushing(s) /\ Posting(s)' = Posting(s)
    BY <1>u DEF Undone, Pushing, Posting, Serving, IoAt
  <2> QED
    BY <1>s, <1>h, <1>d, <1>u, <1>m, <2>1 DEF CountInv
<1>5. HttpInv(s)'
  BY <1>s, <1>z, <1>h, <1>d, <1>u DEF HttpInv, IoAt, NoWork, Serving, Sizes
<1>6. QueueInv(s)'
  BY <1>s, <1>z, <1>h, <1>d, <1>u DEF QueueInv, IoAt, Sizes
<1>7. ExecutorInv(s)'
  BY <1>s, <1>h, <1>u DEF ExecutorInv, IoAt, Ending, Joining
<1>8. BufferInv(s)'
  BY <1>s, <1>h, <1>u DEF BufferInv, NoWork
<1>9. LateInv(s)'
  BY <1>s, <1>h, <1>u DEF LateInv, IoAt, Settled, Serving
<1>10. ResultInv(s)'
  BY <1>s, <1>h, <1>u DEF ResultInv
<1>11. AnswersInv(s)'
  BY <1>s, <1>h, <1>u DEF AnswersInv
<1>f. PostsFine(s)
  <2> SUFFICES ASSUME NEW p, p.kind \in Own, p.s = s, AnswerFine(p), InterruptFine(p)
               PROVE  AnswerFine(p)' /\ InterruptFine(p)'
    BY DEF PostsFine
  <2>1. AnswerFine(p)'
    BY <1>s, <1>h, <1>d, <1>u DEF AnswerFine, Answers, IoAt
  <2>2. InterruptFine(p)'
    BY <1>s, <1>h, <1>d, <1>u DEF InterruptFine, Serving, IoAt, NoWork, Settled
  <2> QED
    BY <2>1, <2>2
<1> QED
  BY <1>1, <1>2, <1>3, <1>4, <1>5, <1>6, <1>7, <1>8, <1>9, <1>10, <1>11, <1>f DEF SocketInv

(* ClientSends keeps the invariant of its socket. *)
LEMMA ClientSendsKeeps ==
  ASSUME WInv, Next, NEW s \in Sockets, NEW k \in Kinds, NEW q \in Names(s, k), ClientSends(s, k, q)
  PROVE  SocketInv(s)' /\ PostsFine(s)
<1>s. /\ ExecutorInv(s) /\ PhaseInv(s) /\ IoInv(s) /\ MailInv(s) /\ BufferInv(s) /\ CountInv(s)
      /\ HttpInv(s) /\ QueueInv(s) /\ LateInv(s) /\ ResultInv(s) /\ AnswersInv(s)
  BY DEF WInv, SocketInv
<1>z. Sizes(s) /\ Sizes(s)'
  BY TypesOf, TypesAfter, SizesOf, SizesAfter
<1>y. /\ Len(inbox[s]) \in Nat /\ Len(sent[s]) \in Nat /\ Len(got[s]) \in Nat /\ Len(work[s]) \in Nat
      /\ Len(reqs) \in Nat /\ Len(posts) \in Nat /\ buffer[s] \in Nat /\ serving[s] \in Nat /\ gen[s] \in Nat
  BY <1>z DEF Sizes
<1>h. habits' = habits /\ (Gone' <=> Gone)
  BY DEF Next, Gone
<1>d. /\ phase[s] = "open"
      /\ \A i \in 1..Len(inbox[s]) : inbox[s][i] # 0
      /\ "pipelines" \in habits \/ Len(sent[s]) = Len(got[s])
      /\ k \in RequestKinds
      /\ k = "state" => "asks" \in habits
      /\ k = "shutdown" => "abrupt" \in habits
      /\ q \in Sockets
      /\ "shares" \notin habits => q = s
      /\ Appended(reqs, reqs', [s |-> s, gen |-> gen[s], kind |-> k, queue |-> q])
      /\ Appended(inbox[s], inbox'[s], Len(reqs) + 1)
      /\ Appended(sent[s], sent'[s], Len(reqs) + 1)
  BY ClientSendsDoes
<1>u. /\ UNCHANGED <<phase, gen, ws_conns, buffer, work, serving, epc, posts, io, builtins,
         cmds, wpc, queues, results, late, owner, signaled, got, polled>>
  BY ClientSendsDoes
<1>m. /\ MailInv(s)' /\ ~Parting(s) /\ ~Parting(s)' /\ Unread(s) = Len(inbox[s])
      /\ Unread(s)' = Unread(s) + 1 /\ Unread(s) <= Len(sent[s])
  <2>1. PICK r : r = [s |-> s, gen |-> gen[s], kind |-> k, queue |-> q]
    OBVIOUS
  <2>2. r.s = s /\ r.gen = gen[s] /\ Appended(reqs, reqs', r)
    BY <1>d, <2>1
  <2> QED
    BY <1>s, <1>z, <1>d, <1>u, <2>2, SendsMail
<1>c. cmds \subseteq 1..Len(reqs)
  BY DEF WInv, CommandInv
<1>r. Len(reqs) \in Nat /\ Len(reqs') >= Len(reqs) /\ \A i \in 1..Len(reqs) : reqs'[i] = reqs[i]
  <2>1. Len(reqs') = Len(reqs) + 1 /\ \A i \in 1..Len(reqs) : reqs'[i] = reqs[i]
    BY <1>d DEF Appended
  <2> QED
    BY <1>y, <2>1
<1>e. /\ Len(sent[s]) \in Nat /\ Len(sent'[s]) = Len(sent[s]) + 1
      /\ \A i \in 1..Len(sent[s]) : sent'[s][i] = sent[s][i]
  BY <1>z, <1>d DEF Appended, Sizes
<1>1. PhaseInv(s)'
  BY <1>s, <1>z, <1>h, <1>d, <1>u DEF PhaseInv, IoAt, Clearing, Sizes
<1>2. IoInv(s)'
  BY <1>s, <1>z, <1>h, <1>d, <1>u DEF IoInv, IoAt, Sizes
<1>3. MailInv(s)'
  BY <1>m
<1>4. BufferInv(s)'
  <2>1. buffer[s] \in 0..Len(reqs')
    <3>1. buffer[s] \in 0..Len(reqs) /\ Len(reqs') \in Nat
      BY <1>s, <1>z DEF BufferInv, Sizes
    <3> QED
      BY <1>r, <3>1
  <2>2. ASSUME epc[s] # "none", buffer[s] # 0
        PROVE  \E j \in 1..Len(sent'[s]) : buffer[s] = sent'[s][j]
    <3>1. PICK j \in 1..Len(sent[s]) : buffer[s] = sent[s][j]
      BY <1>s, <2>2 DEF BufferInv
    <3>2. j \in 1..Len(sent'[s]) /\ buffer[s] = sent'[s][j]
      BY <1>e, <3>1
    <3> QED
      BY <3>2
  <2>3. \A n \in 1..Len(sent[s]) : n \in 1..Len(sent'[s])
    BY <1>e
  <2>4. epc[s] = "polling" => \E j \in 1..Len(sent'[s]) : serving[s] = sent'[s][j]
    BY <1>s, <1>e, <2>3 DEF BufferInv
  <2>5. ASSUME epc[s] = "polling", phase[s] # "closing"
        PROVE  \E j \in Len(got[s]) + 1..Len(sent'[s]) : serving[s] = sent'[s][j]
    <3>1. PICK j \in Len(got[s]) + 1..Len(sent[s]) : serving[s] = sent[s][j]
      BY <1>s, <2>5 DEF BufferInv
    <3>2. j \in 1..Len(sent[s]) /\ j \in Len(got[s]) + 1..Len(sent'[s])
      BY <1>y, <1>e, <3>1
    <3> QED
      BY <1>e, <3>1, <3>2
  <2> QED
    BY <1>s, <1>u, <2>1, <2>2, <2>4, <2>5 DEF BufferInv, NoWork
<1>5. CountInv(s)'
  <2>1. Undone(s)' = Undone(s) /\ Pushing(s)' = Pushing(s) /\ Posting(s)' = Posting(s)
    BY <1>u DEF Undone, Pushing, Posting, Serving, IoAt
  <2>2. /\ Undone(s) \in Int /\ Pushing(s) \in Int /\ Unread(s) \in Nat /\ Len(got[s]) \in Int
        /\ Posting(s) \in Int
    BY <1>z, <1>m DEF Undone, Pushing, Posting, Serving, Sizes
  <2>3. Len(sent[s]) = Len(got[s]) + Unread(s) + Pushing(s) + Undone(s) + Posting(s)
    BY <1>s, <1>d DEF CountInv
  <2>4. Len(sent'[s]) = Len(got[s]) + Unread(s)' + Pushing(s)' + Undone(s)' + Posting(s)'
    <3>1. Len(got[s]) + (Unread(s) + 1) + Pushing(s) + Undone(s) + Posting(s)
            = Len(got[s]) + Unread(s) + Pushing(s) + Undone(s) + Posting(s) + 1
      <4>1. \A g, u, v, d, p \in Int : g + (u + 1) + v + d + p = g + u + v + d + p + 1
        OBVIOUS
      <4>2. Unread(s) \in Int
        BY <2>2
      <4> QED
        BY <2>2, <4>1, <4>2, SMTT(40)
    <3> QED
      BY <1>m, <1>e, <2>1, <2>3, <3>1
  <2>5. Len(sent'[s]) - Unread(s)' = Len(sent[s]) - Unread(s)
    BY <1>m, <1>e, <2>2
  <2>6. Len(sent'[s]) > Unread(s)' => buffer[s] = sent'[s][Len(sent'[s]) - Unread(s)']
    <3>1. ASSUME Len(sent'[s]) > Unread(s)'
          PROVE  Len(sent[s]) > Unread(s) /\ Len(sent[s]) - Unread(s) \in 1..Len(sent[s])
      <4>1. PICK u \in Nat, m \in Nat : u = Unread(s) /\ m = Len(sent[s])
        BY <1>e, <2>2
      <4>2. m + 1 > u + 1
        BY <1>m, <1>e, <3>1, <4>1
      <4>3. m > u /\ m - u \in 1..m
        BY <4>2
      <4> QED
        BY <4>1, <4>3
    <3> QED
      BY <1>s, <1>d, <1>e, <2>5, <3>1 DEF CountInv
  <2>7. "pipelines" \notin habits => Len(sent'[s]) <= Len(got[s]) + 1
    BY <1>d, <1>e, <2>2
  <2> QED
    BY <1>h, <1>u, <1>m, <2>4, <2>6, <2>7 DEF CountInv
<1>6. HttpInv(s)'
  BY <1>s, <1>z, <1>h, <1>d, <1>u DEF HttpInv, IoAt, NoWork, Serving, Sizes
<1>7. QueueInv(s)'
  BY <1>s, <1>z, <1>h, <1>d, <1>u DEF QueueInv, IoAt, Sizes
<1>8. LateInv(s)'
  <2>1. Settled(s)' <=> Settled(s)
    BY <1>u, <1>c, <1>r DEF Settled
  <2> QED
    BY <1>s, <1>h, <1>u, <2>1 DEF LateInv, Serving, IoAt
<1>9. ResultInv(s)'
  <2>1. results[s] \subseteq 1..Len(reqs')
    <3>1. results[s] \subseteq 1..Len(reqs)
      BY <1>s DEF ResultInv
    <3>2. Len(reqs') \in Nat
      BY <1>z DEF Sizes
    <3>3. 1..Len(reqs) \subseteq 1..Len(reqs')
      BY <1>r, <3>2
    <3> QED
      BY <3>1, <3>3
  <2>2. \A x \in results[s] : reqs'[x] = reqs[x]
    BY <1>s, <1>r DEF ResultInv
  <2> QED
    BY <1>s, <1>h, <1>u, <2>1, <2>2 DEF ResultInv
<1>10. AnswersInv(s)'
  <2>1. ASSUME NEW i \in 1..Len(got[s])
        PROVE  /\ i <= Len(sent'[s]) /\ \E j \in i..Len(sent'[s]) : got[s][i] = sent'[s][j]
               /\ "pipelines" \notin habits => got[s][i] = sent'[s][i]
    <3>1. i <= Len(sent[s]) /\ i \in 1..Len(sent[s]) /\ i <= Len(sent'[s])
      <4>1. i <= Len(sent[s])
        BY <1>s DEF AnswersInv
      <4> QED
        BY <1>y, <1>e, <4>1
    <3>2. PICK j \in i..Len(sent[s]) : got[s][i] = sent[s][j]
      BY <1>s DEF AnswersInv
    <3>3. j \in 1..Len(sent[s]) /\ j \in i..Len(sent'[s])
      BY <1>e, <3>1, <3>2
    <3>4. "pipelines" \notin habits => got[s][i] = sent[s][i]
      BY <1>s DEF AnswersInv
    <3> QED
      BY <1>e, <3>1, <3>2, <3>3, <3>4
  <2> QED
    BY <1>h, <1>u, <2>1 DEF AnswersInv
<1>11. ExecutorInv(s)'
  BY <1>s, <1>h, <1>u DEF ExecutorInv, IoAt, Ending, Joining
<1>f. PostsFine(s)
  <2> SUFFICES ASSUME NEW p, p.kind \in Own, p.s = s, AnswerFine(p), InterruptFine(p)
               PROVE  AnswerFine(p)' /\ InterruptFine(p)'
    BY DEF PostsFine
  <2>1. AnswerFine(p)'
    <3>1. ASSUME NEW j \in Len(got[s]) + 1..Len(sent[s])
          PROVE  j \in Len(got[s]) + 1..Len(sent'[s]) /\ sent'[s][j] = sent[s][j]
      BY <1>y, <1>e
    <3>2. p.kind \in Answers /\ phase[s] # "closing" =>
            \E j \in Len(got[s]) + 1..Len(sent'[s]) : p.req = sent'[s][j]
      BY <3>1 DEF AnswerFine
    <3> QED
      BY <1>d, <1>u, <3>2 DEF AnswerFine, Answers, IoAt
  <2>2. InterruptFine(p)'
    BY <1>s, <1>h, <1>d, <1>u DEF InterruptFine, Serving, IoAt, NoWork, Settled
  <2> QED
    BY <2>1, <2>2
<1> QED
  BY <1>1, <1>2, <1>3, <1>4, <1>5, <1>6, <1>7, <1>8, <1>9, <1>10, <1>11, <1>f DEF SocketInv


-----------------------------------------------------------------------------
(* ValidateHandler disturbs no other socket. *)
LEMMA ValidateHandlerFrame ==
  ASSUME WInv, Next, NEW s \in Sockets, ValidateHandler(s)
  PROVE  Steady /\ \A t \in Sockets : t # s => Same(t)
<1>u. /\ UNCHANGED <<gen, inbox, reqs, sent, ws_conns, buffer, work, serving, epc, posts, io,
         builtins, cmds, wpc, queues, results, late, owner, signaled, got, polled>>
  BY ValidateHandlerDoes
<1>f. /\ Others(phase, phase', s)
  BY ValidateHandlerDoes
<1>1. Steady
  <2>1. habits' = habits /\ Len(reqs') \in Nat /\ Len(reqs) \in Nat
    BY TypesOf, TypesAfter DEF Next, LinkTypes
  <2>2. Len(reqs') >= Len(reqs) /\ (\A i \in 1..Len(reqs) : reqs'[i] = reqs[i])
    BY <1>u, <2>1
  <2>3. io'.at \in Clearing <=> io.at \in Clearing
    BY <1>u
  <2>4. (owner' = "running" <=> owner = "running") /\ late \subseteq late'
    BY <1>u
  <2> QED
    BY <2>1, <2>2, <2>3, <2>4 DEF Steady
<1>2. ASSUME NEW t \in Sockets, t # s
      PROVE  Same(t)
  <2>1. /\ phase'[t] = phase[t] /\ gen'[t] = gen[t] /\ inbox'[t] = inbox[t]
        /\ sent'[t] = sent[t] /\ got'[t] = got[t] /\ buffer'[t] = buffer[t]
        /\ work'[t] = work[t] /\ serving'[t] = serving[t] /\ epc'[t] = epc[t]
        /\ results'[t] \subseteq results[t]
    BY <1>u, <1>2, <1>f DEF Others
  <2>2. (t \in ws_conns' <=> t \in ws_conns) /\ (t \in queues' <=> t \in queues)
    BY <1>u, <1>2
  <2>3. /\ <<"create", t>> \in builtins' <=> <<"create", t>> \in builtins
        /\ <<"destroy", t>> \in builtins' <=> <<"destroy", t>> \in builtins
    BY <1>u, <1>2
  <2>4. io' = io \/ (Away(t) /\ Away(t)')
    BY <1>u, <1>2
  <2>5. \A x \in cmds' : x \in cmds \/ reqs'[x].s # t
    BY <1>u, <1>2
  <2> QED
    BY <2>1, <2>2, <2>3, <2>4, <2>5 DEF Same
<1> QED
  BY <1>1, <1>2

(* OpenHandler disturbs no other socket. *)
LEMMA OpenHandlerFrame ==
  ASSUME WInv, Next, NEW s \in Sockets, OpenHandler(s)
  PROVE  Steady /\ \A t \in Sockets : t # s => Same(t)
<1>u. /\ UNCHANGED <<phase, gen, inbox, reqs, sent, serving, posts, cmds, wpc, queues, results,
         late, owner, signaled, got, polled>>
  BY OpenHandlerDoes
<1>f. /\ Others(buffer, buffer', s)
      /\ Others(epc, epc', s)
      /\ Others(work, work', s)
  BY OpenHandlerDoes
<1>i. /\ io.at = "idle"
      /\ io'.at = "accept"
      /\ io'.s = s
  BY OpenHandlerDoes
<1>b. /\ ws_conns' = ws_conns \cup {s}
      /\ builtins' = builtins \cup {<<"create", s>>}
  BY OpenHandlerDoes
<1>1. Steady
  <2>1. habits' = habits /\ Len(reqs') \in Nat /\ Len(reqs) \in Nat
    BY TypesOf, TypesAfter DEF Next, LinkTypes
  <2>2. Len(reqs') >= Len(reqs) /\ (\A i \in 1..Len(reqs) : reqs'[i] = reqs[i])
    BY <1>u, <2>1
  <2>3. io'.at \in Clearing <=> io.at \in Clearing
    BY <1>i DEF Clearing
  <2>4. (owner' = "running" <=> owner = "running") /\ late \subseteq late'
    BY <1>u, <1>b
  <2> QED
    BY <2>1, <2>2, <2>3, <2>4 DEF Steady
<1>2. ASSUME NEW t \in Sockets, t # s
      PROVE  Same(t)
  <2>1. /\ phase'[t] = phase[t] /\ gen'[t] = gen[t] /\ inbox'[t] = inbox[t]
        /\ sent'[t] = sent[t] /\ got'[t] = got[t] /\ buffer'[t] = buffer[t]
        /\ work'[t] = work[t] /\ serving'[t] = serving[t] /\ epc'[t] = epc[t]
        /\ results'[t] \subseteq results[t]
    BY <1>u, <1>2, <1>f DEF Others
  <2>2. (t \in ws_conns' <=> t \in ws_conns) /\ (t \in queues' <=> t \in queues)
    BY <1>u, <1>2, <1>b
  <2>3. /\ <<"create", t>> \in builtins' <=> <<"create", t>> \in builtins
        /\ <<"destroy", t>> \in builtins' <=> <<"destroy", t>> \in builtins
    BY <1>u, <1>2, <1>b
  <2>4. io' = io \/ (Away(t) /\ Away(t)')
    BY <1>u, <1>2, <1>i DEF Away, IoAt, Busy, Places
  <2>5. \A x \in cmds' : x \in cmds \/ reqs'[x].s # t
    BY <1>u, <1>2
  <2> QED
    BY <2>1, <2>2, <2>3, <2>4, <2>5 DEF Same
<1> QED
  BY <1>1, <1>2

(* HttpHandler disturbs no other socket. *)
LEMMA HttpHandlerFrame ==
  ASSUME WInv, Next, NEW s \in Sockets, HttpHandler(s)
  PROVE  Steady /\ \A t \in Sockets : t # s => Same(t)
<1>u. /\ UNCHANGED <<phase, gen, inbox, reqs, sent, serving, posts, cmds, wpc, queues, results,
         late, owner, signaled, got, polled>>
  BY HttpHandlerDoes
<1>f. /\ Others(buffer, buffer', s)
      /\ Others(epc, epc', s)
      /\ Others(work, work', s)
  BY HttpHandlerDoes
<1>i. /\ io.at = "idle"
      /\ io'.at = "accept"
      /\ io'.s = s
  BY HttpHandlerDoes
<1>b. /\ ws_conns' = ws_conns \cup {s}
      /\ builtins' = builtins \cup {<<"create", s>>}
  BY HttpHandlerDoes
<1>1. Steady
  <2>1. habits' = habits /\ Len(reqs') \in Nat /\ Len(reqs) \in Nat
    BY TypesOf, TypesAfter DEF Next, LinkTypes
  <2>2. Len(reqs') >= Len(reqs) /\ (\A i \in 1..Len(reqs) : reqs'[i] = reqs[i])
    BY <1>u, <2>1
  <2>3. io'.at \in Clearing <=> io.at \in Clearing
    BY <1>i DEF Clearing
  <2>4. (owner' = "running" <=> owner = "running") /\ late \subseteq late'
    BY <1>u, <1>b
  <2> QED
    BY <2>1, <2>2, <2>3, <2>4 DEF Steady
<1>2. ASSUME NEW t \in Sockets, t # s
      PROVE  Same(t)
  <2>1. /\ phase'[t] = phase[t] /\ gen'[t] = gen[t] /\ inbox'[t] = inbox[t]
        /\ sent'[t] = sent[t] /\ got'[t] = got[t] /\ buffer'[t] = buffer[t]
        /\ work'[t] = work[t] /\ serving'[t] = serving[t] /\ epc'[t] = epc[t]
        /\ results'[t] \subseteq results[t]
    BY <1>u, <1>2, <1>f DEF Others
  <2>2. (t \in ws_conns' <=> t \in ws_conns) /\ (t \in queues' <=> t \in queues)
    BY <1>u, <1>2, <1>b
  <2>3. /\ <<"create", t>> \in builtins' <=> <<"create", t>> \in builtins
        /\ <<"destroy", t>> \in builtins' <=> <<"destroy", t>> \in builtins
    BY <1>u, <1>2, <1>b
  <2>4. io' = io \/ (Away(t) /\ Away(t)')
    BY <1>u, <1>2, <1>i DEF Away, IoAt, Busy, Places
  <2>5. \A x \in cmds' : x \in cmds \/ reqs'[x].s # t
    BY <1>u, <1>2
  <2> QED
    BY <2>1, <2>2, <2>3, <2>4, <2>5 DEF Same
<1> QED
  BY <1>1, <1>2

(* AcceptReturns disturbs no other socket. *)
LEMMA AcceptReturnsFrame ==
  ASSUME WInv, Next, NEW s \in Sockets, AcceptReturns(s)
  PROVE  Steady /\ \A t \in Sockets : t # s => Same(t)
<1>u. /\ UNCHANGED <<gen, reqs, sent, ws_conns, work, serving, epc, posts, builtins, cmds, wpc,
         queues, results, late, owner, signaled, got, polled>>
  BY AcceptReturnsDoes
<1>f. /\ phase[s] = "http" =>
           /\ UNCHANGED phase
           /\ Others(buffer, buffer', s)
           /\ Others(inbox, inbox', s)
      /\ phase[s] # "http" =>
           /\ UNCHANGED <<buffer, inbox>>
           /\ Others(phase, phase', s)
  BY AcceptReturnsDoes
<1>i. /\ io.at = "accept"
      /\ io.s = s
      /\ phase[s] = "http" =>
           /\ io'.at = "push"
           /\ io'.s = s
      /\ phase[s] # "http" =>
           /\ io'.at = "idle"
  BY AcceptReturnsDoes
<1>1. Steady
  <2>1. habits' = habits /\ Len(reqs') \in Nat /\ Len(reqs) \in Nat
    BY TypesOf, TypesAfter DEF Next, LinkTypes
  <2>2. Len(reqs') >= Len(reqs) /\ (\A i \in 1..Len(reqs) : reqs'[i] = reqs[i])
    BY <1>u, <2>1
  <2>3. io'.at \in Clearing <=> io.at \in Clearing
    BY <1>i DEF Clearing
  <2>4. (owner' = "running" <=> owner = "running") /\ late \subseteq late'
    BY <1>u
  <2> QED
    BY <2>1, <2>2, <2>3, <2>4 DEF Steady
<1>2. ASSUME NEW t \in Sockets, t # s
      PROVE  Same(t)
  <2>1. /\ phase'[t] = phase[t] /\ gen'[t] = gen[t] /\ inbox'[t] = inbox[t]
        /\ sent'[t] = sent[t] /\ got'[t] = got[t] /\ buffer'[t] = buffer[t]
        /\ work'[t] = work[t] /\ serving'[t] = serving[t] /\ epc'[t] = epc[t]
        /\ results'[t] \subseteq results[t]
    BY <1>u, <1>2, <1>f DEF Others
  <2>2. (t \in ws_conns' <=> t \in ws_conns) /\ (t \in queues' <=> t \in queues)
    BY <1>u, <1>2
  <2>3. /\ <<"create", t>> \in builtins' <=> <<"create", t>> \in builtins
        /\ <<"destroy", t>> \in builtins' <=> <<"destroy", t>> \in builtins
    BY <1>u, <1>2
  <2>4. io' = io \/ (Away(t) /\ Away(t)')
    BY <1>u, <1>2, <1>i DEF Away, IoAt, Busy, Places
  <2>5. \A x \in cmds' : x \in cmds \/ reqs'[x].s # t
    BY <1>u, <1>2
  <2> QED
    BY <2>1, <2>2, <2>3, <2>4, <2>5 DEF Same
<1> QED
  BY <1>1, <1>2

(* MessageHandler disturbs no other socket. *)
LEMMA MessageHandlerFrame ==
  ASSUME WInv, Next, NEW s \in Sockets, MessageHandler(s)
  PROVE  Steady /\ \A t \in Sockets : t # s => Same(t)
<1>u. /\ UNCHANGED <<phase, gen, reqs, sent, ws_conns, work, serving, epc, posts, builtins,
         cmds, wpc, queues, results, late, owner, signaled, got, polled>>
  BY MessageHandlerDoes
<1>f. /\ Others(buffer, buffer', s)
      /\ Others(inbox, inbox', s)
  BY MessageHandlerDoes
<1>i. /\ io.at = "idle"
      /\ io'.at = "push"
      /\ io'.s = s
  BY MessageHandlerDoes
<1>1. Steady
  <2>1. habits' = habits /\ Len(reqs') \in Nat /\ Len(reqs) \in Nat
    BY TypesOf, TypesAfter DEF Next, LinkTypes
  <2>2. Len(reqs') >= Len(reqs) /\ (\A i \in 1..Len(reqs) : reqs'[i] = reqs[i])
    BY <1>u, <2>1
  <2>3. io'.at \in Clearing <=> io.at \in Clearing
    BY <1>i DEF Clearing
  <2>4. (owner' = "running" <=> owner = "running") /\ late \subseteq late'
    BY <1>u
  <2> QED
    BY <2>1, <2>2, <2>3, <2>4 DEF Steady
<1>2. ASSUME NEW t \in Sockets, t # s
      PROVE  Same(t)
  <2>1. /\ phase'[t] = phase[t] /\ gen'[t] = gen[t] /\ inbox'[t] = inbox[t]
        /\ sent'[t] = sent[t] /\ got'[t] = got[t] /\ buffer'[t] = buffer[t]
        /\ work'[t] = work[t] /\ serving'[t] = serving[t] /\ epc'[t] = epc[t]
        /\ results'[t] \subseteq results[t]
    BY <1>u, <1>2, <1>f DEF Others
  <2>2. (t \in ws_conns' <=> t \in ws_conns) /\ (t \in queues' <=> t \in queues)
    BY <1>u, <1>2
  <2>3. /\ <<"create", t>> \in builtins' <=> <<"create", t>> \in builtins
        /\ <<"destroy", t>> \in builtins' <=> <<"destroy", t>> \in builtins
    BY <1>u, <1>2
  <2>4. io' = io \/ (Away(t) /\ Away(t)')
    BY <1>u, <1>2, <1>i DEF Away, IoAt, Busy, Places
  <2>5. \A x \in cmds' : x \in cmds \/ reqs'[x].s # t
    BY <1>u, <1>2
  <2> QED
    BY <2>1, <2>2, <2>3, <2>4, <2>5 DEF Same
<1> QED
  BY <1>1, <1>2

(* PushWork disturbs no other socket. *)
LEMMA PushWorkFrame ==
  ASSUME WInv, Next, NEW s \in Sockets, PushWork(s)
  PROVE  Steady /\ \A t \in Sockets : t # s => Same(t)
<1>u. /\ UNCHANGED <<phase, gen, inbox, reqs, sent, ws_conns, buffer, serving, epc, posts,
         builtins, cmds, wpc, queues, results, late, owner, signaled, got, polled>>
  BY PushWorkDoes
<1>f. /\ Others(work, work', s)
  BY PushWorkDoes
<1>i. /\ io.at = "push"
      /\ io.s = s
      /\ io'.at = "idle"
  BY PushWorkDoes
<1>1. Steady
  <2>1. habits' = habits /\ Len(reqs') \in Nat /\ Len(reqs) \in Nat
    BY TypesOf, TypesAfter DEF Next, LinkTypes
  <2>2. Len(reqs') >= Len(reqs) /\ (\A i \in 1..Len(reqs) : reqs'[i] = reqs[i])
    BY <1>u, <2>1
  <2>3. io'.at \in Clearing <=> io.at \in Clearing
    BY <1>i DEF Clearing
  <2>4. (owner' = "running" <=> owner = "running") /\ late \subseteq late'
    BY <1>u
  <2> QED
    BY <2>1, <2>2, <2>3, <2>4 DEF Steady
<1>2. ASSUME NEW t \in Sockets, t # s
      PROVE  Same(t)
  <2>1. /\ phase'[t] = phase[t] /\ gen'[t] = gen[t] /\ inbox'[t] = inbox[t]
        /\ sent'[t] = sent[t] /\ got'[t] = got[t] /\ buffer'[t] = buffer[t]
        /\ work'[t] = work[t] /\ serving'[t] = serving[t] /\ epc'[t] = epc[t]
        /\ results'[t] \subseteq results[t]
    BY <1>u, <1>2, <1>f DEF Others
  <2>2. (t \in ws_conns' <=> t \in ws_conns) /\ (t \in queues' <=> t \in queues)
    BY <1>u, <1>2
  <2>3. /\ <<"create", t>> \in builtins' <=> <<"create", t>> \in builtins
        /\ <<"destroy", t>> \in builtins' <=> <<"destroy", t>> \in builtins
    BY <1>u, <1>2
  <2>4. io' = io \/ (Away(t) /\ Away(t)')
    BY <1>u, <1>2, <1>i DEF Away, IoAt, Busy, Places
  <2>5. \A x \in cmds' : x \in cmds \/ reqs'[x].s # t
    BY <1>u, <1>2
  <2> QED
    BY <2>1, <2>2, <2>3, <2>4, <2>5 DEF Same
<1> QED
  BY <1>1, <1>2

(* CloseHandler disturbs no other socket. *)
LEMMA CloseHandlerFrame ==
  ASSUME WInv, Next, NEW s \in Sockets, CloseHandler(s)
  PROVE  Steady /\ \A t \in Sockets : t # s => Same(t)
<1>u. /\ UNCHANGED <<phase, gen, inbox, reqs, sent, ws_conns, buffer, work, serving, epc, posts,
         cmds, wpc, queues, results, late, owner, signaled, got, polled>>
  BY CloseHandlerDoes
<1>i. /\ io.at = "idle"
      /\ io'.at = "close"
      /\ io'.s = s
  BY CloseHandlerDoes
<1>b. /\ builtins' = builtins \cup {<<"destroy", s>>}
  BY CloseHandlerDoes
<1>1. Steady
  <2>1. habits' = habits /\ Len(reqs') \in Nat /\ Len(reqs) \in Nat
    BY TypesOf, TypesAfter DEF Next, LinkTypes
  <2>2. Len(reqs') >= Len(reqs) /\ (\A i \in 1..Len(reqs) : reqs'[i] = reqs[i])
    BY <1>u, <2>1
  <2>3. io'.at \in Clearing <=> io.at \in Clearing
    BY <1>i DEF Clearing
  <2>4. (owner' = "running" <=> owner = "running") /\ late \subseteq late'
    BY <1>u, <1>b
  <2> QED
    BY <2>1, <2>2, <2>3, <2>4 DEF Steady
<1>2. ASSUME NEW t \in Sockets, t # s
      PROVE  Same(t)
  <2>1. /\ phase'[t] = phase[t] /\ gen'[t] = gen[t] /\ inbox'[t] = inbox[t]
        /\ sent'[t] = sent[t] /\ got'[t] = got[t] /\ buffer'[t] = buffer[t]
        /\ work'[t] = work[t] /\ serving'[t] = serving[t] /\ epc'[t] = epc[t]
        /\ results'[t] \subseteq results[t]
    BY <1>u, <1>2 DEF Others
  <2>2. (t \in ws_conns' <=> t \in ws_conns) /\ (t \in queues' <=> t \in queues)
    BY <1>u, <1>2, <1>b
  <2>3. /\ <<"create", t>> \in builtins' <=> <<"create", t>> \in builtins
        /\ <<"destroy", t>> \in builtins' <=> <<"destroy", t>> \in builtins
    BY <1>u, <1>2, <1>b
  <2>4. io' = io \/ (Away(t) /\ Away(t)')
    BY <1>u, <1>2, <1>i DEF Away, IoAt, Busy, Places
  <2>5. \A x \in cmds' : x \in cmds \/ reqs'[x].s # t
    BY <1>u, <1>2
  <2> QED
    BY <2>1, <2>2, <2>3, <2>4, <2>5 DEF Same
<1> QED
  BY <1>1, <1>2

(* CloseReturns disturbs no other socket. *)
LEMMA CloseReturnsFrame ==
  ASSUME WInv, Next, NEW s \in Sockets, CloseReturns(s)
  PROVE  Steady /\ \A t \in Sockets : t # s => Same(t)
<1>u. /\ UNCHANGED <<gen, inbox, reqs, sent, buffer, work, serving, epc, posts, builtins, cmds,
         wpc, queues, results, late, owner, signaled, got, polled>>
  BY CloseReturnsDoes
<1>f. /\ s \in ws_conns =>
           /\ UNCHANGED phase
      /\ s \notin ws_conns =>
           /\ Others(phase, phase', s)
  BY CloseReturnsDoes
<1>i. /\ io.at = "close"
      /\ io.s = s
      /\ s \in ws_conns =>
           /\ io'.at = "erase"
           /\ io'.s = s
      /\ s \notin ws_conns =>
           /\ io'.at = "idle"
  BY CloseReturnsDoes
<1>b. /\ s \in ws_conns =>
           /\ ws_conns' = ws_conns \ {s}
      /\ s \notin ws_conns =>
           /\ UNCHANGED ws_conns
  BY CloseReturnsDoes
<1>1. Steady
  <2>1. habits' = habits /\ Len(reqs') \in Nat /\ Len(reqs) \in Nat
    BY TypesOf, TypesAfter DEF Next, LinkTypes
  <2>2. Len(reqs') >= Len(reqs) /\ (\A i \in 1..Len(reqs) : reqs'[i] = reqs[i])
    BY <1>u, <2>1
  <2>3. io'.at \in Clearing <=> io.at \in Clearing
    BY <1>i DEF Clearing
  <2>4. (owner' = "running" <=> owner = "running") /\ late \subseteq late'
    BY <1>u, <1>b
  <2> QED
    BY <2>1, <2>2, <2>3, <2>4 DEF Steady
<1>2. ASSUME NEW t \in Sockets, t # s
      PROVE  Same(t)
  <2>1. /\ phase'[t] = phase[t] /\ gen'[t] = gen[t] /\ inbox'[t] = inbox[t]
        /\ sent'[t] = sent[t] /\ got'[t] = got[t] /\ buffer'[t] = buffer[t]
        /\ work'[t] = work[t] /\ serving'[t] = serving[t] /\ epc'[t] = epc[t]
        /\ results'[t] \subseteq results[t]
    BY <1>u, <1>2, <1>f DEF Others
  <2>2. (t \in ws_conns' <=> t \in ws_conns) /\ (t \in queues' <=> t \in queues)
    BY <1>u, <1>2, <1>b
  <2>3. /\ <<"create", t>> \in builtins' <=> <<"create", t>> \in builtins
        /\ <<"destroy", t>> \in builtins' <=> <<"destroy", t>> \in builtins
    BY <1>u, <1>2, <1>b
  <2>4. io' = io \/ (Away(t) /\ Away(t)')
    BY <1>u, <1>2, <1>i DEF Away, IoAt, Busy, Places
  <2>5. \A x \in cmds' : x \in cmds \/ reqs'[x].s # t
    BY <1>u, <1>2
  <2> QED
    BY <2>1, <2>2, <2>3, <2>4, <2>5 DEF Same
<1> QED
  BY <1>1, <1>2

(* StopsExecutor disturbs no other socket. *)
LEMMA StopsExecutorFrame ==
  ASSUME WInv, Next, NEW s \in Sockets, StopsExecutor(s)
  PROVE  Steady /\ \A t \in Sockets : t # s => Same(t)
<1>u. /\ UNCHANGED <<phase, gen, inbox, reqs, sent, ws_conns, buffer, serving, epc, posts,
         builtins, cmds, wpc, queues, results, late, owner, signaled, got, polled>>
  BY StopsExecutorDoes
<1>f. /\ Others(work, work', s)
  BY StopsExecutorDoes
<1>i. /\ io.at \in {"erase", "clear"}
      /\ io.s = s
      /\ io'.s = s
      /\ io.at = "erase" => io'.at = "join"
      /\ io.at = "clear" => io'.at = "clear_join"
  BY StopsExecutorDoes
<1>1. Steady
  <2>1. habits' = habits /\ Len(reqs') \in Nat /\ Len(reqs) \in Nat
    BY TypesOf, TypesAfter DEF Next, LinkTypes
  <2>2. Len(reqs') >= Len(reqs) /\ (\A i \in 1..Len(reqs) : reqs'[i] = reqs[i])
    BY <1>u, <2>1
  <2>3. io'.at \in Clearing <=> io.at \in Clearing
    BY <1>i DEF Clearing
  <2>4. (owner' = "running" <=> owner = "running") /\ late \subseteq late'
    BY <1>u
  <2> QED
    BY <2>1, <2>2, <2>3, <2>4 DEF Steady
<1>2. ASSUME NEW t \in Sockets, t # s
      PROVE  Same(t)
  <2>1. /\ phase'[t] = phase[t] /\ gen'[t] = gen[t] /\ inbox'[t] = inbox[t]
        /\ sent'[t] = sent[t] /\ got'[t] = got[t] /\ buffer'[t] = buffer[t]
        /\ work'[t] = work[t] /\ serving'[t] = serving[t] /\ epc'[t] = epc[t]
        /\ results'[t] \subseteq results[t]
    BY <1>u, <1>2, <1>f DEF Others
  <2>2. (t \in ws_conns' <=> t \in ws_conns) /\ (t \in queues' <=> t \in queues)
    BY <1>u, <1>2
  <2>3. /\ <<"create", t>> \in builtins' <=> <<"create", t>> \in builtins
        /\ <<"destroy", t>> \in builtins' <=> <<"destroy", t>> \in builtins
    BY <1>u, <1>2
  <2>4. io' = io \/ (Away(t) /\ Away(t)')
    BY <1>u, <1>2, <1>i DEF Away, IoAt, Busy, Places
  <2>5. \A x \in cmds' : x \in cmds \/ reqs'[x].s # t
    BY <1>u, <1>2
  <2> QED
    BY <2>1, <2>2, <2>3, <2>4, <2>5 DEF Same
<1> QED
  BY <1>1, <1>2

(* JoinsExecutor disturbs no other socket. *)
LEMMA JoinsExecutorFrame ==
  ASSUME WInv, Next, NEW s \in Sockets, JoinsExecutor(s)
  PROVE  Steady /\ \A t \in Sockets : t # s => Same(t)
<1>u. /\ UNCHANGED <<gen, inbox, reqs, sent, ws_conns, buffer, work, serving, posts, builtins,
         cmds, wpc, queues, results, late, owner, signaled, got, polled>>
  BY JoinsExecutorDoes
<1>f. /\ Others(epc, epc', s)
      /\ Others(phase, phase', s)
  BY JoinsExecutorDoes
<1>i. /\ io.at = "join"
      /\ io.s = s
      /\ io'.at = "idle"
  BY JoinsExecutorDoes
<1>1. Steady
  <2>1. habits' = habits /\ Len(reqs') \in Nat /\ Len(reqs) \in Nat
    BY TypesOf, TypesAfter DEF Next, LinkTypes
  <2>2. Len(reqs') >= Len(reqs) /\ (\A i \in 1..Len(reqs) : reqs'[i] = reqs[i])
    BY <1>u, <2>1
  <2>3. io'.at \in Clearing <=> io.at \in Clearing
    BY <1>i DEF Clearing
  <2>4. (owner' = "running" <=> owner = "running") /\ late \subseteq late'
    BY <1>u
  <2> QED
    BY <2>1, <2>2, <2>3, <2>4 DEF Steady
<1>2. ASSUME NEW t \in Sockets, t # s
      PROVE  Same(t)
  <2>1. /\ phase'[t] = phase[t] /\ gen'[t] = gen[t] /\ inbox'[t] = inbox[t]
        /\ sent'[t] = sent[t] /\ got'[t] = got[t] /\ buffer'[t] = buffer[t]
        /\ work'[t] = work[t] /\ serving'[t] = serving[t] /\ epc'[t] = epc[t]
        /\ results'[t] \subseteq results[t]
    BY <1>u, <1>2, <1>f DEF Others
  <2>2. (t \in ws_conns' <=> t \in ws_conns) /\ (t \in queues' <=> t \in queues)
    BY <1>u, <1>2
  <2>3. /\ <<"create", t>> \in builtins' <=> <<"create", t>> \in builtins
        /\ <<"destroy", t>> \in builtins' <=> <<"destroy", t>> \in builtins
    BY <1>u, <1>2
  <2>4. io' = io \/ (Away(t) /\ Away(t)')
    BY <1>u, <1>2, <1>i DEF Away, IoAt, Busy, Places
  <2>5. \A x \in cmds' : x \in cmds \/ reqs'[x].s # t
    BY <1>u, <1>2
  <2> QED
    BY <2>1, <2>2, <2>3, <2>4, <2>5 DEF Same
<1> QED
  BY <1>1, <1>2

(* PostSends disturbs no other socket. *)
LEMMA PostSendsFrame ==
  ASSUME WInv, Next, NEW s \in Sockets, PostSends(s)
  PROVE  Steady /\ \A t \in Sockets : t # s => Same(t)
<1>u. /\ UNCHANGED <<phase, gen, inbox, reqs, sent, ws_conns, buffer, work, serving, io,
         builtins, cmds, wpc, queues, results, late, owner, signaled, polled>>
  BY PostSendsDoes
<1>f. /\ Others(epc, epc', s)
      /\ Others(got, got', s)
  BY PostSendsDoes
<1>1. Steady
  <2>1. habits' = habits /\ Len(reqs') \in Nat /\ Len(reqs) \in Nat
    BY TypesOf, TypesAfter DEF Next, LinkTypes
  <2>2. Len(reqs') >= Len(reqs) /\ (\A i \in 1..Len(reqs) : reqs'[i] = reqs[i])
    BY <1>u, <2>1
  <2>3. io'.at \in Clearing <=> io.at \in Clearing
    BY <1>u
  <2>4. (owner' = "running" <=> owner = "running") /\ late \subseteq late'
    BY <1>u
  <2> QED
    BY <2>1, <2>2, <2>3, <2>4 DEF Steady
<1>2. ASSUME NEW t \in Sockets, t # s
      PROVE  Same(t)
  <2>1. /\ phase'[t] = phase[t] /\ gen'[t] = gen[t] /\ inbox'[t] = inbox[t]
        /\ sent'[t] = sent[t] /\ got'[t] = got[t] /\ buffer'[t] = buffer[t]
        /\ work'[t] = work[t] /\ serving'[t] = serving[t] /\ epc'[t] = epc[t]
        /\ results'[t] \subseteq results[t]
    BY <1>u, <1>2, <1>f DEF Others
  <2>2. (t \in ws_conns' <=> t \in ws_conns) /\ (t \in queues' <=> t \in queues)
    BY <1>u, <1>2
  <2>3. /\ <<"create", t>> \in builtins' <=> <<"create", t>> \in builtins
        /\ <<"destroy", t>> \in builtins' <=> <<"destroy", t>> \in builtins
    BY <1>u, <1>2
  <2>4. io' = io \/ (Away(t) /\ Away(t)')
    BY <1>u, <1>2
  <2>5. \A x \in cmds' : x \in cmds \/ reqs'[x].s # t
    BY <1>u, <1>2
  <2> QED
    BY <2>1, <2>2, <2>3, <2>4, <2>5 DEF Same
<1> QED
  BY <1>1, <1>2

(* PostSendsHttp disturbs no other socket. *)
LEMMA PostSendsHttpFrame ==
  ASSUME WInv, Next, NEW s \in Sockets, PostSendsHttp(s)
  PROVE  Steady /\ \A t \in Sockets : t # s => Same(t)
<1>u. /\ UNCHANGED <<phase, gen, inbox, reqs, sent, ws_conns, buffer, work, serving, epc, cmds,
         wpc, queues, results, late, owner, signaled, polled>>
  BY PostSendsHttpDoes
<1>f. /\ Others(got, got', s)
  BY PostSendsHttpDoes
<1>i. /\ io.at = "idle"
      /\ io'.at = "http_close"
      /\ io'.s = s
  BY PostSendsHttpDoes
<1>b. /\ builtins' = builtins \cup {<<"destroy", s>>}
  BY PostSendsHttpDoes
<1>1. Steady
  <2>1. habits' = habits /\ Len(reqs') \in Nat /\ Len(reqs) \in Nat
    BY TypesOf, TypesAfter DEF Next, LinkTypes
  <2>2. Len(reqs') >= Len(reqs) /\ (\A i \in 1..Len(reqs) : reqs'[i] = reqs[i])
    BY <1>u, <2>1
  <2>3. io'.at \in Clearing <=> io.at \in Clearing
    BY <1>i DEF Clearing
  <2>4. (owner' = "running" <=> owner = "running") /\ late \subseteq late'
    BY <1>u, <1>b
  <2> QED
    BY <2>1, <2>2, <2>3, <2>4 DEF Steady
<1>2. ASSUME NEW t \in Sockets, t # s
      PROVE  Same(t)
  <2>1. /\ phase'[t] = phase[t] /\ gen'[t] = gen[t] /\ inbox'[t] = inbox[t]
        /\ sent'[t] = sent[t] /\ got'[t] = got[t] /\ buffer'[t] = buffer[t]
        /\ work'[t] = work[t] /\ serving'[t] = serving[t] /\ epc'[t] = epc[t]
        /\ results'[t] \subseteq results[t]
    BY <1>u, <1>2, <1>f DEF Others
  <2>2. (t \in ws_conns' <=> t \in ws_conns) /\ (t \in queues' <=> t \in queues)
    BY <1>u, <1>2, <1>b
  <2>3. /\ <<"create", t>> \in builtins' <=> <<"create", t>> \in builtins
        /\ <<"destroy", t>> \in builtins' <=> <<"destroy", t>> \in builtins
    BY <1>u, <1>2, <1>b
  <2>4. io' = io \/ (Away(t) /\ Away(t)')
    BY <1>u, <1>2, <1>i DEF Away, IoAt, Busy, Places
  <2>5. \A x \in cmds' : x \in cmds \/ reqs'[x].s # t
    BY <1>u, <1>2
  <2> QED
    BY <2>1, <2>2, <2>3, <2>4, <2>5 DEF Same
<1> QED
  BY <1>1, <1>2

(* PostHttpThrows disturbs no other socket. *)
LEMMA PostHttpThrowsFrame ==
  ASSUME WInv, Next, NEW s \in Sockets, PostHttpThrows(s)
  PROVE  Steady /\ \A t \in Sockets : t # s => Same(t)
<1>u. /\ UNCHANGED <<phase, gen, inbox, reqs, sent, ws_conns, buffer, work, serving, io,
         builtins, cmds, wpc, queues, results, late, owner, signaled, got, polled>>
  BY PostHttpThrowsDoes
<1>f. /\ Others(epc, epc', s)
  BY PostHttpThrowsDoes
<1>1. Steady
  <2>1. habits' = habits /\ Len(reqs') \in Nat /\ Len(reqs) \in Nat
    BY TypesOf, TypesAfter DEF Next, LinkTypes
  <2>2. Len(reqs') >= Len(reqs) /\ (\A i \in 1..Len(reqs) : reqs'[i] = reqs[i])
    BY <1>u, <2>1
  <2>3. io'.at \in Clearing <=> io.at \in Clearing
    BY <1>u
  <2>4. (owner' = "running" <=> owner = "running") /\ late \subseteq late'
    BY <1>u
  <2> QED
    BY <2>1, <2>2, <2>3, <2>4 DEF Steady
<1>2. ASSUME NEW t \in Sockets, t # s
      PROVE  Same(t)
  <2>1. /\ phase'[t] = phase[t] /\ gen'[t] = gen[t] /\ inbox'[t] = inbox[t]
        /\ sent'[t] = sent[t] /\ got'[t] = got[t] /\ buffer'[t] = buffer[t]
        /\ work'[t] = work[t] /\ serving'[t] = serving[t] /\ epc'[t] = epc[t]
        /\ results'[t] \subseteq results[t]
    BY <1>u, <1>2, <1>f DEF Others
  <2>2. (t \in ws_conns' <=> t \in ws_conns) /\ (t \in queues' <=> t \in queues)
    BY <1>u, <1>2
  <2>3. /\ <<"create", t>> \in builtins' <=> <<"create", t>> \in builtins
        /\ <<"destroy", t>> \in builtins' <=> <<"destroy", t>> \in builtins
    BY <1>u, <1>2
  <2>4. io' = io \/ (Away(t) /\ Away(t)')
    BY <1>u, <1>2
  <2>5. \A x \in cmds' : x \in cmds \/ reqs'[x].s # t
    BY <1>u, <1>2
  <2> QED
    BY <2>1, <2>2, <2>3, <2>4, <2>5 DEF Same
<1> QED
  BY <1>1, <1>2

(* HttpCloseReturns disturbs no other socket. *)
LEMMA HttpCloseReturnsFrame ==
  ASSUME WInv, Next, NEW s \in Sockets, HttpCloseReturns(s)
  PROVE  Steady /\ \A t \in Sockets : t # s => Same(t)
<1>u. /\ UNCHANGED <<phase, gen, inbox, reqs, sent, ws_conns, buffer, work, serving, builtins,
         cmds, wpc, queues, results, late, owner, signaled, got, polled>>
  BY HttpCloseReturnsDoes
<1>f. /\ Others(epc, epc', s)
  BY HttpCloseReturnsDoes
<1>i. /\ io.at = "http_close"
      /\ io.s = s
      /\ io'.at = "idle"
  BY HttpCloseReturnsDoes
<1>1. Steady
  <2>1. habits' = habits /\ Len(reqs') \in Nat /\ Len(reqs) \in Nat
    BY TypesOf, TypesAfter DEF Next, LinkTypes
  <2>2. Len(reqs') >= Len(reqs) /\ (\A i \in 1..Len(reqs) : reqs'[i] = reqs[i])
    BY <1>u, <2>1
  <2>3. io'.at \in Clearing <=> io.at \in Clearing
    BY <1>i DEF Clearing
  <2>4. (owner' = "running" <=> owner = "running") /\ late \subseteq late'
    BY <1>u
  <2> QED
    BY <2>1, <2>2, <2>3, <2>4 DEF Steady
<1>2. ASSUME NEW t \in Sockets, t # s
      PROVE  Same(t)
  <2>1. /\ phase'[t] = phase[t] /\ gen'[t] = gen[t] /\ inbox'[t] = inbox[t]
        /\ sent'[t] = sent[t] /\ got'[t] = got[t] /\ buffer'[t] = buffer[t]
        /\ work'[t] = work[t] /\ serving'[t] = serving[t] /\ epc'[t] = epc[t]
        /\ results'[t] \subseteq results[t]
    BY <1>u, <1>2, <1>f DEF Others
  <2>2. (t \in ws_conns' <=> t \in ws_conns) /\ (t \in queues' <=> t \in queues)
    BY <1>u, <1>2
  <2>3. /\ <<"create", t>> \in builtins' <=> <<"create", t>> \in builtins
        /\ <<"destroy", t>> \in builtins' <=> <<"destroy", t>> \in builtins
    BY <1>u, <1>2
  <2>4. io' = io \/ (Away(t) /\ Away(t)')
    BY <1>u, <1>2, <1>i DEF Away, IoAt, Busy, Places
  <2>5. \A x \in cmds' : x \in cmds \/ reqs'[x].s # t
    BY <1>u, <1>2
  <2> QED
    BY <2>1, <2>2, <2>3, <2>4, <2>5 DEF Same
<1> QED
  BY <1>1, <1>2

(* InterruptHandler disturbs no other socket. *)
LEMMA InterruptHandlerFrame ==
  ASSUME WInv, Next, NEW s \in Sockets, InterruptHandler(s)
  PROVE  Steady /\ \A t \in Sockets : t # s => Same(t)
<1>u. /\ UNCHANGED <<gen, inbox, reqs, sent, buffer, work, serving, epc, builtins, cmds, wpc,
         queues, results, late, owner, signaled, got, polled>>
  BY InterruptHandlerDoes
<1>f. /\ s \in ws_conns =>
           /\ UNCHANGED phase
      /\ s \notin ws_conns =>
           /\ Others(phase, phase', s)
  BY InterruptHandlerDoes
<1>i. /\ io.at = "idle"
      /\ s \in ws_conns =>
           /\ io'.at = "erase"
           /\ io'.s = s
      /\ s \notin ws_conns =>
           /\ UNCHANGED <<ws_conns, io>>
  BY InterruptHandlerDoes
<1>b. /\ s \in ws_conns =>
           /\ ws_conns' = ws_conns \ {s}
      /\ s \notin ws_conns =>
           /\ UNCHANGED <<ws_conns, io>>
  BY InterruptHandlerDoes
<1>1. Steady
  <2>1. habits' = habits /\ Len(reqs') \in Nat /\ Len(reqs) \in Nat
    BY TypesOf, TypesAfter DEF Next, LinkTypes
  <2>2. Len(reqs') >= Len(reqs) /\ (\A i \in 1..Len(reqs) : reqs'[i] = reqs[i])
    BY <1>u, <2>1
  <2>3. io'.at \in Clearing <=> io.at \in Clearing
    BY <1>i DEF Clearing
  <2>4. (owner' = "running" <=> owner = "running") /\ late \subseteq late'
    BY <1>u, <1>b
  <2> QED
    BY <2>1, <2>2, <2>3, <2>4 DEF Steady
<1>2. ASSUME NEW t \in Sockets, t # s
      PROVE  Same(t)
  <2>1. /\ phase'[t] = phase[t] /\ gen'[t] = gen[t] /\ inbox'[t] = inbox[t]
        /\ sent'[t] = sent[t] /\ got'[t] = got[t] /\ buffer'[t] = buffer[t]
        /\ work'[t] = work[t] /\ serving'[t] = serving[t] /\ epc'[t] = epc[t]
        /\ results'[t] \subseteq results[t]
    BY <1>u, <1>2, <1>f DEF Others
  <2>2. (t \in ws_conns' <=> t \in ws_conns) /\ (t \in queues' <=> t \in queues)
    BY <1>u, <1>2, <1>b
  <2>3. /\ <<"create", t>> \in builtins' <=> <<"create", t>> \in builtins
        /\ <<"destroy", t>> \in builtins' <=> <<"destroy", t>> \in builtins
    BY <1>u, <1>2, <1>b
  <2>4. io' = io \/ (Away(t) /\ Away(t)')
    BY <1>u, <1>2, <1>i DEF Away, IoAt, Busy, Places
  <2>5. \A x \in cmds' : x \in cmds \/ reqs'[x].s # t
    BY <1>u, <1>2
  <2> QED
    BY <2>1, <2>2, <2>3, <2>4, <2>5 DEF Same
<1> QED
  BY <1>1, <1>2

(* ClearTakes disturbs no other socket. *)
LEMMA ClearTakesFrame ==
  ASSUME WInv, Next, NEW s \in Sockets, ClearTakes(s)
  PROVE  Steady /\ \A t \in Sockets : t # s => Same(t)
<1>u. /\ UNCHANGED <<phase, gen, inbox, reqs, sent, buffer, work, serving, epc, posts, builtins,
         cmds, wpc, queues, results, late, owner, signaled, got, polled>>
  BY ClearTakesDoes
<1>i. /\ io.at = "clearing"
      /\ io'.at = "clear"
      /\ io'.s = s
  BY ClearTakesDoes
<1>b. /\ ws_conns' = ws_conns \ {s}
  BY ClearTakesDoes
<1>1. Steady
  <2>1. habits' = habits /\ Len(reqs') \in Nat /\ Len(reqs) \in Nat
    BY TypesOf, TypesAfter DEF Next, LinkTypes
  <2>2. Len(reqs') >= Len(reqs) /\ (\A i \in 1..Len(reqs) : reqs'[i] = reqs[i])
    BY <1>u, <2>1
  <2>3. io'.at \in Clearing <=> io.at \in Clearing
    BY <1>i DEF Clearing
  <2>4. (owner' = "running" <=> owner = "running") /\ late \subseteq late'
    BY <1>u, <1>b
  <2> QED
    BY <2>1, <2>2, <2>3, <2>4 DEF Steady
<1>2. ASSUME NEW t \in Sockets, t # s
      PROVE  Same(t)
  <2>1. /\ phase'[t] = phase[t] /\ gen'[t] = gen[t] /\ inbox'[t] = inbox[t]
        /\ sent'[t] = sent[t] /\ got'[t] = got[t] /\ buffer'[t] = buffer[t]
        /\ work'[t] = work[t] /\ serving'[t] = serving[t] /\ epc'[t] = epc[t]
        /\ results'[t] \subseteq results[t]
    BY <1>u, <1>2 DEF Others
  <2>2. (t \in ws_conns' <=> t \in ws_conns) /\ (t \in queues' <=> t \in queues)
    BY <1>u, <1>2, <1>b
  <2>3. /\ <<"create", t>> \in builtins' <=> <<"create", t>> \in builtins
        /\ <<"destroy", t>> \in builtins' <=> <<"destroy", t>> \in builtins
    BY <1>u, <1>2, <1>b
  <2>4. io' = io \/ (Away(t) /\ Away(t)')
    BY <1>u, <1>2, <1>i DEF Away, IoAt, Busy, Places
  <2>5. \A x \in cmds' : x \in cmds \/ reqs'[x].s # t
    BY <1>u, <1>2
  <2> QED
    BY <2>1, <2>2, <2>3, <2>4, <2>5 DEF Same
<1> QED
  BY <1>1, <1>2

(* ClearJoins disturbs no other socket. *)
LEMMA ClearJoinsFrame ==
  ASSUME WInv, Next, NEW s \in Sockets, ClearJoins(s)
  PROVE  Steady /\ \A t \in Sockets : t # s => Same(t)
<1>u. /\ UNCHANGED <<phase, gen, inbox, reqs, sent, ws_conns, buffer, work, serving, posts,
         builtins, cmds, wpc, queues, results, late, owner, signaled, got, polled>>
  BY ClearJoinsDoes
<1>f. /\ Others(epc, epc', s)
  BY ClearJoinsDoes
<1>i. /\ io.at = "clear_join"
      /\ io.s = s
      /\ io'.at = "clearing"
  BY ClearJoinsDoes
<1>1. Steady
  <2>1. habits' = habits /\ Len(reqs') \in Nat /\ Len(reqs) \in Nat
    BY TypesOf, TypesAfter DEF Next, LinkTypes
  <2>2. Len(reqs') >= Len(reqs) /\ (\A i \in 1..Len(reqs) : reqs'[i] = reqs[i])
    BY <1>u, <2>1
  <2>3. io'.at \in Clearing <=> io.at \in Clearing
    BY <1>i DEF Clearing
  <2>4. (owner' = "running" <=> owner = "running") /\ late \subseteq late'
    BY <1>u
  <2> QED
    BY <2>1, <2>2, <2>3, <2>4 DEF Steady
<1>2. ASSUME NEW t \in Sockets, t # s
      PROVE  Same(t)
  <2>1. /\ phase'[t] = phase[t] /\ gen'[t] = gen[t] /\ inbox'[t] = inbox[t]
        /\ sent'[t] = sent[t] /\ got'[t] = got[t] /\ buffer'[t] = buffer[t]
        /\ work'[t] = work[t] /\ serving'[t] = serving[t] /\ epc'[t] = epc[t]
        /\ results'[t] \subseteq results[t]
    BY <1>u, <1>2, <1>f DEF Others
  <2>2. (t \in ws_conns' <=> t \in ws_conns) /\ (t \in queues' <=> t \in queues)
    BY <1>u, <1>2
  <2>3. /\ <<"create", t>> \in builtins' <=> <<"create", t>> \in builtins
        /\ <<"destroy", t>> \in builtins' <=> <<"destroy", t>> \in builtins
    BY <1>u, <1>2
  <2>4. io' = io \/ (Away(t) /\ Away(t)')
    BY <1>u, <1>2, <1>i DEF Away, IoAt, Busy, Places
  <2>5. \A x \in cmds' : x \in cmds \/ reqs'[x].s # t
    BY <1>u, <1>2
  <2> QED
    BY <2>1, <2>2, <2>3, <2>4, <2>5 DEF Same
<1> QED
  BY <1>1, <1>2

(* UsesDestroyed disturbs no other socket. *)
LEMMA UsesDestroyedFrame ==
  ASSUME WInv, Next, NEW s \in Sockets, UsesDestroyed(s)
  PROVE  Steady /\ \A t \in Sockets : t # s => Same(t)
<1>u. /\ UNCHANGED <<phase, gen, inbox, reqs, sent, ws_conns, buffer, work, serving, epc, posts,
         builtins, cmds, wpc, queues, results, late, signaled, got, polled>>
  BY UsesDestroyedDoes
<1>i. /\ io.at = "idle"
      /\ io'.at = "undefined"
      /\ io'.s = s
  BY UsesDestroyedDoes
<1>b. /\ owner = "destroyed"
      /\ owner' \in {"crashed", "destroyed"}
  BY UsesDestroyedDoes
<1>1. Steady
  <2>1. habits' = habits /\ Len(reqs') \in Nat /\ Len(reqs) \in Nat
    BY TypesOf, TypesAfter DEF Next, LinkTypes
  <2>2. Len(reqs') >= Len(reqs) /\ (\A i \in 1..Len(reqs) : reqs'[i] = reqs[i])
    BY <1>u, <2>1
  <2>3. io'.at \in Clearing <=> io.at \in Clearing
    BY <1>i DEF Clearing
  <2>4. (owner' = "running" <=> owner = "running") /\ late \subseteq late'
    BY <1>u, <1>b
  <2> QED
    BY <2>1, <2>2, <2>3, <2>4 DEF Steady
<1>2. ASSUME NEW t \in Sockets, t # s
      PROVE  Same(t)
  <2>1. /\ phase'[t] = phase[t] /\ gen'[t] = gen[t] /\ inbox'[t] = inbox[t]
        /\ sent'[t] = sent[t] /\ got'[t] = got[t] /\ buffer'[t] = buffer[t]
        /\ work'[t] = work[t] /\ serving'[t] = serving[t] /\ epc'[t] = epc[t]
        /\ results'[t] \subseteq results[t]
    BY <1>u, <1>2 DEF Others
  <2>2. (t \in ws_conns' <=> t \in ws_conns) /\ (t \in queues' <=> t \in queues)
    BY <1>u, <1>2, <1>b
  <2>3. /\ <<"create", t>> \in builtins' <=> <<"create", t>> \in builtins
        /\ <<"destroy", t>> \in builtins' <=> <<"destroy", t>> \in builtins
    BY <1>u, <1>2, <1>b
  <2>4. io' = io \/ (Away(t) /\ Away(t)')
    BY <1>u, <1>2, <1>i DEF Away, IoAt, Busy, Places
  <2>5. \A x \in cmds' : x \in cmds \/ reqs'[x].s # t
    BY <1>u, <1>2
  <2> QED
    BY <2>1, <2>2, <2>3, <2>4, <2>5 DEF Same
<1> QED
  BY <1>1, <1>2

(* ExecutorServes disturbs no other socket. *)
LEMMA ExecutorServesFrame ==
  ASSUME WInv, Next, NEW s \in Sockets, ExecutorServes(s)
  PROVE  Steady /\ \A t \in Sockets : t # s => Same(t)
<1>u. /\ UNCHANGED <<phase, gen, inbox, reqs, sent, ws_conns, buffer, serving, io, builtins,
         wpc, queues, late, owner, got>>
  BY ExecutorServesDoes
<1>f. /\ Others(work, work', s)
      /\ Others(epc, epc', s)
      /\ \A t \in Sockets : results'[t] \subseteq results[t]
  BY ExecutorServesDoes
<1>b. /\ cmds' = IF reqs[buffer[s]].kind \in {"run", "state", "block"} THEN cmds \cup
         {buffer[s]} ELSE cmds
  BY ExecutorServesDoes
<1>q. reqs'[buffer[s]].s = s
  <2>1. epc[s] = "idle" /\ Len(work[s]) > 0 /\ work[s][1] = "work"
    BY ExecutorServesDoes
  <2>2. Len(work[s]) \in Nat
    BY TypesOf, SizesOf DEF Sizes
  <2>3. BufferInv(s) /\ MailInv(s)
    BY DEF WInv, SocketInv
  <2>4. buffer[s] # 0
    BY <2>1, <2>2, <2>3 DEF BufferInv, NoWork
  <2>5. PICK j \in 1..Len(sent[s]) : buffer[s] = sent[s][j]
    BY <2>1, <2>3, <2>4 DEF BufferInv
  <2> QED
    BY <1>u, <2>3, <2>5 DEF MailInv
<1>1. Steady
  <2>1. habits' = habits /\ Len(reqs') \in Nat /\ Len(reqs) \in Nat
    BY TypesOf, TypesAfter DEF Next, LinkTypes
  <2>2. Len(reqs') >= Len(reqs) /\ (\A i \in 1..Len(reqs) : reqs'[i] = reqs[i])
    BY <1>u, <2>1
  <2>3. io'.at \in Clearing <=> io.at \in Clearing
    BY <1>u
  <2>4. (owner' = "running" <=> owner = "running") /\ late \subseteq late'
    BY <1>u, <1>b
  <2> QED
    BY <2>1, <2>2, <2>3, <2>4 DEF Steady
<1>2. ASSUME NEW t \in Sockets, t # s
      PROVE  Same(t)
  <2>1. /\ phase'[t] = phase[t] /\ gen'[t] = gen[t] /\ inbox'[t] = inbox[t]
        /\ sent'[t] = sent[t] /\ got'[t] = got[t] /\ buffer'[t] = buffer[t]
        /\ work'[t] = work[t] /\ serving'[t] = serving[t] /\ epc'[t] = epc[t]
        /\ results'[t] \subseteq results[t]
    BY <1>u, <1>2, <1>f DEF Others
  <2>2. (t \in ws_conns' <=> t \in ws_conns) /\ (t \in queues' <=> t \in queues)
    BY <1>u, <1>2, <1>b
  <2>3. /\ <<"create", t>> \in builtins' <=> <<"create", t>> \in builtins
        /\ <<"destroy", t>> \in builtins' <=> <<"destroy", t>> \in builtins
    BY <1>u, <1>2, <1>b
  <2>4. io' = io \/ (Away(t) /\ Away(t)')
    BY <1>u, <1>2
  <2>5. \A x \in cmds' : x \in cmds \/ reqs'[x].s # t
    BY <1>u, <1>2, <1>b, <1>q
  <2> QED
    BY <2>1, <2>2, <2>3, <2>4, <2>5 DEF Same
<1> QED
  BY <1>1, <1>2

(* ExecutorBlocks disturbs no other socket. *)
LEMMA ExecutorBlocksFrame ==
  ASSUME WInv, Next, NEW s \in Sockets, ExecutorBlocks(s)
  PROVE  Steady /\ \A t \in Sockets : t # s => Same(t)
<1>u. /\ UNCHANGED <<phase, gen, inbox, reqs, sent, ws_conns, buffer, posts, io, builtins, wpc,
         queues, results, late, owner, signaled, got, polled>>
  BY ExecutorBlocksDoes
<1>f. /\ Others(work, work', s)
      /\ Others(epc, epc', s)
      /\ Others(serving, serving', s)
  BY ExecutorBlocksDoes
<1>b. /\ cmds' = IF reqs[buffer[s]].kind \in {"run", "state", "block"} THEN cmds \cup
         {buffer[s]} ELSE cmds
  BY ExecutorBlocksDoes
<1>q. reqs'[buffer[s]].s = s
  <2>1. epc[s] = "idle" /\ Len(work[s]) > 0 /\ work[s][1] = "work"
    BY ExecutorBlocksDoes
  <2>2. Len(work[s]) \in Nat
    BY TypesOf, SizesOf DEF Sizes
  <2>3. BufferInv(s) /\ MailInv(s)
    BY DEF WInv, SocketInv
  <2>4. buffer[s] # 0
    BY <2>1, <2>2, <2>3 DEF BufferInv, NoWork
  <2>5. PICK j \in 1..Len(sent[s]) : buffer[s] = sent[s][j]
    BY <2>1, <2>3, <2>4 DEF BufferInv
  <2> QED
    BY <1>u, <2>3, <2>5 DEF MailInv
<1>1. Steady
  <2>1. habits' = habits /\ Len(reqs') \in Nat /\ Len(reqs) \in Nat
    BY TypesOf, TypesAfter DEF Next, LinkTypes
  <2>2. Len(reqs') >= Len(reqs) /\ (\A i \in 1..Len(reqs) : reqs'[i] = reqs[i])
    BY <1>u, <2>1
  <2>3. io'.at \in Clearing <=> io.at \in Clearing
    BY <1>u
  <2>4. (owner' = "running" <=> owner = "running") /\ late \subseteq late'
    BY <1>u, <1>b
  <2> QED
    BY <2>1, <2>2, <2>3, <2>4 DEF Steady
<1>2. ASSUME NEW t \in Sockets, t # s
      PROVE  Same(t)
  <2>1. /\ phase'[t] = phase[t] /\ gen'[t] = gen[t] /\ inbox'[t] = inbox[t]
        /\ sent'[t] = sent[t] /\ got'[t] = got[t] /\ buffer'[t] = buffer[t]
        /\ work'[t] = work[t] /\ serving'[t] = serving[t] /\ epc'[t] = epc[t]
        /\ results'[t] \subseteq results[t]
    BY <1>u, <1>2, <1>f DEF Others
  <2>2. (t \in ws_conns' <=> t \in ws_conns) /\ (t \in queues' <=> t \in queues)
    BY <1>u, <1>2, <1>b
  <2>3. /\ <<"create", t>> \in builtins' <=> <<"create", t>> \in builtins
        /\ <<"destroy", t>> \in builtins' <=> <<"destroy", t>> \in builtins
    BY <1>u, <1>2, <1>b
  <2>4. io' = io \/ (Away(t) /\ Away(t)')
    BY <1>u, <1>2
  <2>5. \A x \in cmds' : x \in cmds \/ reqs'[x].s # t
    BY <1>u, <1>2, <1>b, <1>q
  <2> QED
    BY <2>1, <2>2, <2>3, <2>4, <2>5 DEF Same
<1> QED
  BY <1>1, <1>2

(* ExecutorFlushes disturbs no other socket. *)
LEMMA ExecutorFlushesFrame ==
  ASSUME WInv, Next, NEW s \in Sockets, ExecutorFlushes(s)
  PROVE  Steady /\ \A t \in Sockets : t # s => Same(t)
<1>u. /\ UNCHANGED <<phase, gen, inbox, reqs, sent, ws_conns, buffer, work, serving, io,
         builtins, cmds, wpc, queues, late, owner, signaled, got>>
  BY ExecutorFlushesDoes
<1>f. /\ Others(epc, epc', s)
      /\ \A t \in Sockets : results'[t] \subseteq results[t]
  BY ExecutorFlushesDoes
<1>1. Steady
  <2>1. habits' = habits /\ Len(reqs') \in Nat /\ Len(reqs) \in Nat
    BY TypesOf, TypesAfter DEF Next, LinkTypes
  <2>2. Len(reqs') >= Len(reqs) /\ (\A i \in 1..Len(reqs) : reqs'[i] = reqs[i])
    BY <1>u, <2>1
  <2>3. io'.at \in Clearing <=> io.at \in Clearing
    BY <1>u
  <2>4. (owner' = "running" <=> owner = "running") /\ late \subseteq late'
    BY <1>u
  <2> QED
    BY <2>1, <2>2, <2>3, <2>4 DEF Steady
<1>2. ASSUME NEW t \in Sockets, t # s
      PROVE  Same(t)
  <2>1. /\ phase'[t] = phase[t] /\ gen'[t] = gen[t] /\ inbox'[t] = inbox[t]
        /\ sent'[t] = sent[t] /\ got'[t] = got[t] /\ buffer'[t] = buffer[t]
        /\ work'[t] = work[t] /\ serving'[t] = serving[t] /\ epc'[t] = epc[t]
        /\ results'[t] \subseteq results[t]
    BY <1>u, <1>2, <1>f DEF Others
  <2>2. (t \in ws_conns' <=> t \in ws_conns) /\ (t \in queues' <=> t \in queues)
    BY <1>u, <1>2
  <2>3. /\ <<"create", t>> \in builtins' <=> <<"create", t>> \in builtins
        /\ <<"destroy", t>> \in builtins' <=> <<"destroy", t>> \in builtins
    BY <1>u, <1>2
  <2>4. io' = io \/ (Away(t) /\ Away(t)')
    BY <1>u, <1>2
  <2>5. \A x \in cmds' : x \in cmds \/ reqs'[x].s # t
    BY <1>u, <1>2
  <2> QED
    BY <2>1, <2>2, <2>3, <2>4, <2>5 DEF Same
<1> QED
  BY <1>1, <1>2

(* ExecutorTimesOut disturbs no other socket. *)
LEMMA ExecutorTimesOutFrame ==
  ASSUME WInv, Next, NEW s \in Sockets, ExecutorTimesOut(s)
  PROVE  Steady /\ \A t \in Sockets : t # s => Same(t)
<1>u. /\ UNCHANGED <<phase, gen, inbox, reqs, sent, ws_conns, buffer, work, serving, posts, io,
         builtins, cmds, wpc, queues, results, late, owner, signaled, got, polled>>
  BY ExecutorTimesOutDoes
<1>f. /\ Others(epc, epc', s)
  BY ExecutorTimesOutDoes
<1>1. Steady
  <2>1. habits' = habits /\ Len(reqs') \in Nat /\ Len(reqs) \in Nat
    BY TypesOf, TypesAfter DEF Next, LinkTypes
  <2>2. Len(reqs') >= Len(reqs) /\ (\A i \in 1..Len(reqs) : reqs'[i] = reqs[i])
    BY <1>u, <2>1
  <2>3. io'.at \in Clearing <=> io.at \in Clearing
    BY <1>u
  <2>4. (owner' = "running" <=> owner = "running") /\ late \subseteq late'
    BY <1>u
  <2> QED
    BY <2>1, <2>2, <2>3, <2>4 DEF Steady
<1>2. ASSUME NEW t \in Sockets, t # s
      PROVE  Same(t)
  <2>1. /\ phase'[t] = phase[t] /\ gen'[t] = gen[t] /\ inbox'[t] = inbox[t]
        /\ sent'[t] = sent[t] /\ got'[t] = got[t] /\ buffer'[t] = buffer[t]
        /\ work'[t] = work[t] /\ serving'[t] = serving[t] /\ epc'[t] = epc[t]
        /\ results'[t] \subseteq results[t]
    BY <1>u, <1>2, <1>f DEF Others
  <2>2. (t \in ws_conns' <=> t \in ws_conns) /\ (t \in queues' <=> t \in queues)
    BY <1>u, <1>2
  <2>3. /\ <<"create", t>> \in builtins' <=> <<"create", t>> \in builtins
        /\ <<"destroy", t>> \in builtins' <=> <<"destroy", t>> \in builtins
    BY <1>u, <1>2
  <2>4. io' = io \/ (Away(t) /\ Away(t)')
    BY <1>u, <1>2
  <2>5. \A x \in cmds' : x \in cmds \/ reqs'[x].s # t
    BY <1>u, <1>2
  <2> QED
    BY <2>1, <2>2, <2>3, <2>4, <2>5 DEF Same
<1> QED
  BY <1>1, <1>2

(* ExecutorEnds disturbs no other socket. *)
LEMMA ExecutorEndsFrame ==
  ASSUME WInv, Next, NEW s \in Sockets, ExecutorEnds(s)
  PROVE  Steady /\ \A t \in Sockets : t # s => Same(t)
<1>u. /\ UNCHANGED <<phase, gen, inbox, reqs, sent, ws_conns, buffer, work, serving, posts, io,
         builtins, cmds, wpc, queues, results, late, owner, signaled, got, polled>>
  BY ExecutorEndsDoes
<1>f. /\ Others(epc, epc', s)
  BY ExecutorEndsDoes
<1>1. Steady
  <2>1. habits' = habits /\ Len(reqs') \in Nat /\ Len(reqs) \in Nat
    BY TypesOf, TypesAfter DEF Next, LinkTypes
  <2>2. Len(reqs') >= Len(reqs) /\ (\A i \in 1..Len(reqs) : reqs'[i] = reqs[i])
    BY <1>u, <2>1
  <2>3. io'.at \in Clearing <=> io.at \in Clearing
    BY <1>u
  <2>4. (owner' = "running" <=> owner = "running") /\ late \subseteq late'
    BY <1>u
  <2> QED
    BY <2>1, <2>2, <2>3, <2>4 DEF Steady
<1>2. ASSUME NEW t \in Sockets, t # s
      PROVE  Same(t)
  <2>1. /\ phase'[t] = phase[t] /\ gen'[t] = gen[t] /\ inbox'[t] = inbox[t]
        /\ sent'[t] = sent[t] /\ got'[t] = got[t] /\ buffer'[t] = buffer[t]
        /\ work'[t] = work[t] /\ serving'[t] = serving[t] /\ epc'[t] = epc[t]
        /\ results'[t] \subseteq results[t]
    BY <1>u, <1>2, <1>f DEF Others
  <2>2. (t \in ws_conns' <=> t \in ws_conns) /\ (t \in queues' <=> t \in queues)
    BY <1>u, <1>2
  <2>3. /\ <<"create", t>> \in builtins' <=> <<"create", t>> \in builtins
        /\ <<"destroy", t>> \in builtins' <=> <<"destroy", t>> \in builtins
    BY <1>u, <1>2
  <2>4. io' = io \/ (Away(t) /\ Away(t)')
    BY <1>u, <1>2
  <2>5. \A x \in cmds' : x \in cmds \/ reqs'[x].s # t
    BY <1>u, <1>2
  <2> QED
    BY <2>1, <2>2, <2>3, <2>4, <2>5 DEF Same
<1> QED
  BY <1>1, <1>2

(* WorkerCreatesQueue disturbs no other socket. *)
LEMMA WorkerCreatesQueueFrame ==
  ASSUME WInv, Next, NEW s \in Sockets, WorkerCreatesQueue(s)
  PROVE  Steady /\ \A t \in Sockets : t # s => Same(t)
<1>u. /\ UNCHANGED <<phase, gen, inbox, reqs, sent, ws_conns, buffer, work, serving, epc, posts,
         io, cmds, wpc, results, late, owner, signaled, got, polled>>
  BY WorkerCreatesQueueDoes
<1>b. /\ builtins' = builtins \ {<<"create", s>>}
      /\ queues' = queues \cup {s}
  BY WorkerCreatesQueueDoes
<1>1. Steady
  <2>1. habits' = habits /\ Len(reqs') \in Nat /\ Len(reqs) \in Nat
    BY TypesOf, TypesAfter DEF Next, LinkTypes
  <2>2. Len(reqs') >= Len(reqs) /\ (\A i \in 1..Len(reqs) : reqs'[i] = reqs[i])
    BY <1>u, <2>1
  <2>3. io'.at \in Clearing <=> io.at \in Clearing
    BY <1>u
  <2>4. (owner' = "running" <=> owner = "running") /\ late \subseteq late'
    BY <1>u, <1>b
  <2> QED
    BY <2>1, <2>2, <2>3, <2>4 DEF Steady
<1>2. ASSUME NEW t \in Sockets, t # s
      PROVE  Same(t)
  <2>1. /\ phase'[t] = phase[t] /\ gen'[t] = gen[t] /\ inbox'[t] = inbox[t]
        /\ sent'[t] = sent[t] /\ got'[t] = got[t] /\ buffer'[t] = buffer[t]
        /\ work'[t] = work[t] /\ serving'[t] = serving[t] /\ epc'[t] = epc[t]
        /\ results'[t] \subseteq results[t]
    BY <1>u, <1>2 DEF Others
  <2>2. (t \in ws_conns' <=> t \in ws_conns) /\ (t \in queues' <=> t \in queues)
    BY <1>u, <1>2, <1>b
  <2>3. /\ <<"create", t>> \in builtins' <=> <<"create", t>> \in builtins
        /\ <<"destroy", t>> \in builtins' <=> <<"destroy", t>> \in builtins
    BY <1>u, <1>2, <1>b
  <2>4. io' = io \/ (Away(t) /\ Away(t)')
    BY <1>u, <1>2
  <2>5. \A x \in cmds' : x \in cmds \/ reqs'[x].s # t
    BY <1>u, <1>2
  <2> QED
    BY <2>1, <2>2, <2>3, <2>4, <2>5 DEF Same
<1> QED
  BY <1>1, <1>2

(* WorkerDestroysQueue disturbs no other socket. *)
LEMMA WorkerDestroysQueueFrame ==
  ASSUME WInv, Next, NEW s \in Sockets, WorkerDestroysQueue(s)
  PROVE  Steady /\ \A t \in Sockets : t # s => Same(t)
<1>u. /\ UNCHANGED <<phase, gen, inbox, reqs, sent, ws_conns, buffer, work, serving, epc, posts,
         io, cmds, wpc, owner, signaled, got, polled>>
  BY WorkerDestroysQueueDoes
<1>f. /\ Others(results, results', s)
  BY WorkerDestroysQueueDoes
<1>b. /\ builtins' = builtins \ {<<"destroy", s>>}
      /\ queues' = queues \ {s}
      /\ late' = late \cup {c \in cmds : reqs[c].s = s}
  BY WorkerDestroysQueueDoes
<1>1. Steady
  <2>1. habits' = habits /\ Len(reqs') \in Nat /\ Len(reqs) \in Nat
    BY TypesOf, TypesAfter DEF Next, LinkTypes
  <2>2. Len(reqs') >= Len(reqs) /\ (\A i \in 1..Len(reqs) : reqs'[i] = reqs[i])
    BY <1>u, <2>1
  <2>3. io'.at \in Clearing <=> io.at \in Clearing
    BY <1>u
  <2>4. (owner' = "running" <=> owner = "running") /\ late \subseteq late'
    BY <1>u, <1>b
  <2> QED
    BY <2>1, <2>2, <2>3, <2>4 DEF Steady
<1>2. ASSUME NEW t \in Sockets, t # s
      PROVE  Same(t)
  <2>1. /\ phase'[t] = phase[t] /\ gen'[t] = gen[t] /\ inbox'[t] = inbox[t]
        /\ sent'[t] = sent[t] /\ got'[t] = got[t] /\ buffer'[t] = buffer[t]
        /\ work'[t] = work[t] /\ serving'[t] = serving[t] /\ epc'[t] = epc[t]
        /\ results'[t] \subseteq results[t]
    BY <1>u, <1>2, <1>f DEF Others
  <2>2. (t \in ws_conns' <=> t \in ws_conns) /\ (t \in queues' <=> t \in queues)
    BY <1>u, <1>2, <1>b
  <2>3. /\ <<"create", t>> \in builtins' <=> <<"create", t>> \in builtins
        /\ <<"destroy", t>> \in builtins' <=> <<"destroy", t>> \in builtins
    BY <1>u, <1>2, <1>b
  <2>4. io' = io \/ (Away(t) /\ Away(t)')
    BY <1>u, <1>2
  <2>5. \A x \in cmds' : x \in cmds \/ reqs'[x].s # t
    BY <1>u, <1>2
  <2> QED
    BY <2>1, <2>2, <2>3, <2>4, <2>5 DEF Same
<1> QED
  BY <1>1, <1>2

(* ClientConnects disturbs no other socket. *)
LEMMA ClientConnectsFrame ==
  ASSUME WInv, Next, NEW s \in Sockets, ClientConnects(s)
  PROVE  Steady /\ \A t \in Sockets : t # s => Same(t)
<1>u. /\ UNCHANGED <<ws_conns, buffer, work, serving, epc, posts, io, builtins, cmds, wpc,
         queues, results, late, owner, signaled, polled>>
  BY ClientConnectsDoes
<1>f. /\ Others(phase, phase', s)
      /\ Others(gen, gen', s)
      /\ Others(got, got', s)
      /\ Others(inbox, inbox', s)
      /\ Others(sent, sent', s)
  BY ClientConnectsDoes
<1>r. Len(reqs') >= Len(reqs) /\ \A i \in 1..Len(reqs) : reqs'[i] = reqs[i]
  <2>1. reqs' = reqs \/ \E r : Appended(reqs, reqs', r)
    BY ClientConnectsDoes
  <2>2. Len(reqs) \in Nat
    BY TypesOf DEF LinkTypes
  <2> QED
    BY <2>1, <2>2 DEF Appended
<1>1. Steady
  <2>1. habits' = habits /\ Len(reqs') \in Nat /\ Len(reqs) \in Nat
    BY TypesOf, TypesAfter DEF Next, LinkTypes
  <2>2. Len(reqs') >= Len(reqs) /\ (\A i \in 1..Len(reqs) : reqs'[i] = reqs[i])
    BY <1>r
  <2>3. io'.at \in Clearing <=> io.at \in Clearing
    BY <1>u
  <2>4. (owner' = "running" <=> owner = "running") /\ late \subseteq late'
    BY <1>u
  <2> QED
    BY <2>1, <2>2, <2>3, <2>4 DEF Steady
<1>2. ASSUME NEW t \in Sockets, t # s
      PROVE  Same(t)
  <2>1. /\ phase'[t] = phase[t] /\ gen'[t] = gen[t] /\ inbox'[t] = inbox[t]
        /\ sent'[t] = sent[t] /\ got'[t] = got[t] /\ buffer'[t] = buffer[t]
        /\ work'[t] = work[t] /\ serving'[t] = serving[t] /\ epc'[t] = epc[t]
        /\ results'[t] \subseteq results[t]
    BY <1>u, <1>2, <1>f DEF Others
  <2>2. (t \in ws_conns' <=> t \in ws_conns) /\ (t \in queues' <=> t \in queues)
    BY <1>u, <1>2
  <2>3. /\ <<"create", t>> \in builtins' <=> <<"create", t>> \in builtins
        /\ <<"destroy", t>> \in builtins' <=> <<"destroy", t>> \in builtins
    BY <1>u, <1>2
  <2>4. io' = io \/ (Away(t) /\ Away(t)')
    BY <1>u, <1>2
  <2>5. \A x \in cmds' : x \in cmds \/ reqs'[x].s # t
    BY <1>u, <1>2
  <2> QED
    BY <2>1, <2>2, <2>3, <2>4, <2>5 DEF Same
<1> QED
  BY <1>1, <1>2

(* ClientCloses disturbs no other socket. *)
LEMMA ClientClosesFrame ==
  ASSUME WInv, Next, NEW s \in Sockets, ClientCloses(s)
  PROVE  Steady /\ \A t \in Sockets : t # s => Same(t)
<1>u. /\ UNCHANGED <<phase, gen, reqs, sent, ws_conns, buffer, work, serving, epc, posts, io,
         builtins, cmds, wpc, queues, results, late, owner, signaled, got, polled>>
  BY ClientClosesDoes
<1>f. /\ Others(inbox, inbox', s)
  BY ClientClosesDoes
<1>1. Steady
  <2>1. habits' = habits /\ Len(reqs') \in Nat /\ Len(reqs) \in Nat
    BY TypesOf, TypesAfter DEF Next, LinkTypes
  <2>2. Len(reqs') >= Len(reqs) /\ (\A i \in 1..Len(reqs) : reqs'[i] = reqs[i])
    BY <1>u, <2>1
  <2>3. io'.at \in Clearing <=> io.at \in Clearing
    BY <1>u
  <2>4. (owner' = "running" <=> owner = "running") /\ late \subseteq late'
    BY <1>u
  <2> QED
    BY <2>1, <2>2, <2>3, <2>4 DEF Steady
<1>2. ASSUME NEW t \in Sockets, t # s
      PROVE  Same(t)
  <2>1. /\ phase'[t] = phase[t] /\ gen'[t] = gen[t] /\ inbox'[t] = inbox[t]
        /\ sent'[t] = sent[t] /\ got'[t] = got[t] /\ buffer'[t] = buffer[t]
        /\ work'[t] = work[t] /\ serving'[t] = serving[t] /\ epc'[t] = epc[t]
        /\ results'[t] \subseteq results[t]
    BY <1>u, <1>2, <1>f DEF Others
  <2>2. (t \in ws_conns' <=> t \in ws_conns) /\ (t \in queues' <=> t \in queues)
    BY <1>u, <1>2
  <2>3. /\ <<"create", t>> \in builtins' <=> <<"create", t>> \in builtins
        /\ <<"destroy", t>> \in builtins' <=> <<"destroy", t>> \in builtins
    BY <1>u, <1>2
  <2>4. io' = io \/ (Away(t) /\ Away(t)')
    BY <1>u, <1>2
  <2>5. \A x \in cmds' : x \in cmds \/ reqs'[x].s # t
    BY <1>u, <1>2
  <2> QED
    BY <2>1, <2>2, <2>3, <2>4, <2>5 DEF Same
<1> QED
  BY <1>1, <1>2

(* ClientSends disturbs no other socket. *)
LEMMA ClientSendsFrame ==
  ASSUME WInv, Next, NEW s \in Sockets, NEW k \in Kinds, NEW q \in Names(s, k), ClientSends(s, k, q)
  PROVE  Steady /\ \A t \in Sockets : t # s => Same(t)
<1>u. /\ UNCHANGED <<phase, gen, ws_conns, buffer, work, serving, epc, posts, io, builtins,
         cmds, wpc, queues, results, late, owner, signaled, got, polled>>
  BY ClientSendsDoes
<1>f. /\ Others(inbox, inbox', s)
      /\ Others(sent, sent', s)
  BY ClientSendsDoes
<1>r. Len(reqs') >= Len(reqs) /\ \A i \in 1..Len(reqs) : reqs'[i] = reqs[i]
  <2>1. reqs' = reqs \/ \E r : Appended(reqs, reqs', r)
    BY ClientSendsDoes
  <2>2. Len(reqs) \in Nat
    BY TypesOf DEF LinkTypes
  <2> QED
    BY <2>1, <2>2 DEF Appended
<1>1. Steady
  <2>1. habits' = habits /\ Len(reqs') \in Nat /\ Len(reqs) \in Nat
    BY TypesOf, TypesAfter DEF Next, LinkTypes
  <2>2. Len(reqs') >= Len(reqs) /\ (\A i \in 1..Len(reqs) : reqs'[i] = reqs[i])
    BY <1>r
  <2>3. io'.at \in Clearing <=> io.at \in Clearing
    BY <1>u
  <2>4. (owner' = "running" <=> owner = "running") /\ late \subseteq late'
    BY <1>u
  <2> QED
    BY <2>1, <2>2, <2>3, <2>4 DEF Steady
<1>2. ASSUME NEW t \in Sockets, t # s
      PROVE  Same(t)
  <2>1. /\ phase'[t] = phase[t] /\ gen'[t] = gen[t] /\ inbox'[t] = inbox[t]
        /\ sent'[t] = sent[t] /\ got'[t] = got[t] /\ buffer'[t] = buffer[t]
        /\ work'[t] = work[t] /\ serving'[t] = serving[t] /\ epc'[t] = epc[t]
        /\ results'[t] \subseteq results[t]
    BY <1>u, <1>2, <1>f DEF Others
  <2>2. (t \in ws_conns' <=> t \in ws_conns) /\ (t \in queues' <=> t \in queues)
    BY <1>u, <1>2
  <2>3. /\ <<"create", t>> \in builtins' <=> <<"create", t>> \in builtins
        /\ <<"destroy", t>> \in builtins' <=> <<"destroy", t>> \in builtins
    BY <1>u, <1>2
  <2>4. io' = io \/ (Away(t) /\ Away(t)')
    BY <1>u, <1>2
  <2>5. \A x \in cmds' : x \in cmds \/ reqs'[x].s # t
    BY <1>u, <1>2
  <2> QED
    BY <2>1, <2>2, <2>3, <2>4, <2>5 DEF Same
<1> QED
  BY <1>1, <1>2

(* PostReadsState disturbs no socket. *)
LEMMA PostReadsStateFrame ==
  ASSUME WInv, Next, PostReadsState
  PROVE  Steady /\ \A t \in Sockets : Same(t)
<1>u. /\ UNCHANGED <<phase, gen, inbox, reqs, sent, ws_conns, buffer, work, serving, epc, io,
         builtins, cmds, queues, results, late, owner, signaled, got, polled>>
  BY PostReadsStateDoes
<1>1. Steady
  <2>1. habits' = habits /\ Len(reqs') \in Nat /\ Len(reqs) \in Nat
    BY TypesOf, TypesAfter DEF Next, LinkTypes
  <2>2. Len(reqs') >= Len(reqs) /\ (\A i \in 1..Len(reqs) : reqs'[i] = reqs[i])
    BY <1>u, <2>1
  <2>3. io'.at \in Clearing <=> io.at \in Clearing
    BY <1>u
  <2>4. (owner' = "running" <=> owner = "running") /\ late \subseteq late'
    BY <1>u
  <2> QED
    BY <2>1, <2>2, <2>3, <2>4 DEF Steady
<1>2. ASSUME NEW t \in Sockets
      PROVE  Same(t)
  <2>1. /\ phase'[t] = phase[t] /\ gen'[t] = gen[t] /\ inbox'[t] = inbox[t]
        /\ sent'[t] = sent[t] /\ got'[t] = got[t] /\ buffer'[t] = buffer[t]
        /\ work'[t] = work[t] /\ serving'[t] = serving[t] /\ epc'[t] = epc[t]
        /\ results'[t] \subseteq results[t]
    BY <1>u, <1>2 DEF Others
  <2>2. (t \in ws_conns' <=> t \in ws_conns) /\ (t \in queues' <=> t \in queues)
    BY <1>u, <1>2
  <2>3. /\ <<"create", t>> \in builtins' <=> <<"create", t>> \in builtins
        /\ <<"destroy", t>> \in builtins' <=> <<"destroy", t>> \in builtins
    BY <1>u, <1>2
  <2>4. io' = io \/ (Away(t) /\ Away(t)')
    BY <1>u, <1>2
  <2>5. \A x \in cmds' : x \in cmds \/ reqs'[x].s # t
    BY <1>u, <1>2
  <2> QED
    BY <2>1, <2>2, <2>3, <2>4, <2>5 DEF Same
<1> QED
  BY <1>1, <1>2

(* WorkerShutsDown disturbs no socket. *)
LEMMA WorkerShutsDownFrame ==
  ASSUME WInv, Next, WorkerShutsDown
  PROVE  Steady /\ \A t \in Sockets : Same(t)
<1>u. /\ UNCHANGED <<phase, gen, inbox, reqs, sent, ws_conns, buffer, work, serving, epc, posts,
         io, cmds, queues, results, late, owner, signaled, got, polled>>
  BY WorkerShutsDownDoes
<1>b. /\ builtins = {<<"shutdown", 0>>}
      /\ builtins' = {}
  BY WorkerShutsDownDoes
<1>1. Steady
  <2>1. habits' = habits /\ Len(reqs') \in Nat /\ Len(reqs) \in Nat
    BY TypesOf, TypesAfter DEF Next, LinkTypes
  <2>2. Len(reqs') >= Len(reqs) /\ (\A i \in 1..Len(reqs) : reqs'[i] = reqs[i])
    BY <1>u, <2>1
  <2>3. io'.at \in Clearing <=> io.at \in Clearing
    BY <1>u
  <2>4. (owner' = "running" <=> owner = "running") /\ late \subseteq late'
    BY <1>u, <1>b
  <2> QED
    BY <2>1, <2>2, <2>3, <2>4 DEF Steady
<1>2. ASSUME NEW t \in Sockets
      PROVE  Same(t)
  <2>1. /\ phase'[t] = phase[t] /\ gen'[t] = gen[t] /\ inbox'[t] = inbox[t]
        /\ sent'[t] = sent[t] /\ got'[t] = got[t] /\ buffer'[t] = buffer[t]
        /\ work'[t] = work[t] /\ serving'[t] = serving[t] /\ epc'[t] = epc[t]
        /\ results'[t] \subseteq results[t]
    BY <1>u, <1>2 DEF Others
  <2>2. (t \in ws_conns' <=> t \in ws_conns) /\ (t \in queues' <=> t \in queues)
    BY <1>u, <1>2, <1>b
  <2>3. /\ <<"create", t>> \in builtins' <=> <<"create", t>> \in builtins
        /\ <<"destroy", t>> \in builtins' <=> <<"destroy", t>> \in builtins
    BY <1>u, <1>2, <1>b
  <2>4. io' = io \/ (Away(t) /\ Away(t)')
    BY <1>u, <1>2
  <2>5. \A x \in cmds' : x \in cmds \/ reqs'[x].s # t
    BY <1>u, <1>2
  <2> QED
    BY <2>1, <2>2, <2>3, <2>4, <2>5 DEF Same
<1> QED
  BY <1>1, <1>2

(* WorkerAsksState disturbs no socket. *)
LEMMA WorkerAsksStateFrame ==
  ASSUME WInv, Next, NEW c \in cmds, WorkerAsksState(c)
  PROVE  Steady /\ \A t \in Sockets : Same(t)
<1>u. /\ UNCHANGED <<phase, gen, inbox, reqs, sent, ws_conns, buffer, work, serving, epc, io,
         builtins, cmds, queues, results, late, owner, signaled, got, polled>>
  BY WorkerAsksStateDoes
<1>1. Steady
  <2>1. habits' = habits /\ Len(reqs') \in Nat /\ Len(reqs) \in Nat
    BY TypesOf, TypesAfter DEF Next, LinkTypes
  <2>2. Len(reqs') >= Len(reqs) /\ (\A i \in 1..Len(reqs) : reqs'[i] = reqs[i])
    BY <1>u, <2>1
  <2>3. io'.at \in Clearing <=> io.at \in Clearing
    BY <1>u
  <2>4. (owner' = "running" <=> owner = "running") /\ late \subseteq late'
    BY <1>u
  <2> QED
    BY <2>1, <2>2, <2>3, <2>4 DEF Steady
<1>2. ASSUME NEW t \in Sockets
      PROVE  Same(t)
  <2>1. /\ phase'[t] = phase[t] /\ gen'[t] = gen[t] /\ inbox'[t] = inbox[t]
        /\ sent'[t] = sent[t] /\ got'[t] = got[t] /\ buffer'[t] = buffer[t]
        /\ work'[t] = work[t] /\ serving'[t] = serving[t] /\ epc'[t] = epc[t]
        /\ results'[t] \subseteq results[t]
    BY <1>u, <1>2 DEF Others
  <2>2. (t \in ws_conns' <=> t \in ws_conns) /\ (t \in queues' <=> t \in queues)
    BY <1>u, <1>2
  <2>3. /\ <<"create", t>> \in builtins' <=> <<"create", t>> \in builtins
        /\ <<"destroy", t>> \in builtins' <=> <<"destroy", t>> \in builtins
    BY <1>u, <1>2
  <2>4. io' = io \/ (Away(t) /\ Away(t)')
    BY <1>u, <1>2
  <2>5. \A x \in cmds' : x \in cmds \/ reqs'[x].s # t
    BY <1>u, <1>2
  <2> QED
    BY <2>1, <2>2, <2>3, <2>4, <2>5 DEF Same
<1> QED
  BY <1>1, <1>2

(* StopsManager disturbs no socket. *)
LEMMA StopsManagerFrame ==
  ASSUME WInv, Next, StopsManager
  PROVE  Steady /\ \A t \in Sockets : Same(t)
<1>u. /\ UNCHANGED <<phase, gen, inbox, reqs, sent, ws_conns, buffer, work, serving, epc, posts,
         io, cmds, wpc, queues, results, late, signaled, got, polled>>
  BY StopsManagerDoes
<1>b. /\ owner = "closed"
      /\ owner' = "stopping"
      /\ builtins' = builtins \cup {<<"shutdown", 0>>}
  BY StopsManagerDoes
<1>1. Steady
  <2>1. habits' = habits /\ Len(reqs') \in Nat /\ Len(reqs) \in Nat
    BY TypesOf, TypesAfter DEF Next, LinkTypes
  <2>2. Len(reqs') >= Len(reqs) /\ (\A i \in 1..Len(reqs) : reqs'[i] = reqs[i])
    BY <1>u, <2>1
  <2>3. io'.at \in Clearing <=> io.at \in Clearing
    BY <1>u
  <2>4. (owner' = "running" <=> owner = "running") /\ late \subseteq late'
    BY <1>u, <1>b
  <2> QED
    BY <2>1, <2>2, <2>3, <2>4 DEF Steady
<1>2. ASSUME NEW t \in Sockets
      PROVE  Same(t)
  <2>1. /\ phase'[t] = phase[t] /\ gen'[t] = gen[t] /\ inbox'[t] = inbox[t]
        /\ sent'[t] = sent[t] /\ got'[t] = got[t] /\ buffer'[t] = buffer[t]
        /\ work'[t] = work[t] /\ serving'[t] = serving[t] /\ epc'[t] = epc[t]
        /\ results'[t] \subseteq results[t]
    BY <1>u, <1>2 DEF Others
  <2>2. (t \in ws_conns' <=> t \in ws_conns) /\ (t \in queues' <=> t \in queues)
    BY <1>u, <1>2, <1>b
  <2>3. /\ <<"create", t>> \in builtins' <=> <<"create", t>> \in builtins
        /\ <<"destroy", t>> \in builtins' <=> <<"destroy", t>> \in builtins
    BY <1>u, <1>2, <1>b
  <2>4. io' = io \/ (Away(t) /\ Away(t)')
    BY <1>u, <1>2
  <2>5. \A x \in cmds' : x \in cmds \/ reqs'[x].s # t
    BY <1>u, <1>2
  <2> QED
    BY <2>1, <2>2, <2>3, <2>4, <2>5 DEF Same
<1> QED
  BY <1>1, <1>2

(* DestroysServer disturbs no socket. *)
LEMMA DestroysServerFrame ==
  ASSUME WInv, Next, DestroysServer
  PROVE  Steady /\ \A t \in Sockets : Same(t)
<1>u. /\ UNCHANGED <<phase, gen, inbox, reqs, sent, ws_conns, buffer, work, serving, epc, posts,
         io, builtins, cmds, wpc, queues, results, late, signaled, got, polled>>
  BY DestroysServerDoes
<1>b. /\ owner = "stopping"
      /\ owner' = "destroyed"
  BY DestroysServerDoes
<1>1. Steady
  <2>1. habits' = habits /\ Len(reqs') \in Nat /\ Len(reqs) \in Nat
    BY TypesOf, TypesAfter DEF Next, LinkTypes
  <2>2. Len(reqs') >= Len(reqs) /\ (\A i \in 1..Len(reqs) : reqs'[i] = reqs[i])
    BY <1>u, <2>1
  <2>3. io'.at \in Clearing <=> io.at \in Clearing
    BY <1>u
  <2>4. (owner' = "running" <=> owner = "running") /\ late \subseteq late'
    BY <1>u, <1>b
  <2> QED
    BY <2>1, <2>2, <2>3, <2>4 DEF Steady
<1>2. ASSUME NEW t \in Sockets
      PROVE  Same(t)
  <2>1. /\ phase'[t] = phase[t] /\ gen'[t] = gen[t] /\ inbox'[t] = inbox[t]
        /\ sent'[t] = sent[t] /\ got'[t] = got[t] /\ buffer'[t] = buffer[t]
        /\ work'[t] = work[t] /\ serving'[t] = serving[t] /\ epc'[t] = epc[t]
        /\ results'[t] \subseteq results[t]
    BY <1>u, <1>2 DEF Others
  <2>2. (t \in ws_conns' <=> t \in ws_conns) /\ (t \in queues' <=> t \in queues)
    BY <1>u, <1>2, <1>b
  <2>3. /\ <<"create", t>> \in builtins' <=> <<"create", t>> \in builtins
        /\ <<"destroy", t>> \in builtins' <=> <<"destroy", t>> \in builtins
    BY <1>u, <1>2, <1>b
  <2>4. io' = io \/ (Away(t) /\ Away(t)')
    BY <1>u, <1>2
  <2>5. \A x \in cmds' : x \in cmds \/ reqs'[x].s # t
    BY <1>u, <1>2
  <2> QED
    BY <2>1, <2>2, <2>3, <2>4, <2>5 DEF Same
<1> QED
  BY <1>1, <1>2

(* JoinsIo disturbs no socket. *)
LEMMA JoinsIoFrame ==
  ASSUME WInv, Next, JoinsIo
  PROVE  Steady /\ \A t \in Sockets : Same(t)
<1>u. /\ UNCHANGED <<phase, gen, inbox, reqs, sent, ws_conns, buffer, work, serving, epc, posts,
         io, builtins, cmds, wpc, queues, results, late, signaled, got, polled>>
  BY JoinsIoDoes
<1>b. /\ owner = "destroyed"
      /\ owner' = "gone"
  BY JoinsIoDoes
<1>1. Steady
  <2>1. habits' = habits /\ Len(reqs') \in Nat /\ Len(reqs) \in Nat
    BY TypesOf, TypesAfter DEF Next, LinkTypes
  <2>2. Len(reqs') >= Len(reqs) /\ (\A i \in 1..Len(reqs) : reqs'[i] = reqs[i])
    BY <1>u, <2>1
  <2>3. io'.at \in Clearing <=> io.at \in Clearing
    BY <1>u
  <2>4. (owner' = "running" <=> owner = "running") /\ late \subseteq late'
    BY <1>u, <1>b
  <2> QED
    BY <2>1, <2>2, <2>3, <2>4 DEF Steady
<1>2. ASSUME NEW t \in Sockets
      PROVE  Same(t)
  <2>1. /\ phase'[t] = phase[t] /\ gen'[t] = gen[t] /\ inbox'[t] = inbox[t]
        /\ sent'[t] = sent[t] /\ got'[t] = got[t] /\ buffer'[t] = buffer[t]
        /\ work'[t] = work[t] /\ serving'[t] = serving[t] /\ epc'[t] = epc[t]
        /\ results'[t] \subseteq results[t]
    BY <1>u, <1>2 DEF Others
  <2>2. (t \in ws_conns' <=> t \in ws_conns) /\ (t \in queues' <=> t \in queues)
    BY <1>u, <1>2, <1>b
  <2>3. /\ <<"create", t>> \in builtins' <=> <<"create", t>> \in builtins
        /\ <<"destroy", t>> \in builtins' <=> <<"destroy", t>> \in builtins
    BY <1>u, <1>2, <1>b
  <2>4. io' = io \/ (Away(t) /\ Away(t)')
    BY <1>u, <1>2
  <2>5. \A x \in cmds' : x \in cmds \/ reqs'[x].s # t
    BY <1>u, <1>2
  <2> QED
    BY <2>1, <2>2, <2>3, <2>4, <2>5 DEF Same
<1> QED
  BY <1>1, <1>2

(* TextHandler disturbs no socket. *)
LEMMA TextHandlerFrame ==
  ASSUME WInv, Next, NEW s \in Sockets, TextHandler(s)
  PROVE  Steady /\ \A t \in Sockets : Same(t)
<1>u. /\ UNCHANGED <<phase, gen, inbox, reqs, sent, ws_conns, buffer, work, serving, epc, posts,
         io, builtins, cmds, wpc, queues, results, late, owner, signaled, got, polled>>
  BY TextHandlerDoes
<1>1. Steady
  <2>1. habits' = habits /\ Len(reqs') \in Nat /\ Len(reqs) \in Nat
    BY TypesOf, TypesAfter DEF Next, LinkTypes
  <2>2. Len(reqs') >= Len(reqs) /\ (\A i \in 1..Len(reqs) : reqs'[i] = reqs[i])
    BY <1>u, <2>1
  <2>3. io'.at \in Clearing <=> io.at \in Clearing
    BY <1>u
  <2>4. (owner' = "running" <=> owner = "running") /\ late \subseteq late'
    BY <1>u
  <2> QED
    BY <2>1, <2>2, <2>3, <2>4 DEF Steady
<1>2. ASSUME NEW t \in Sockets
      PROVE  Same(t)
  <2>1. /\ phase'[t] = phase[t] /\ gen'[t] = gen[t] /\ inbox'[t] = inbox[t]
        /\ sent'[t] = sent[t] /\ got'[t] = got[t] /\ buffer'[t] = buffer[t]
        /\ work'[t] = work[t] /\ serving'[t] = serving[t] /\ epc'[t] = epc[t]
        /\ results'[t] \subseteq results[t]
    BY <1>u, <1>2 DEF Others
  <2>2. (t \in ws_conns' <=> t \in ws_conns) /\ (t \in queues' <=> t \in queues)
    BY <1>u, <1>2
  <2>3. /\ <<"create", t>> \in builtins' <=> <<"create", t>> \in builtins
        /\ <<"destroy", t>> \in builtins' <=> <<"destroy", t>> \in builtins
    BY <1>u, <1>2
  <2>4. io' = io \/ (Away(t) /\ Away(t)')
    BY <1>u, <1>2
  <2>5. \A x \in cmds' : x \in cmds \/ reqs'[x].s # t
    BY <1>u, <1>2
  <2> QED
    BY <2>1, <2>2, <2>3, <2>4, <2>5 DEF Same
<1> QED
  BY <1>1, <1>2

(* ClientSendsText disturbs no socket. *)
LEMMA ClientSendsTextFrame ==
  ASSUME WInv, Next, NEW s \in Sockets, ClientSendsText(s)
  PROVE  Steady /\ \A t \in Sockets : Same(t)
<1>u. /\ UNCHANGED <<phase, gen, inbox, sent, ws_conns, buffer, work, serving, epc, posts, io,
         builtins, cmds, wpc, queues, results, late, owner, signaled, got, polled>>
  BY ClientSendsTextDoes
<1>r. Len(reqs') >= Len(reqs) /\ \A i \in 1..Len(reqs) : reqs'[i] = reqs[i]
  <2>1. reqs' = reqs \/ \E r : Appended(reqs, reqs', r)
    BY ClientSendsTextDoes
  <2>2. Len(reqs) \in Nat
    BY TypesOf DEF LinkTypes
  <2> QED
    BY <2>1, <2>2 DEF Appended
<1>1. Steady
  <2>1. habits' = habits /\ Len(reqs') \in Nat /\ Len(reqs) \in Nat
    BY TypesOf, TypesAfter DEF Next, LinkTypes
  <2>2. Len(reqs') >= Len(reqs) /\ (\A i \in 1..Len(reqs) : reqs'[i] = reqs[i])
    BY <1>r
  <2>3. io'.at \in Clearing <=> io.at \in Clearing
    BY <1>u
  <2>4. (owner' = "running" <=> owner = "running") /\ late \subseteq late'
    BY <1>u
  <2> QED
    BY <2>1, <2>2, <2>3, <2>4 DEF Steady
<1>2. ASSUME NEW t \in Sockets
      PROVE  Same(t)
  <2>1. /\ phase'[t] = phase[t] /\ gen'[t] = gen[t] /\ inbox'[t] = inbox[t]
        /\ sent'[t] = sent[t] /\ got'[t] = got[t] /\ buffer'[t] = buffer[t]
        /\ work'[t] = work[t] /\ serving'[t] = serving[t] /\ epc'[t] = epc[t]
        /\ results'[t] \subseteq results[t]
    BY <1>u, <1>2 DEF Others
  <2>2. (t \in ws_conns' <=> t \in ws_conns) /\ (t \in queues' <=> t \in queues)
    BY <1>u, <1>2
  <2>3. /\ <<"create", t>> \in builtins' <=> <<"create", t>> \in builtins
        /\ <<"destroy", t>> \in builtins' <=> <<"destroy", t>> \in builtins
    BY <1>u, <1>2
  <2>4. io' = io \/ (Away(t) /\ Away(t)')
    BY <1>u, <1>2
  <2>5. \A x \in cmds' : x \in cmds \/ reqs'[x].s # t
    BY <1>u, <1>2
  <2> QED
    BY <2>1, <2>2, <2>3, <2>4, <2>5 DEF Same
<1> QED
  BY <1>1, <1>2


-----------------------------------------------------------------------------
(* A step that changes nothing of what HabitInv speaks of keeps it. *)
LEMMA HabitStays ==
  ASSUME WInv, Steady, signaled' => signaled, reqs' = reqs, wpc' = "asking" => wpc = "asking",
         wpc' = "gone" => wpc = "gone", <<"shutdown", 0>> \in builtins' => <<"shutdown", 0>> \in builtins,
         io' = io \/ io'.at \in {"idle", "clearing"} \/ io'.s \in Sockets
  PROVE  HabitInv'
BY DEF WInv, HabitInv, Steady, Asked

(* No command was added and no socket has a new connection. *)
LEMMA CommandStays ==
  ASSUME WInv, Steady, cmds' \subseteq cmds, polled' = polled, gen' = gen
  PROVE  CommandInv'
<1>1. CommandInv /\ habits' = habits /\ (Gone' <=> Gone)
  BY DEF WInv, Steady, Gone
<1>2. /\ Len(reqs') \in Nat /\ Len(reqs) \in Nat /\ Len(reqs') >= Len(reqs) /\ late \subseteq late'
      /\ \A i \in 1..Len(reqs) : reqs'[i] = reqs[i] /\ i \in 1..Len(reqs')
  BY DEF Steady
<1>3. cmds' \subseteq 1..Len(reqs')
  BY <1>1, <1>2 DEF CommandInv
<1>4. ~Gone => \A c \in cmds' : c \in late' \/ reqs'[c].gen = gen'[reqs'[c].s]
  BY <1>1, <1>2 DEF CommandInv
<1>5. \A p \in polled : p[1] \in 1..Len(reqs') /\ reqs'[p[1]] = reqs[p[1]]
  BY <1>1, <1>2 DEF CommandInv
<1>6. ResultsOwn'
  <2>1. ResultsOwn
    BY <1>1 DEF CommandInv
  <2> QED
    BY <1>1, <1>2, <1>5, <2>1 DEF ResultsOwn
<1> QED
  BY <1>1, <1>3, <1>4, <1>5, <1>6 DEF CommandInv

(* No connection was validated or opened. *)
LEMMA LimitStays ==
  ASSUME WInv, habits' = habits, Upgraded' \subseteq Upgraded,
         \A t \in Sockets : (Coming(t)' => Coming(t)) /\ (phase'[t] = "valid" => phase[t] = "valid")
  PROVE  LimitInv'
<1>1. LimitInv /\ habits' = habits /\ Upgraded \in SUBSET Sockets /\ MaxConnections \in Nat
  BY TypesOf, ServerAssumption DEF WInv, Upgraded, EntryTypes
<1>2. ASSUME NEW B \in SUBSET Sockets, NEW C \in SUBSET B
      PROVE  Cardinality(B) \in Nat /\ Cardinality(C) \in Nat /\ Cardinality(C) <= Cardinality(B)
  BY <1>2, Finite, FS_Subset
<1>3. Cardinality(Upgraded) \in Nat /\ Cardinality(Upgraded') \in Nat
      /\ Cardinality(Upgraded') <= Cardinality(Upgraded)
  BY <1>1, <1>2
<1>4. ASSUME NEW t \in Sockets
      PROVE  /\ Cardinality(Upgraded \ {t}) \in Nat /\ Cardinality(Upgraded' \ {t}) \in Nat
             /\ Cardinality(Upgraded' \ {t}) <= Cardinality(Upgraded \ {t})
  <2>1. Upgraded \ {t} \in SUBSET Sockets /\ Upgraded' \ {t} \in SUBSET (Upgraded \ {t})
    BY <1>1
  <2> QED
    BY <1>2, <2>1
<1> SUFFICES ASSUME "overlaps" \notin habits
             PROVE  LimitInv'
  BY <1>1 DEF LimitInv
<1>5. \A s, t \in Sockets : Coming(s)' /\ Coming(t)' => s = t
  BY <1>1 DEF LimitInv
<1>6. ASSUME NEW t \in Sockets, phase'[t] = "valid"
      PROVE  Cardinality(Upgraded' \ {t}) < MaxConnections
  <2>1. Cardinality(Upgraded \ {t}) < MaxConnections
    BY <1>1, <1>6 DEF LimitInv
  <2> QED
    BY <1>1, <1>4, <2>1
<1>7. Cardinality(Upgraded') <= MaxConnections
  <2>1. Cardinality(Upgraded) <= MaxConnections
    BY <1>1 DEF LimitInv
  <2> QED
    BY <1>1, <1>3, <2>1
<1> QED
  BY <1>5, <1>6, <1>7 DEF LimitInv

(* One post, as PostInv wants it. *)
Fine(p) ==
  /\ p.kind \in Own => p.s \in Sockets
  /\ AnswerFine(p) /\ InterruptFine(p)
  /\ p.kind = "closeall" => owner # "running"

(* What posts are when the invariant holds. *)
LEMMA FineOf ==
  ASSUME WInv
  PROVE  /\ Len(posts) \in Nat /\ \A i \in 1..Len(posts) : Fine(posts[i])
         /\ \A i, j \in 1..Len(posts) :
              posts[i].kind \in Own /\ posts[j].kind \in Own /\ posts[i].s = posts[j].s => i = j
<1>1. Len(posts) \in Nat
  BY TypesOf DEF EntryTypes
<1> QED
  BY <1>1 DEF WInv, PostInv, OnePost, Fine

(* A post of an untouched socket, or of none, stays fine. *)
LEMMA FineElsewhere ==
  ASSUME WInv, Steady, NEW p, Fine(p), p.kind \in Own => Same(p.s)
  PROVE  Fine(p)'
<1>1. CASE p.kind \in Own
  <2>1. AnswerFine(p)' /\ InterruptFine(p)'
    BY <1>1, PostBystander DEF Fine
  <2> QED
    BY <1>1, <2>1 DEF Fine, Own
<1>2. CASE p.kind \notin Own
  BY <1>2 DEF Fine, Own, Answers, AnswerFine, InterruptFine, Steady
<1> QED
  BY <1>1, <1>2

(* Posts stay fine in a step that disturbs one socket and keeps its posts    *)
(* fine.                                                                     *)
LEMMA FineStays ==
  ASSUME WInv, NEW s, Steady, \A t \in Sockets : t # s => Same(t), PostsFine(s)
  PROVE  \A p : Fine(p) => Fine(p)'
<1> SUFFICES ASSUME NEW p, Fine(p)
             PROVE  Fine(p)'
  OBVIOUS
<1>1. CASE p.kind \in Own /\ p.s = s
  <2>1. AnswerFine(p)' /\ InterruptFine(p)'
    BY <1>1 DEF PostsFine, Fine
  <2> QED
    BY <1>1, <2>1 DEF Fine, Own
<1>2. CASE ~(p.kind \in Own /\ p.s = s)
  <2>1. p.kind \in Own => Same(p.s)
    BY <1>2 DEF Fine
  <2> QED
    BY <2>1, FineElsewhere
<1> QED
  BY <1>1, <1>2

(* The posts stay, *)
LEMMA PostsStay ==
  ASSUME WInv, \A p : Fine(p) => Fine(p)', posts' = posts
  PROVE  PostInv' /\ OnePost'
<1>1. \A i \in 1..Len(posts) : Fine(posts[i])'
  BY FineOf
<1> QED
  BY <1>1, FineOf DEF PostInv, OnePost, Fine

(* or the first of them is taken, *)
LEMMA PostsShrink ==
  ASSUME WInv, Len(posts) > 0, Dropped(posts, posts'),
         \A i \in 2..Len(posts) : \A p : p = posts[i] => Fine(p)'
  PROVE  PostInv' /\ OnePost'
<1> DEFINE n == Len(posts)
<1>1. n \in Nat /\ n > 0 /\ Len(posts') = n - 1
  BY FineOf DEF Dropped
<1>2. \A i \in 1..n - 1 : posts'[i] = posts[i + 1] /\ i + 1 \in 2..n /\ i + 1 \in 1..n
  BY <1>1 DEF Dropped
<1>3. ASSUME NEW i \in 1..n - 1, NEW p, p = posts'[i]
      PROVE  Fine(p)'
  <2>1. i + 1 \in 2..n /\ p = posts[i + 1]
    BY <1>2, <1>3
  <2> QED
    BY <2>1
<1>4. PostInv'
  <2>1. \A i \in 1..Len(posts') : Fine(posts[i])'
    BY <1>1, <1>3
  <2> QED
    BY <2>1 DEF PostInv, Fine
<1>5. ASSUME NEW i \in 1..n - 1, NEW j \in 1..n - 1,
             posts'[i].kind \in Own, posts'[j].kind \in Own, posts'[i].s = posts'[j].s
      PROVE  i = j
  <2>1. i + 1 = j + 1
    BY <1>2, <1>5, FineOf
  <2> QED
    BY <2>1
<1> QED
  BY <1>1, <1>4, <1>5 DEF OnePost

(* or one is added for a socket that has none. *)
LEMMA PostsGrow ==
  ASSUME WInv, \A p : Fine(p) => Fine(p)', NEW q, Appended(posts, posts', q), Fine(q)',
         q.kind \in Own => \A i \in 1..Len(posts) : posts[i].kind \in Own => posts[i].s # q.s
  PROVE  PostInv' /\ OnePost'
<1> DEFINE n == Len(posts)
<1>1. n \in Nat /\ Len(posts') = n + 1 /\ posts'[n + 1] = q /\ \A i \in 1..n : posts'[i] = posts[i]
  BY FineOf DEF Appended
<1>2. \A i \in 1..n + 1 : i = n + 1 \/ i \in 1..n
  BY <1>1
<1>3. ASSUME NEW i \in 1..n + 1, NEW p, p = posts'[i]
      PROVE  Fine(p)'
  <2>1. CASE i \in 1..n
    <3>1. p = posts[i]
      BY <1>1, <1>3, <2>1
    <3>2. Fine(p)
      BY <2>1, <3>1, FineOf
    <3> QED
      BY <3>2
  <2>2. CASE i = n + 1
    <3>1. p = q
      BY <1>1, <1>3, <2>2
    <3> QED
      BY <3>1
  <2> QED
    BY <1>2, <2>1, <2>2
<1>4. PostInv'
  <2>1. \A i \in 1..Len(posts') : Fine(posts[i])'
    BY <1>1, <1>3
  <2> QED
    BY <2>1 DEF PostInv, Fine
<1>5. ASSUME NEW i \in 1..n + 1, NEW j \in 1..n + 1,
             posts'[i].kind \in Own, posts'[j].kind \in Own, posts'[i].s = posts'[j].s
      PROVE  i = j
  <2>1. CASE i \in 1..n /\ j \in 1..n
    BY <1>1, <1>5, <2>1, FineOf
  <2>2. CASE i = n + 1 /\ j \in 1..n
    BY <1>1, <1>5, <2>2
  <2>3. CASE i \in 1..n /\ j = n + 1
    BY <1>1, <1>5, <2>3
  <2> QED
    BY <1>2, <2>1, <2>2, <2>3
<1> QED
  BY <1>1, <1>4, <1>5 DEF OnePost

-----------------------------------------------------------------------------
(* ValidateHandler keeps the invariant. *)
LEMMA ValidateHandlerNext ==
  ASSUME WInv, Next, NEW s \in Sockets, ValidateHandler(s)
  PROVE  WInv'
<1>1. Steady /\ \A t \in Sockets : t # s => Same(t)
  BY ValidateHandlerFrame
<1>2. SocketInv(s)' /\ PostsFine(s)
  BY ValidateHandlerKeeps
<1>3. \A t \in Sockets : SocketInv(t)'
  BY <1>1, <1>2, Bystander
<1>p. \A p : Fine(p) => Fine(p)'
  BY <1>1, <1>2, FineStays
<1>4. WTypes'
  BY TypesAfter DEF WTypes
<1>5. PostInv' /\ OnePost'
  BY <1>p, PostsStay, ValidateHandlerDoes
<1>6. HabitInv'
  BY <1>1, HabitStays, ValidateHandlerDoes
<1>7. CommandInv'
  BY <1>1, CommandStays, ValidateHandlerDoes
<1>8. LimitInv'
  <2>0. /\ LimitInv /\ habits' = habits /\ Upgraded \in SUBSET Sockets /\ MaxConnections \in Nat
        /\ ws_conns \in SUBSET Sockets
    BY <1>1, TypesOf, ServerAssumption DEF WInv, Steady, Upgraded, EntryTypes
  <2>1. /\ phase[s] = "handshake" /\ phase'[s] \in {"free", "valid"} /\ UNCHANGED ws_conns
        /\ phase'[s] = "valid" => Cardinality(ws_conns) < MaxConnections
        /\ \A t \in Sockets : t # s => phase'[t] = phase[t]
    BY ValidateHandlerDoes DEF Others
  <2>2. s \notin ws_conns
    BY <2>1 DEF WInv, SocketInv, PhaseInv
  <2>3. Upgraded' = Upgraded
    BY <2>0, <2>1, <2>2 DEF Upgraded
  <2>4. \A t \in Sockets : Coming(t)' => Coming(t)
    BY <2>1 DEF Coming
  <2>5. ASSUME phase'[s] = "valid"
        PROVE  Cardinality(Upgraded \ {s}) < MaxConnections
    <3>1. IsFiniteSet(ws_conns) /\ Cardinality(ws_conns) \in Nat /\ Upgraded \ {s} \subseteq ws_conns
      BY <2>0, Finite DEF Upgraded
    <3>2. Cardinality(Upgraded \ {s}) <= Cardinality(ws_conns) /\ Cardinality(Upgraded \ {s}) \in Nat
      BY <2>0, <3>1, Finite, FS_Subset
    <3> QED
      BY <2>0, <2>1, <2>5, <3>1, <3>2
  <2> QED
    BY <2>0, <2>1, <2>3, <2>4, <2>5 DEF LimitInv
<1> QED
  BY <1>3, <1>4, <1>5, <1>6, <1>7, <1>8 DEF WInv

(* OpenHandler keeps the invariant. *)
LEMMA OpenHandlerNext ==
  ASSUME WInv, Next, NEW s \in Sockets, OpenHandler(s)
  PROVE  WInv'
<1>1. Steady /\ \A t \in Sockets : t # s => Same(t)
  BY OpenHandlerFrame
<1>2. SocketInv(s)' /\ PostsFine(s)
  BY OpenHandlerKeeps
<1>3. \A t \in Sockets : SocketInv(t)'
  BY <1>1, <1>2, Bystander
<1>p. \A p : Fine(p) => Fine(p)'
  BY <1>1, <1>2, FineStays
<1>4. WTypes'
  BY TypesAfter DEF WTypes
<1>5. PostInv' /\ OnePost'
  BY <1>p, PostsStay, OpenHandlerDoes
<1>6. HabitInv'
  BY <1>1, HabitStays, OpenHandlerDoes
<1>7. CommandInv'
  BY <1>1, CommandStays, OpenHandlerDoes
<1>8. LimitInv'
  <2>0. /\ LimitInv /\ habits' = habits /\ Upgraded \in SUBSET Sockets /\ MaxConnections \in Nat
        /\ ws_conns \in SUBSET Sockets
    BY <1>1, TypesOf, ServerAssumption DEF WInv, Steady, Upgraded, EntryTypes
  <2>1. phase[s] = "valid" /\ UNCHANGED phase /\ ws_conns' = ws_conns \cup {s}
    BY OpenHandlerDoes
  <2> SUFFICES ASSUME "overlaps" \notin habits
               PROVE  LimitInv'
    BY <2>0 DEF LimitInv
  <2>2. Upgraded' = Upgraded \cup {s} /\ Upgraded' \ {s} = Upgraded \ {s}
    BY <2>1 DEF Upgraded
  <2>3. Cardinality(Upgraded \ {s}) < MaxConnections /\ \A t \in Sockets : phase[t] = "valid" => t = s
    BY <2>0, <2>1 DEF LimitInv, Coming
  <2>4. Cardinality(Upgraded \ {s}) \in Nat /\ IsFiniteSet(Upgraded \ {s})
    BY <2>0, Finite
  <2>5. Upgraded' = (Upgraded \ {s}) \cup {s} /\ s \notin Upgraded \ {s}
    BY <2>2
  <2>6. Cardinality(Upgraded') = Cardinality(Upgraded \ {s}) + 1
    BY <2>4, <2>5, FS_AddElement
  <2>7. Cardinality(Upgraded') <= MaxConnections
    BY <2>0, <2>3, <2>4, <2>6
  <2>8. \A t \in Sockets : Coming(t)' <=> Coming(t)
    BY <2>1 DEF Coming
  <2>9. \A t, u \in Sockets : Coming(t)' /\ Coming(u)' => t = u
    BY <2>0, <2>8 DEF LimitInv
  <2> QED
    BY <2>1, <2>2, <2>3, <2>7, <2>9 DEF LimitInv
<1> QED
  BY <1>3, <1>4, <1>5, <1>6, <1>7, <1>8 DEF WInv

(* HttpHandler keeps the invariant. *)
LEMMA HttpHandlerNext ==
  ASSUME WInv, Next, NEW s \in Sockets, HttpHandler(s)
  PROVE  WInv'
<1>1. Steady /\ \A t \in Sockets : t # s => Same(t)
  BY HttpHandlerFrame
<1>2. SocketInv(s)' /\ PostsFine(s)
  BY HttpHandlerKeeps
<1>3. \A t \in Sockets : SocketInv(t)'
  BY <1>1, <1>2, Bystander
<1>p. \A p : Fine(p) => Fine(p)'
  BY <1>1, <1>2, FineStays
<1>4. WTypes'
  BY TypesAfter DEF WTypes
<1>5. PostInv' /\ OnePost'
  BY <1>p, PostsStay, HttpHandlerDoes
<1>6. HabitInv'
  BY <1>1, HabitStays, HttpHandlerDoes
<1>7. CommandInv'
  BY <1>1, CommandStays, HttpHandlerDoes
<1>8. LimitInv'
  <2>1. \A t \in Sockets : (Coming(t)' => Coming(t)) /\ (phase'[t] = "valid" => phase[t] = "valid")
    BY HttpHandlerDoes DEF Coming, Others
  <2>2. Upgraded' \subseteq Upgraded
    BY HttpHandlerDoes, TypesOf DEF Upgraded, Others, EntryTypes
  <2> QED
    BY <1>1, <2>1, <2>2, LimitStays DEF Steady
<1> QED
  BY <1>3, <1>4, <1>5, <1>6, <1>7, <1>8 DEF WInv

(* AcceptReturns keeps the invariant. *)
LEMMA AcceptReturnsNext ==
  ASSUME WInv, Next, NEW s \in Sockets, AcceptReturns(s)
  PROVE  WInv'
<1>1. Steady /\ \A t \in Sockets : t # s => Same(t)
  BY AcceptReturnsFrame
<1>2. SocketInv(s)' /\ PostsFine(s)
  BY AcceptReturnsKeeps
<1>3. \A t \in Sockets : SocketInv(t)'
  BY <1>1, <1>2, Bystander
<1>p. \A p : Fine(p) => Fine(p)'
  BY <1>1, <1>2, FineStays
<1>4. WTypes'
  BY TypesAfter DEF WTypes
<1>5. PostInv' /\ OnePost'
  BY <1>p, PostsStay, AcceptReturnsDoes
<1>6. HabitInv'
  BY <1>1, HabitStays, AcceptReturnsDoes
<1>7. CommandInv'
  BY <1>1, CommandStays, AcceptReturnsDoes
<1>8. LimitInv'
  <2>p. phase[s] \in {"valid", "http"}
    BY AcceptReturnsDoes DEF WInv, SocketInv, IoInv, IoAt
  <2>1. \A t \in Sockets : (Coming(t)' => Coming(t)) /\ (phase'[t] = "valid" => phase[t] = "valid")
    BY AcceptReturnsDoes, <2>p DEF Coming, Others
  <2>2. Upgraded' \subseteq Upgraded
    BY AcceptReturnsDoes, <2>p, TypesOf DEF Upgraded, Others, EntryTypes
  <2> QED
    BY <1>1, <2>1, <2>2, LimitStays DEF Steady
<1> QED
  BY <1>3, <1>4, <1>5, <1>6, <1>7, <1>8 DEF WInv

(* MessageHandler keeps the invariant. *)
LEMMA MessageHandlerNext ==
  ASSUME WInv, Next, NEW s \in Sockets, MessageHandler(s)
  PROVE  WInv'
<1>1. Steady /\ \A t \in Sockets : t # s => Same(t)
  BY MessageHandlerFrame
<1>2. SocketInv(s)' /\ PostsFine(s)
  BY MessageHandlerKeeps
<1>3. \A t \in Sockets : SocketInv(t)'
  BY <1>1, <1>2, Bystander
<1>p. \A p : Fine(p) => Fine(p)'
  BY <1>1, <1>2, FineStays
<1>4. WTypes'
  BY TypesAfter DEF WTypes
<1>5. PostInv' /\ OnePost'
  BY <1>p, PostsStay, MessageHandlerDoes
<1>6. HabitInv'
  BY <1>1, HabitStays, MessageHandlerDoes
<1>7. CommandInv'
  BY <1>1, CommandStays, MessageHandlerDoes
<1>8. LimitInv'
  BY <1>1, LimitStays, MessageHandlerDoes DEF Upgraded, Coming, Steady
<1> QED
  BY <1>3, <1>4, <1>5, <1>6, <1>7, <1>8 DEF WInv

(* PushWork keeps the invariant. *)
LEMMA PushWorkNext ==
  ASSUME WInv, Next, NEW s \in Sockets, PushWork(s)
  PROVE  WInv'
<1>1. Steady /\ \A t \in Sockets : t # s => Same(t)
  BY PushWorkFrame
<1>2. SocketInv(s)' /\ PostsFine(s)
  BY PushWorkKeeps
<1>3. \A t \in Sockets : SocketInv(t)'
  BY <1>1, <1>2, Bystander
<1>p. \A p : Fine(p) => Fine(p)'
  BY <1>1, <1>2, FineStays
<1>4. WTypes'
  BY TypesAfter DEF WTypes
<1>5. PostInv' /\ OnePost'
  BY <1>p, PostsStay, PushWorkDoes
<1>6. HabitInv'
  BY <1>1, HabitStays, PushWorkDoes
<1>7. CommandInv'
  BY <1>1, CommandStays, PushWorkDoes
<1>8. LimitInv'
  BY <1>1, LimitStays, PushWorkDoes DEF Upgraded, Coming, Steady
<1> QED
  BY <1>3, <1>4, <1>5, <1>6, <1>7, <1>8 DEF WInv

(* CloseHandler keeps the invariant. *)
LEMMA CloseHandlerNext ==
  ASSUME WInv, Next, NEW s \in Sockets, CloseHandler(s)
  PROVE  WInv'
<1>1. Steady /\ \A t \in Sockets : t # s => Same(t)
  BY CloseHandlerFrame
<1>2. SocketInv(s)' /\ PostsFine(s)
  BY CloseHandlerKeeps
<1>3. \A t \in Sockets : SocketInv(t)'
  BY <1>1, <1>2, Bystander
<1>p. \A p : Fine(p) => Fine(p)'
  BY <1>1, <1>2, FineStays
<1>4. WTypes'
  BY TypesAfter DEF WTypes
<1>5. PostInv' /\ OnePost'
  BY <1>p, PostsStay, CloseHandlerDoes
<1>6. HabitInv'
  BY <1>1, HabitStays, CloseHandlerDoes
<1>7. CommandInv'
  BY <1>1, CommandStays, CloseHandlerDoes
<1>8. LimitInv'
  BY <1>1, LimitStays, CloseHandlerDoes DEF Upgraded, Coming, Steady
<1> QED
  BY <1>3, <1>4, <1>5, <1>6, <1>7, <1>8 DEF WInv

(* CloseReturns keeps the invariant. *)
LEMMA CloseReturnsNext ==
  ASSUME WInv, Next, NEW s \in Sockets, CloseReturns(s)
  PROVE  WInv'
<1>1. Steady /\ \A t \in Sockets : t # s => Same(t)
  BY CloseReturnsFrame
<1>2. SocketInv(s)' /\ PostsFine(s)
  BY CloseReturnsKeeps
<1>3. \A t \in Sockets : SocketInv(t)'
  BY <1>1, <1>2, Bystander
<1>p. \A p : Fine(p) => Fine(p)'
  BY <1>1, <1>2, FineStays
<1>4. WTypes'
  BY TypesAfter DEF WTypes
<1>5. PostInv' /\ OnePost'
  BY <1>p, PostsStay, CloseReturnsDoes
<1>6. HabitInv'
  BY <1>1, HabitStays, CloseReturnsDoes
<1>7. CommandInv'
  BY <1>1, CommandStays, CloseReturnsDoes
<1>8. LimitInv'
  <2>1. \A t \in Sockets : (Coming(t)' => Coming(t)) /\ (phase'[t] = "valid" => phase[t] = "valid")
    BY CloseReturnsDoes DEF Coming, Others
  <2>2. Upgraded' \subseteq Upgraded
    BY CloseReturnsDoes, TypesOf DEF Upgraded, Others, EntryTypes
  <2> QED
    BY <1>1, <2>1, <2>2, LimitStays DEF Steady
<1> QED
  BY <1>3, <1>4, <1>5, <1>6, <1>7, <1>8 DEF WInv

(* StopsExecutor keeps the invariant. *)
LEMMA StopsExecutorNext ==
  ASSUME WInv, Next, NEW s \in Sockets, StopsExecutor(s)
  PROVE  WInv'
<1>1. Steady /\ \A t \in Sockets : t # s => Same(t)
  BY StopsExecutorFrame
<1>2. SocketInv(s)' /\ PostsFine(s)
  BY StopsExecutorKeeps
<1>3. \A t \in Sockets : SocketInv(t)'
  BY <1>1, <1>2, Bystander
<1>p. \A p : Fine(p) => Fine(p)'
  BY <1>1, <1>2, FineStays
<1>4. WTypes'
  BY TypesAfter DEF WTypes
<1>5. PostInv' /\ OnePost'
  BY <1>p, PostsStay, StopsExecutorDoes
<1>6. HabitInv'
  BY <1>1, HabitStays, StopsExecutorDoes
<1>7. CommandInv'
  BY <1>1, CommandStays, StopsExecutorDoes
<1>8. LimitInv'
  BY <1>1, LimitStays, StopsExecutorDoes DEF Upgraded, Coming, Steady
<1> QED
  BY <1>3, <1>4, <1>5, <1>6, <1>7, <1>8 DEF WInv

(* JoinsExecutor keeps the invariant. *)
LEMMA JoinsExecutorNext ==
  ASSUME WInv, Next, NEW s \in Sockets, JoinsExecutor(s)
  PROVE  WInv'
<1>1. Steady /\ \A t \in Sockets : t # s => Same(t)
  BY JoinsExecutorFrame
<1>2. SocketInv(s)' /\ PostsFine(s)
  BY JoinsExecutorKeeps
<1>3. \A t \in Sockets : SocketInv(t)'
  BY <1>1, <1>2, Bystander
<1>p. \A p : Fine(p) => Fine(p)'
  BY <1>1, <1>2, FineStays
<1>4. WTypes'
  BY TypesAfter DEF WTypes
<1>5. PostInv' /\ OnePost'
  BY <1>p, PostsStay, JoinsExecutorDoes
<1>6. HabitInv'
  BY <1>1, HabitStays, JoinsExecutorDoes
<1>7. CommandInv'
  BY <1>1, CommandStays, JoinsExecutorDoes
<1>8. LimitInv'
  <2>p. s \notin ws_conns
    BY JoinsExecutorDoes DEF WInv, SocketInv, ExecutorInv, IoAt, Ending
  <2>1. \A t \in Sockets : (Coming(t)' => Coming(t)) /\ (phase'[t] = "valid" => phase[t] = "valid")
    <3>1. phase'[s] = "free" /\ \A t \in Sockets : t # s => phase'[t] = phase[t]
      BY JoinsExecutorDoes DEF Others
    <3>2. ASSUME NEW t \in Sockets, t # s
          PROVE  (Coming(t)' => Coming(t)) /\ (phase'[t] = "valid" => phase[t] = "valid")
      BY <3>1, <3>2 DEF Coming
    <3>3. ~Coming(s)' /\ phase'[s] # "valid"
      BY <3>1 DEF Coming
    <3> QED
      BY <3>2, <3>3
  <2>2. Upgraded' \subseteq Upgraded
    <3>1. /\ ws_conns' = ws_conns /\ ws_conns \subseteq Sockets
          /\ \A t \in Sockets : t # s => phase'[t] = phase[t]
      BY JoinsExecutorDoes, TypesOf DEF Others, EntryTypes
    <3>2. \A t \in ws_conns : phase'[t] = phase[t]
      BY <2>p, <3>1
    <3> QED
      BY <3>1, <3>2 DEF Upgraded
  <2> QED
    BY <1>1, <2>1, <2>2, LimitStays DEF Steady
<1> QED
  BY <1>3, <1>4, <1>5, <1>6, <1>7, <1>8 DEF WInv

(* PostSends keeps the invariant. *)
LEMMA PostSendsNext ==
  ASSUME WInv, Next, NEW s \in Sockets, PostSends(s)
  PROVE  WInv'
<1>1. Steady /\ \A t \in Sockets : t # s => Same(t)
  BY PostSendsFrame
<1>2. SocketInv(s)'
  BY PostSendsKeeps
<1>3. \A t \in Sockets : SocketInv(t)'
  BY <1>1, <1>2, Bystander
<1>4. WTypes'
  BY TypesAfter DEF WTypes
<1>5. PostInv' /\ OnePost'
  <2>1. Len(posts) > 0 /\ posts[1].kind = "send" /\ posts[1].s = s /\ Dropped(posts, posts')
    BY PostSendsDoes
  <2>2. ASSUME NEW i \in 2..Len(posts), NEW p, p = posts[i]
        PROVE  Fine(p)'
    <3>1. Len(posts) \in Nat /\ i \in 1..Len(posts) /\ 1 \in 1..Len(posts) /\ i # 1
      BY <2>1, FineOf
    <3>2. Fine(p) /\ (p.kind \in Own => p.s # s)
      BY <2>1, <2>2, <3>1, FineOf DEF Own
    <3>3. p.kind \in Own => Same(p.s)
      BY <1>1, <3>2 DEF Fine
    <3> QED
      BY <1>1, <3>2, <3>3, FineElsewhere
  <2> QED
    BY <2>1, <2>2, PostsShrink
<1>6. HabitInv'
  BY <1>1, HabitStays, PostSendsDoes
<1>7. CommandInv'
  BY <1>1, CommandStays, PostSendsDoes
<1>8. LimitInv'
  BY <1>1, LimitStays, PostSendsDoes DEF Upgraded, Coming, Steady
<1> QED
  BY <1>3, <1>4, <1>5, <1>6, <1>7, <1>8 DEF WInv

(* PostSendsHttp keeps the invariant. *)
LEMMA PostSendsHttpNext ==
  ASSUME WInv, Next, NEW s \in Sockets, PostSendsHttp(s)
  PROVE  WInv'
<1>1. Steady /\ \A t \in Sockets : t # s => Same(t)
  BY PostSendsHttpFrame
<1>2. SocketInv(s)'
  BY PostSendsHttpKeeps
<1>3. \A t \in Sockets : SocketInv(t)'
  BY <1>1, <1>2, Bystander
<1>4. WTypes'
  BY TypesAfter DEF WTypes
<1>5. PostInv' /\ OnePost'
  <2>1. Len(posts) > 0 /\ posts[1].kind = "http" /\ posts[1].s = s /\ Dropped(posts, posts')
    BY PostSendsHttpDoes
  <2>2. ASSUME NEW i \in 2..Len(posts), NEW p, p = posts[i]
        PROVE  Fine(p)'
    <3>1. Len(posts) \in Nat /\ i \in 1..Len(posts) /\ 1 \in 1..Len(posts) /\ i # 1
      BY <2>1, FineOf
    <3>2. Fine(p) /\ (p.kind \in Own => p.s # s)
      BY <2>1, <2>2, <3>1, FineOf DEF Own
    <3>3. p.kind \in Own => Same(p.s)
      BY <1>1, <3>2 DEF Fine
    <3> QED
      BY <1>1, <3>2, <3>3, FineElsewhere
  <2> QED
    BY <2>1, <2>2, PostsShrink
<1>6. HabitInv'
  BY <1>1, HabitStays, PostSendsHttpDoes
<1>7. CommandInv'
  BY <1>1, CommandStays, PostSendsHttpDoes
<1>8. LimitInv'
  BY <1>1, LimitStays, PostSendsHttpDoes DEF Upgraded, Coming, Steady
<1> QED
  BY <1>3, <1>4, <1>5, <1>6, <1>7, <1>8 DEF WInv

(* PostHttpThrows keeps the invariant. *)
LEMMA PostHttpThrowsNext ==
  ASSUME WInv, Next, NEW s \in Sockets, PostHttpThrows(s)
  PROVE  WInv'
<1>1. Steady /\ \A t \in Sockets : t # s => Same(t)
  BY PostHttpThrowsFrame
<1>2. SocketInv(s)'
  BY PostHttpThrowsKeeps
<1>3. \A t \in Sockets : SocketInv(t)'
  BY <1>1, <1>2, Bystander
<1>4. WTypes'
  BY TypesAfter DEF WTypes
<1>5. PostInv' /\ OnePost'
  <2> DEFINE n == Len(posts)
  <2>1. PICK q : q = [kind |-> "interrupt", s |-> s, req |-> 0]
    OBVIOUS
  <2>2. /\ n > 0 /\ Len(posts') = n /\ posts'[n] = q /\ q.kind = "interrupt" /\ q.s = s
        /\ posts[1].kind = "http" /\ posts[1].s = s
        /\ \A i \in 1..n - 1 : posts'[i] = posts[i + 1]
    BY <2>1, PostHttpThrowsDoes
  <2>3. /\ io.at = "idle" /\ epc'[s] = "idle" /\ "leaves" \in habits
        /\ UNCHANGED <<phase, inbox, work, queues, cmds, late, reqs, io>>
    BY PostHttpThrowsDoes
  <2>4. n \in Nat /\ 1 \in 1..n /\ \A i \in 1..n : i = n \/ i \in 1..n - 1
    BY <2>2, FineOf
  <2>5. AnswerFine(posts[1])
    BY <2>4, FineOf DEF Fine
  <2>6. phase[s] = "http" /\ epc[s] = "posting"
    BY <2>2, <2>5 DEF AnswerFine, Answers
  <2>7. HttpInv(s) /\ PhaseInv(s) /\ Len(inbox[s]) \in Nat
    BY TypesOf, SizesOf DEF WInv, SocketInv, Sizes
  <2>8. Len(inbox[s]) = 0 /\ NoWork(s)
    BY <2>3, <2>6, <2>7 DEF HttpInv, Serving, IoAt, NoWork
  <2>9. Gone'
    BY <1>1, <2>3, <2>6, <2>7 DEF PhaseInv, Gone, Steady
  <2>10. NoWork(s)' <=> NoWork(s)
    BY <2>3 DEF NoWork
  <2>11. Fine(q)'
    <3>1. InterruptFine(q)'
      BY <2>2, <2>3, <2>6, <2>8, <2>9, <2>10 DEF InterruptFine, Serving, IoAt
    <3> QED
      BY <2>2, <3>1 DEF Fine, AnswerFine, Answers
  <2>12. ASSUME NEW i \in 1..n - 1, NEW p, p = posts'[i]
         PROVE  Fine(p)' /\ (p.kind \in Own => p.s # s)
    <3>1. i + 1 \in 1..n /\ i + 1 # 1 /\ p = posts[i + 1]
      BY <2>2, <2>4, <2>12
    <3>2. Fine(p) /\ (p.kind \in Own => p.s # s)
      BY <2>2, <2>4, <3>1, FineOf DEF Own
    <3>3. p.kind \in Own => Same(p.s)
      BY <1>1, <3>2 DEF Fine
    <3> QED
      BY <1>1, <3>2, <3>3, FineElsewhere
  <2>13. \A i \in 1..Len(posts') : Fine(posts[i])'
    BY <2>2, <2>4, <2>11, <2>12
  <2>14. ASSUME NEW i \in 1..n, NEW j \in 1..n,
                posts'[i].kind \in Own, posts'[j].kind \in Own, posts'[i].s = posts'[j].s
         PROVE  i = j
    <3>1. CASE i = n /\ j \in 1..n - 1
      BY <2>2, <2>12, <2>14, <3>1
    <3>2. CASE j = n /\ i \in 1..n - 1
      BY <2>2, <2>12, <2>14, <3>2
    <3>3. CASE i \in 1..n - 1 /\ j \in 1..n - 1
      <4>1. i + 1 \in 1..n /\ j + 1 \in 1..n
        BY <2>4, <3>3
      <4>2. i + 1 = j + 1
        BY <2>2, <2>14, <3>3, <4>1, FineOf
      <4> QED
        BY <4>2
    <3> QED
      BY <2>4, <3>1, <3>2, <3>3
  <2> QED
    BY <2>2, <2>13, <2>14 DEF PostInv, OnePost, Fine
<1>6. HabitInv'
  BY <1>1, HabitStays, PostHttpThrowsDoes
<1>7. CommandInv'
  BY <1>1, CommandStays, PostHttpThrowsDoes
<1>8. LimitInv'
  BY <1>1, LimitStays, PostHttpThrowsDoes DEF Upgraded, Coming, Steady
<1> QED
  BY <1>3, <1>4, <1>5, <1>6, <1>7, <1>8 DEF WInv

(* HttpCloseReturns keeps the invariant. *)
LEMMA HttpCloseReturnsNext ==
  ASSUME WInv, Next, NEW s \in Sockets, HttpCloseReturns(s)
  PROVE  WInv'
<1>1. Steady /\ \A t \in Sockets : t # s => Same(t)
  BY HttpCloseReturnsFrame
<1>2. SocketInv(s)' /\ PostsFine(s)
  BY HttpCloseReturnsKeeps
<1>3. \A t \in Sockets : SocketInv(t)'
  BY <1>1, <1>2, Bystander
<1>p. \A p : Fine(p) => Fine(p)'
  BY <1>1, <1>2, FineStays
<1>4. WTypes'
  BY TypesAfter DEF WTypes
<1>5. PostInv' /\ OnePost'
  <2>1. PICK q : q = [kind |-> "interrupt", s |-> s, req |-> 0]
    OBVIOUS
  <2>2. Appended(posts, posts', q) /\ q.kind = "interrupt" /\ q.s = s
    BY <2>1, HttpCloseReturnsDoes
  <2>3. /\ io.at = "http_close" /\ io.s = s /\ <<"destroy", s>> \notin builtins /\ io'.at = "idle"
        /\ epc'[s] = "idle" /\ UNCHANGED <<phase, inbox, work, queues, cmds, late, reqs>>
    BY HttpCloseReturnsDoes
  <2>4. IoInv(s) /\ HttpInv(s) /\ QueueInv(s) /\ LateInv(s) /\ Len(inbox[s]) \in Nat
    BY TypesOf, SizesOf DEF WInv, SocketInv, Sizes
  <2>5. phase[s] = "http" /\ epc[s] = "posting"
    BY <2>3, <2>4 DEF IoInv, IoAt
  <2>6. Len(inbox[s]) = 0 /\ NoWork(s)
    BY <2>3, <2>4, <2>5 DEF HttpInv, Serving, IoAt
  <2>7. (Gone \/ (s \notin queues /\ Settled(s))) /\ (Gone' <=> Gone)
    BY <1>1, <2>3, <2>4 DEF QueueInv, LateInv, IoAt, Steady, Gone
  <2>8. (NoWork(s)' <=> NoWork(s)) /\ (Settled(s)' <=> Settled(s))
    BY <2>3 DEF NoWork, Settled
  <2>9. InterruptFine(q)'
    BY <2>2, <2>3, <2>5, <2>6, <2>7, <2>8 DEF InterruptFine, Serving, IoAt
  <2>10. Fine(q)'
    BY <2>2, <2>9 DEF Fine, AnswerFine, Answers
  <2>11. ASSUME NEW i \in 1..Len(posts), posts[i].kind \in Own
         PROVE  posts[i].s # s
    BY <2>3, <2>5, <2>11, FineOf DEF Fine, Own, Answers, AnswerFine, InterruptFine, Serving, IoAt
  <2> QED
    BY <1>p, <2>2, <2>10, <2>11, PostsGrow
<1>6. HabitInv'
  BY <1>1, HabitStays, HttpCloseReturnsDoes
<1>7. CommandInv'
  BY <1>1, CommandStays, HttpCloseReturnsDoes
<1>8. LimitInv'
  BY <1>1, LimitStays, HttpCloseReturnsDoes DEF Upgraded, Coming, Steady
<1> QED
  BY <1>3, <1>4, <1>5, <1>6, <1>7, <1>8 DEF WInv

(* InterruptHandler keeps the invariant. *)
LEMMA InterruptHandlerNext ==
  ASSUME WInv, Next, NEW s \in Sockets, InterruptHandler(s)
  PROVE  WInv'
<1>1. Steady /\ \A t \in Sockets : t # s => Same(t)
  BY InterruptHandlerFrame
<1>2. SocketInv(s)'
  BY InterruptHandlerKeeps
<1>3. \A t \in Sockets : SocketInv(t)'
  BY <1>1, <1>2, Bystander
<1>4. WTypes'
  BY TypesAfter DEF WTypes
<1>5. PostInv' /\ OnePost'
  <2>1. Len(posts) > 0 /\ posts[1].kind = "interrupt" /\ posts[1].s = s /\ Dropped(posts, posts')
    BY InterruptHandlerDoes
  <2>2. ASSUME NEW i \in 2..Len(posts), NEW p, p = posts[i]
        PROVE  Fine(p)'
    <3>1. Len(posts) \in Nat /\ i \in 1..Len(posts) /\ 1 \in 1..Len(posts) /\ i # 1
      BY <2>1, FineOf
    <3>2. Fine(p) /\ (p.kind \in Own => p.s # s)
      BY <2>1, <2>2, <3>1, FineOf DEF Own
    <3>3. p.kind \in Own => Same(p.s)
      BY <1>1, <3>2 DEF Fine
    <3> QED
      BY <1>1, <3>2, <3>3, FineElsewhere
  <2> QED
    BY <2>1, <2>2, PostsShrink
<1>6. HabitInv'
  BY <1>1, HabitStays, InterruptHandlerDoes
<1>7. CommandInv'
  BY <1>1, CommandStays, InterruptHandlerDoes
<1>8. LimitInv'
  <2>p. phase[s] = "http"
    <3>1. Len(posts) > 0 /\ posts[1].kind = "interrupt" /\ posts[1].s = s
      BY InterruptHandlerDoes
    <3>2. 1 \in 1..Len(posts)
      BY <3>1, FineOf
    <3>3. InterruptFine(posts[1])
      BY <3>2, FineOf DEF Fine
    <3> QED
      BY <3>1, <3>3 DEF InterruptFine
  <2>1. \A t \in Sockets : (Coming(t)' => Coming(t)) /\ (phase'[t] = "valid" => phase[t] = "valid")
    BY InterruptHandlerDoes, <2>p DEF Coming, Others
  <2>2. Upgraded' \subseteq Upgraded
    BY InterruptHandlerDoes, <2>p, TypesOf DEF Upgraded, Others, EntryTypes
  <2> QED
    BY <1>1, <2>1, <2>2, LimitStays DEF Steady
<1> QED
  BY <1>3, <1>4, <1>5, <1>6, <1>7, <1>8 DEF WInv

(* ClearTakes keeps the invariant. *)
LEMMA ClearTakesNext ==
  ASSUME WInv, Next, NEW s \in Sockets, ClearTakes(s)
  PROVE  WInv'
<1>1. Steady /\ \A t \in Sockets : t # s => Same(t)
  BY ClearTakesFrame
<1>2. SocketInv(s)' /\ PostsFine(s)
  BY ClearTakesKeeps
<1>3. \A t \in Sockets : SocketInv(t)'
  BY <1>1, <1>2, Bystander
<1>p. \A p : Fine(p) => Fine(p)'
  BY <1>1, <1>2, FineStays
<1>4. WTypes'
  BY TypesAfter DEF WTypes
<1>5. PostInv' /\ OnePost'
  BY <1>p, PostsStay, ClearTakesDoes
<1>6. HabitInv'
  BY <1>1, HabitStays, ClearTakesDoes
<1>7. CommandInv'
  BY <1>1, CommandStays, ClearTakesDoes
<1>8. LimitInv'
  <2>1. \A t \in Sockets : (Coming(t)' => Coming(t)) /\ (phase'[t] = "valid" => phase[t] = "valid")
    BY ClearTakesDoes DEF Coming, Others
  <2>2. Upgraded' \subseteq Upgraded
    BY ClearTakesDoes, TypesOf DEF Upgraded, Others, EntryTypes
  <2> QED
    BY <1>1, <2>1, <2>2, LimitStays DEF Steady
<1> QED
  BY <1>3, <1>4, <1>5, <1>6, <1>7, <1>8 DEF WInv

(* ClearJoins keeps the invariant. *)
LEMMA ClearJoinsNext ==
  ASSUME WInv, Next, NEW s \in Sockets, ClearJoins(s)
  PROVE  WInv'
<1>1. Steady /\ \A t \in Sockets : t # s => Same(t)
  BY ClearJoinsFrame
<1>2. SocketInv(s)' /\ PostsFine(s)
  BY ClearJoinsKeeps
<1>3. \A t \in Sockets : SocketInv(t)'
  BY <1>1, <1>2, Bystander
<1>p. \A p : Fine(p) => Fine(p)'
  BY <1>1, <1>2, FineStays
<1>4. WTypes'
  BY TypesAfter DEF WTypes
<1>5. PostInv' /\ OnePost'
  BY <1>p, PostsStay, ClearJoinsDoes
<1>6. HabitInv'
  BY <1>1, HabitStays, ClearJoinsDoes
<1>7. CommandInv'
  BY <1>1, CommandStays, ClearJoinsDoes
<1>8. LimitInv'
  BY <1>1, LimitStays, ClearJoinsDoes DEF Upgraded, Coming, Steady
<1> QED
  BY <1>3, <1>4, <1>5, <1>6, <1>7, <1>8 DEF WInv

(* UsesDestroyed keeps the invariant. *)
LEMMA UsesDestroyedNext ==
  ASSUME WInv, Next, NEW s \in Sockets, UsesDestroyed(s)
  PROVE  WInv'
<1>1. Steady /\ \A t \in Sockets : t # s => Same(t)
  BY UsesDestroyedFrame
<1>2. SocketInv(s)' /\ PostsFine(s)
  BY UsesDestroyedKeeps
<1>3. \A t \in Sockets : SocketInv(t)'
  BY <1>1, <1>2, Bystander
<1>p. \A p : Fine(p) => Fine(p)'
  BY <1>1, <1>2, FineStays
<1>4. WTypes'
  BY TypesAfter DEF WTypes
<1>5. PostInv' /\ OnePost'
  BY <1>p, PostsStay, UsesDestroyedDoes
<1>6. HabitInv'
  BY <1>1, HabitStays, UsesDestroyedDoes
<1>7. CommandInv'
  BY <1>1, CommandStays, UsesDestroyedDoes
<1>8. LimitInv'
  BY <1>1, LimitStays, UsesDestroyedDoes DEF Upgraded, Coming, Steady
<1> QED
  BY <1>3, <1>4, <1>5, <1>6, <1>7, <1>8 DEF WInv

(* ExecutorServes keeps the invariant. *)
LEMMA ExecutorServesNext ==
  ASSUME WInv, Next, NEW s \in Sockets, ExecutorServes(s)
  PROVE  WInv'
<1>1. Steady /\ \A t \in Sockets : t # s => Same(t)
  BY ExecutorServesFrame
<1>2. SocketInv(s)' /\ PostsFine(s)
  BY ExecutorServesKeeps
<1>3. \A t \in Sockets : SocketInv(t)'
  BY <1>1, <1>2, Bystander
<1>p. \A p : Fine(p) => Fine(p)'
  BY <1>1, <1>2, FineStays
<1>4. WTypes'
  BY TypesAfter DEF WTypes
<1>5. PostInv' /\ OnePost'
  <2>1. PICK p : p = [kind |-> IF phase[s] = "http" THEN "http" ELSE "send", s |-> s, req |-> buffer[s]]
    OBVIOUS
  <2>2. /\ Appended(posts, posts', p) /\ p.s = s /\ p.req = buffer[s]
        /\ p.kind = IF phase[s] = "http" THEN "http" ELSE "send"
    BY <2>1, ExecutorServesDoes
  <2>3. /\ epc[s] = "idle" /\ Len(work[s]) > 0 /\ work[s][1] = "work" /\ epc'[s] = "posting"
        /\ UNCHANGED <<phase, got, sent, io>>
    BY ExecutorServesDoes
  <2>4. /\ phase[s] \in {"open", "http", "closing"} /\ ~IoAt({"http_close"}, s)
        /\ phase[s] # "closing" => \E j \in Len(got[s]) + 1..Len(sent[s]) : buffer[s] = sent[s][j]
    BY <2>3, ServesNew
  <2>5. AnswerFine(p)'
    BY <2>2, <2>3, <2>4 DEF AnswerFine, Answers, IoAt
  <2>6. Fine(p)'
    BY <2>2, <2>5 DEF Fine, InterruptFine
  <2>7. Len(work[s]) \in Nat
    BY TypesOf, SizesOf DEF Sizes
  <2>8. ASSUME NEW i \in 1..Len(posts), posts[i].kind \in Own
        PROVE  posts[i].s # s
    BY <2>3, <2>7, <2>8, FineOf DEF Fine, Own, Answers, AnswerFine, InterruptFine, Serving, NoWork
  <2> QED
    BY <1>p, <2>2, <2>6, <2>8, PostsGrow
<1>6. HabitInv'
  <2>1. /\ buffer[s] \in 1..Len(reqs) /\ reqs[buffer[s]].s = s /\ reqs[buffer[s]].gen = gen[s]
    BY ExecutorServesDoes, ServesOwn
  <2>2. /\ signaled' = (signaled \/ reqs[buffer[s]].kind = "shutdown")
        /\ UNCHANGED <<reqs, wpc, io, owner, builtins>>
    BY ExecutorServesDoes
  <2>3. signaled' => "abrupt" \in habits
    BY <2>1, <2>2 DEF WInv, HabitInv, Asked
  <2> QED
    BY <1>1, <2>2, <2>3 DEF WInv, HabitInv, Asked, Steady
<1>7. CommandInv'
  <2>1. /\ buffer[s] \in 1..Len(reqs) /\ reqs[buffer[s]].s = s /\ reqs[buffer[s]].gen = gen[s]
    BY ExecutorServesDoes, ServesOwn
  <2>2. /\ cmds' \subseteq cmds \cup {buffer[s]} /\ UNCHANGED <<reqs, gen, late>> /\ habits' = habits
    BY <1>1, ExecutorServesDoes DEF Steady
  <2>3. CommandInv /\ (Gone' <=> Gone)
    BY <2>2 DEF WInv, Gone
  <2>4. cmds' \subseteq 1..Len(reqs')
    BY <2>1, <2>2, <2>3 DEF CommandInv
  <2>5. ~Gone => \A c \in cmds' : c \in late' \/ reqs'[c].gen = gen'[reqs'[c].s]
    BY <2>1, <2>2, <2>3 DEF CommandInv
  <2>6. Gives(s, buffer[s])
    BY ExecutorServesDoes
  <2>7. (\A p \in polled' : p[1] \in 1..Len(reqs')) /\ ResultsOwn'
    BY <2>1, <2>2, <2>6, GivesOwn
  <2> QED
    BY <2>2, <2>3, <2>4, <2>5, <2>7 DEF CommandInv
<1>8. LimitInv'
  BY <1>1, LimitStays, ExecutorServesDoes DEF Upgraded, Coming, Steady
<1> QED
  BY <1>3, <1>4, <1>5, <1>6, <1>7, <1>8 DEF WInv

(* ExecutorBlocks keeps the invariant. *)
LEMMA ExecutorBlocksNext ==
  ASSUME WInv, Next, NEW s \in Sockets, ExecutorBlocks(s)
  PROVE  WInv'
<1>1. Steady /\ \A t \in Sockets : t # s => Same(t)
  BY ExecutorBlocksFrame
<1>2. SocketInv(s)' /\ PostsFine(s)
  BY ExecutorBlocksKeeps
<1>3. \A t \in Sockets : SocketInv(t)'
  BY <1>1, <1>2, Bystander
<1>p. \A p : Fine(p) => Fine(p)'
  BY <1>1, <1>2, FineStays
<1>4. WTypes'
  BY TypesAfter DEF WTypes
<1>5. PostInv' /\ OnePost'
  BY <1>p, PostsStay, ExecutorBlocksDoes
<1>6. HabitInv'
  BY <1>1, HabitStays, ExecutorBlocksDoes
<1>7. CommandInv'
  <2>1. /\ buffer[s] \in 1..Len(reqs) /\ reqs[buffer[s]].s = s /\ reqs[buffer[s]].gen = gen[s]
    BY ExecutorBlocksDoes, ServesOwn
  <2>2. /\ cmds' \subseteq cmds \cup {buffer[s]} /\ UNCHANGED <<reqs, gen, late>> /\ habits' = habits
    BY <1>1, ExecutorBlocksDoes DEF Steady
  <2>3. CommandInv /\ (Gone' <=> Gone)
    BY <2>2 DEF WInv, Gone
  <2>4. cmds' \subseteq 1..Len(reqs')
    BY <2>1, <2>2, <2>3 DEF CommandInv
  <2>5. ~Gone => \A c \in cmds' : c \in late' \/ reqs'[c].gen = gen'[reqs'[c].s]
    BY <2>1, <2>2, <2>3 DEF CommandInv
  <2>6. polled' = polled
    BY ExecutorBlocksDoes
  <2> QED
    BY <2>2, <2>3, <2>4, <2>5, <2>6 DEF CommandInv, ResultsOwn
<1>8. LimitInv'
  BY <1>1, LimitStays, ExecutorBlocksDoes DEF Upgraded, Coming, Steady
<1> QED
  BY <1>3, <1>4, <1>5, <1>6, <1>7, <1>8 DEF WInv

(* ExecutorFlushes keeps the invariant. *)
LEMMA ExecutorFlushesNext ==
  ASSUME WInv, Next, NEW s \in Sockets, ExecutorFlushes(s)
  PROVE  WInv'
<1>1. Steady /\ \A t \in Sockets : t # s => Same(t)
  BY ExecutorFlushesFrame
<1>2. SocketInv(s)' /\ PostsFine(s)
  BY ExecutorFlushesKeeps
<1>3. \A t \in Sockets : SocketInv(t)'
  BY <1>1, <1>2, Bystander
<1>p. \A p : Fine(p) => Fine(p)'
  BY <1>1, <1>2, FineStays
<1>4. WTypes'
  BY TypesAfter DEF WTypes
<1>5. PostInv' /\ OnePost'
  <2>1. PICK p : p = [kind |-> IF phase[s] = "http" THEN "http" ELSE "send", s |-> s, req |-> serving[s]]
    OBVIOUS
  <2>2. /\ Appended(posts, posts', p) /\ p.s = s /\ p.req = serving[s]
        /\ p.kind = IF phase[s] = "http" THEN "http" ELSE "send"
    BY <2>1, ExecutorFlushesDoes
  <2>3. /\ epc[s] = "polling" /\ epc'[s] = "posting"
        /\ UNCHANGED <<phase, got, sent, io>>
    BY ExecutorFlushesDoes
  <2>4. /\ phase[s] \in {"open", "http", "closing"} /\ ~IoAt({"http_close"}, s)
        /\ phase[s] # "closing" => \E j \in Len(got[s]) + 1..Len(sent[s]) : serving[s] = sent[s][j]
    BY <2>3, FlushesOwn
  <2>5. AnswerFine(p)'
    BY <2>2, <2>3, <2>4 DEF AnswerFine, Answers, IoAt
  <2>6. Fine(p)'
    BY <2>2, <2>5 DEF Fine, InterruptFine
  <2>7. Len(work[s]) \in Nat
    BY TypesOf, SizesOf DEF Sizes
  <2>8. ASSUME NEW i \in 1..Len(posts), posts[i].kind \in Own
        PROVE  posts[i].s # s
    BY <2>3, <2>7, <2>8, FineOf DEF Fine, Own, Answers, AnswerFine, InterruptFine, Serving
  <2> QED
    BY <1>p, <2>2, <2>6, <2>8, PostsGrow
<1>6. HabitInv'
  BY <1>1, HabitStays, ExecutorFlushesDoes
<1>7. CommandInv'
  <2>1. /\ epc[s] = "polling" /\ Gives(s, serving[s]) /\ UNCHANGED <<reqs, gen, late, cmds>> /\ habits' = habits
    BY <1>1, ExecutorFlushesDoes DEF Steady
  <2>2. serving[s] \in 1..Len(reqs) /\ reqs[serving[s]].s = s
    BY <2>1, FlushesOwn
  <2>3. CommandInv /\ (Gone' <=> Gone)
    BY <2>1 DEF WInv, Gone
  <2>4. (\A p \in polled' : p[1] \in 1..Len(reqs')) /\ ResultsOwn'
    BY <2>1, <2>2, GivesOwn
  <2> QED
    BY <2>1, <2>3, <2>4 DEF CommandInv
<1>8. LimitInv'
  BY <1>1, LimitStays, ExecutorFlushesDoes DEF Upgraded, Coming, Steady
<1> QED
  BY <1>3, <1>4, <1>5, <1>6, <1>7, <1>8 DEF WInv

(* ExecutorTimesOut keeps the invariant. *)
LEMMA ExecutorTimesOutNext ==
  ASSUME WInv, Next, NEW s \in Sockets, ExecutorTimesOut(s)
  PROVE  WInv'
<1>1. Steady /\ \A t \in Sockets : t # s => Same(t)
  BY ExecutorTimesOutFrame
<1>2. SocketInv(s)' /\ PostsFine(s)
  BY ExecutorTimesOutKeeps
<1>3. \A t \in Sockets : SocketInv(t)'
  BY <1>1, <1>2, Bystander
<1>p. \A p : Fine(p) => Fine(p)'
  BY <1>1, <1>2, FineStays
<1>4. WTypes'
  BY TypesAfter DEF WTypes
<1>5. PostInv' /\ OnePost'
  BY <1>p, PostsStay, ExecutorTimesOutDoes
<1>6. HabitInv'
  BY <1>1, HabitStays, ExecutorTimesOutDoes
<1>7. CommandInv'
  BY <1>1, CommandStays, ExecutorTimesOutDoes
<1>8. LimitInv'
  BY <1>1, LimitStays, ExecutorTimesOutDoes DEF Upgraded, Coming, Steady
<1> QED
  BY <1>3, <1>4, <1>5, <1>6, <1>7, <1>8 DEF WInv

(* ExecutorEnds keeps the invariant. *)
LEMMA ExecutorEndsNext ==
  ASSUME WInv, Next, NEW s \in Sockets, ExecutorEnds(s)
  PROVE  WInv'
<1>1. Steady /\ \A t \in Sockets : t # s => Same(t)
  BY ExecutorEndsFrame
<1>2. SocketInv(s)' /\ PostsFine(s)
  BY ExecutorEndsKeeps
<1>3. \A t \in Sockets : SocketInv(t)'
  BY <1>1, <1>2, Bystander
<1>p. \A p : Fine(p) => Fine(p)'
  BY <1>1, <1>2, FineStays
<1>4. WTypes'
  BY TypesAfter DEF WTypes
<1>5. PostInv' /\ OnePost'
  BY <1>p, PostsStay, ExecutorEndsDoes
<1>6. HabitInv'
  BY <1>1, HabitStays, ExecutorEndsDoes
<1>7. CommandInv'
  BY <1>1, CommandStays, ExecutorEndsDoes
<1>8. LimitInv'
  BY <1>1, LimitStays, ExecutorEndsDoes DEF Upgraded, Coming, Steady
<1> QED
  BY <1>3, <1>4, <1>5, <1>6, <1>7, <1>8 DEF WInv

(* WorkerCreatesQueue keeps the invariant. *)
LEMMA WorkerCreatesQueueNext ==
  ASSUME WInv, Next, NEW s \in Sockets, WorkerCreatesQueue(s)
  PROVE  WInv'
<1>1. Steady /\ \A t \in Sockets : t # s => Same(t)
  BY WorkerCreatesQueueFrame
<1>2. SocketInv(s)' /\ PostsFine(s)
  BY WorkerCreatesQueueKeeps
<1>3. \A t \in Sockets : SocketInv(t)'
  BY <1>1, <1>2, Bystander
<1>p. \A p : Fine(p) => Fine(p)'
  BY <1>1, <1>2, FineStays
<1>4. WTypes'
  BY TypesAfter DEF WTypes
<1>5. PostInv' /\ OnePost'
  BY <1>p, PostsStay, WorkerCreatesQueueDoes
<1>6. HabitInv'
  BY <1>1, HabitStays, WorkerCreatesQueueDoes
<1>7. CommandInv'
  BY <1>1, CommandStays, WorkerCreatesQueueDoes
<1>8. LimitInv'
  BY <1>1, LimitStays, WorkerCreatesQueueDoes DEF Upgraded, Coming, Steady
<1> QED
  BY <1>3, <1>4, <1>5, <1>6, <1>7, <1>8 DEF WInv

(* WorkerDestroysQueue keeps the invariant. *)
LEMMA WorkerDestroysQueueNext ==
  ASSUME WInv, Next, NEW s \in Sockets, WorkerDestroysQueue(s)
  PROVE  WInv'
<1>1. Steady /\ \A t \in Sockets : t # s => Same(t)
  BY WorkerDestroysQueueFrame
<1>2. SocketInv(s)' /\ PostsFine(s)
  BY WorkerDestroysQueueKeeps
<1>3. \A t \in Sockets : SocketInv(t)'
  BY <1>1, <1>2, Bystander
<1>p. \A p : Fine(p) => Fine(p)'
  BY <1>1, <1>2, FineStays
<1>4. WTypes'
  BY TypesAfter DEF WTypes
<1>5. PostInv' /\ OnePost'
  BY <1>p, PostsStay, WorkerDestroysQueueDoes
<1>6. HabitInv'
  BY <1>1, HabitStays, WorkerDestroysQueueDoes
<1>7. CommandInv'
  BY <1>1, CommandStays, WorkerDestroysQueueDoes
<1>8. LimitInv'
  BY <1>1, LimitStays, WorkerDestroysQueueDoes DEF Upgraded, Coming, Steady
<1> QED
  BY <1>3, <1>4, <1>5, <1>6, <1>7, <1>8 DEF WInv

(* ClientConnects keeps the invariant. *)
LEMMA ClientConnectsNext ==
  ASSUME WInv, Next, NEW s \in Sockets, ClientConnects(s)
  PROVE  WInv'
<1>1. Steady /\ \A t \in Sockets : t # s => Same(t)
  BY ClientConnectsFrame
<1>2. SocketInv(s)' /\ PostsFine(s)
  BY ClientConnectsKeeps
<1>3. \A t \in Sockets : SocketInv(t)'
  BY <1>1, <1>2, Bystander
<1>p. \A p : Fine(p) => Fine(p)'
  BY <1>1, <1>2, FineStays
<1>4. WTypes'
  BY TypesAfter DEF WTypes
<1>5. PostInv' /\ OnePost'
  BY <1>p, PostsStay, ClientConnectsDoes
<1>6. HabitInv'
  <2>1. HabitInv /\ habits' = habits /\ UNCHANGED <<signaled, wpc, io, owner, builtins>>
    BY <1>1, ClientConnectsDoes DEF WInv, Steady
  <2>2. PICK r : r = [s |-> s, gen |-> gen[s] + 1, kind |-> "run", queue |-> s]
    OBVIOUS
  <2>3. Asked(r)
    BY <2>2, ClientConnectsDoes DEF Asked
  <2>4. reqs' = reqs \/ Appended(reqs, reqs', r)
    BY <2>2, ClientConnectsDoes
  <2>5. \A i \in 1..Len(reqs') : Asked(reqs'[i])
    <3>1. Len(reqs) \in Nat /\ \A i \in 1..Len(reqs) : Asked(reqs[i])
      BY <2>1, TypesOf DEF LinkTypes, HabitInv
    <3>2. CASE reqs' = reqs
      BY <3>1, <3>2
    <3>3. ASSUME Appended(reqs, reqs', r), NEW i \in 1..Len(reqs')
          PROVE  Asked(reqs'[i])
      <4>1. i \in 1..Len(reqs) \/ i = Len(reqs) + 1
        BY <3>1, <3>3 DEF Appended
      <4>2. PICK x : x = reqs'[i]
        OBVIOUS
      <4>3. x = r \/ \E n \in 1..Len(reqs) : x = reqs[n]
        BY <3>3, <4>1, <4>2 DEF Appended
      <4> QED
        BY <2>3, <3>1, <4>2, <4>3
    <3> QED
      BY <2>4, <3>2, <3>3
  <2> QED
    BY <2>1, <2>5 DEF HabitInv, Asked
<1>7. CommandInv'
  <2>1. /\ UNCHANGED <<cmds, polled, late>> /\ phase[s] = "free" /\ habits' = habits
        /\ \A t \in Sockets : t # s => gen'[t] = gen[t]
    BY <1>1, ClientConnectsDoes DEF Steady, Others
  <2>2. CommandInv /\ LateInv(s) /\ (Gone' <=> Gone)
    BY <2>1 DEF WInv, SocketInv, Gone
  <2>3. /\ Len(reqs) \in Nat /\ \A i \in 1..Len(reqs) : reqs'[i] = reqs[i] /\ i \in 1..Len(reqs')
    BY <1>1 DEF Steady
  <2>4. cmds \subseteq 1..Len(reqs) /\ \A c \in cmds : reqs[c].s \in Sockets
    <3>1. reqs \in Seq(Requests)
      BY TypesOf DEF LinkTypes
    <3>2. \A i \in 1..Len(reqs) : reqs[i] \in Requests
      BY <3>1
    <3> QED
      BY <2>2, <3>2 DEF CommandInv, Requests
  <2>5. ~Gone => \A c \in cmds : c \in late \/ reqs'[c].gen = gen'[reqs'[c].s]
    BY <2>1, <2>2, <2>3, <2>4 DEF CommandInv, LateInv, Settled
  <2>6. \A p \in polled : p[1] \in 1..Len(reqs) /\ reqs'[p[1]] = reqs[p[1]] /\ p[1] \in 1..Len(reqs')
    BY <2>2, <2>3 DEF CommandInv
  <2>7. ResultsOwn'
    BY <2>1, <2>2, <2>6 DEF CommandInv, ResultsOwn
  <2> QED
    BY <2>1, <2>2, <2>3, <2>4, <2>5, <2>6, <2>7 DEF CommandInv
<1>8. LimitInv'
  <2>0. /\ LimitInv /\ habits' = habits /\ Upgraded \in SUBSET Sockets /\ MaxConnections \in Nat
        /\ ws_conns \in SUBSET Sockets
    BY <1>1, TypesOf, ServerAssumption DEF WInv, Steady, Upgraded, EntryTypes
  <2>1. /\ phase[s] = "free" /\ UNCHANGED ws_conns /\ \A t \in Sockets : t # s => phase'[t] = phase[t]
        /\ \/ phase'[s] = "http"
           \/ /\ phase'[s] = "handshake"
              /\ "overlaps" \in habits \/ \A t \in Sockets : phase[t] \notin {"handshake", "valid"}
    BY ClientConnectsDoes DEF Others
  <2>2. s \notin ws_conns
    BY <2>1 DEF WInv, SocketInv, PhaseInv
  <2>3. Upgraded' = Upgraded
    BY <2>0, <2>1, <2>2 DEF Upgraded
  <2>4. \A t \in Sockets : phase'[t] = "valid" => phase[t] = "valid" /\ t # s
    BY <2>1
  <2>5. "overlaps" \notin habits => \A t, u \in Sockets : Coming(t)' /\ Coming(u)' => t = u
    BY <2>0, <2>1 DEF LimitInv, Coming
  <2> QED
    BY <2>0, <2>3, <2>4, <2>5 DEF LimitInv
<1> QED
  BY <1>3, <1>4, <1>5, <1>6, <1>7, <1>8 DEF WInv

(* ClientCloses keeps the invariant. *)
LEMMA ClientClosesNext ==
  ASSUME WInv, Next, NEW s \in Sockets, ClientCloses(s)
  PROVE  WInv'
<1>1. Steady /\ \A t \in Sockets : t # s => Same(t)
  BY ClientClosesFrame
<1>2. SocketInv(s)' /\ PostsFine(s)
  BY ClientClosesKeeps
<1>3. \A t \in Sockets : SocketInv(t)'
  BY <1>1, <1>2, Bystander
<1>p. \A p : Fine(p) => Fine(p)'
  BY <1>1, <1>2, FineStays
<1>4. WTypes'
  BY TypesAfter DEF WTypes
<1>5. PostInv' /\ OnePost'
  BY <1>p, PostsStay, ClientClosesDoes
<1>6. HabitInv'
  BY <1>1, HabitStays, ClientClosesDoes
<1>7. CommandInv'
  BY <1>1, CommandStays, ClientClosesDoes
<1>8. LimitInv'
  BY <1>1, LimitStays, ClientClosesDoes DEF Upgraded, Coming, Steady
<1> QED
  BY <1>3, <1>4, <1>5, <1>6, <1>7, <1>8 DEF WInv

(* ClientSends keeps the invariant. *)
LEMMA ClientSendsNext ==
  ASSUME WInv, Next, NEW s \in Sockets, NEW k \in Kinds, NEW q \in Names(s, k), ClientSends(s, k, q)
  PROVE  WInv'
<1>1. Steady /\ \A t \in Sockets : t # s => Same(t)
  BY ClientSendsFrame
<1>2. SocketInv(s)' /\ PostsFine(s)
  BY ClientSendsKeeps
<1>3. \A t \in Sockets : SocketInv(t)'
  BY <1>1, <1>2, Bystander
<1>p. \A p : Fine(p) => Fine(p)'
  BY <1>1, <1>2, FineStays
<1>4. WTypes'
  BY TypesAfter DEF WTypes
<1>5. PostInv' /\ OnePost'
  BY <1>p, PostsStay, ClientSendsDoes
<1>6. HabitInv'
  <2>1. HabitInv /\ habits' = habits /\ UNCHANGED <<signaled, wpc, io, owner, builtins>>
    BY <1>1, ClientSendsDoes DEF WInv, Steady
  <2>2. PICK r : r = [s |-> s, gen |-> gen[s], kind |-> k, queue |-> q]
    OBVIOUS
  <2>3. Asked(r)
    BY <2>2, ClientSendsDoes DEF Asked
  <2>4. reqs' = reqs \/ Appended(reqs, reqs', r)
    BY <2>2, ClientSendsDoes
  <2>5. \A i \in 1..Len(reqs') : Asked(reqs'[i])
    <3>1. Len(reqs) \in Nat /\ \A i \in 1..Len(reqs) : Asked(reqs[i])
      BY <2>1, TypesOf DEF LinkTypes, HabitInv
    <3>2. CASE reqs' = reqs
      BY <3>1, <3>2
    <3>3. ASSUME Appended(reqs, reqs', r), NEW i \in 1..Len(reqs')
          PROVE  Asked(reqs'[i])
      <4>1. i \in 1..Len(reqs) \/ i = Len(reqs) + 1
        BY <3>1, <3>3 DEF Appended
      <4>2. PICK x : x = reqs'[i]
        OBVIOUS
      <4>3. x = r \/ \E n \in 1..Len(reqs) : x = reqs[n]
        BY <3>3, <4>1, <4>2 DEF Appended
      <4> QED
        BY <2>3, <3>1, <4>2, <4>3
    <3> QED
      BY <2>4, <3>2, <3>3
  <2> QED
    BY <2>1, <2>5 DEF HabitInv, Asked
<1>7. CommandInv'
  BY <1>1, CommandStays, ClientSendsDoes
<1>8. LimitInv'
  BY <1>1, LimitStays, ClientSendsDoes DEF Upgraded, Coming, Steady
<1> QED
  BY <1>3, <1>4, <1>5, <1>6, <1>7, <1>8 DEF WInv

(* PostReadsState keeps the invariant. *)
LEMMA PostReadsStateNext ==
  ASSUME WInv, Next, PostReadsState
  PROVE  WInv'
<1>1. Steady /\ \A t \in Sockets : Same(t)
  BY PostReadsStateFrame
<1>3. \A t \in Sockets : SocketInv(t)'
  BY <1>1, Bystander
<1>p. \A p : Fine(p) => Fine(p)'
  BY <1>1, FineElsewhere DEF Fine
<1>4. WTypes'
  BY TypesAfter DEF WTypes
<1>5. PostInv' /\ OnePost'
  <2>1. Len(posts) > 0 /\ Dropped(posts, posts')
    BY PostReadsStateDoes
  <2>2. ASSUME NEW i \in 2..Len(posts), NEW p, p = posts[i]
        PROVE  Fine(p)'
    <3>1. Fine(p)
      BY <2>2, FineOf
    <3> QED
      BY <1>p, <3>1
  <2> QED
    BY <2>1, <2>2, PostsShrink
<1>6. HabitInv'
  BY <1>1, HabitStays, PostReadsStateDoes
<1>7. CommandInv'
  BY <1>1, CommandStays, PostReadsStateDoes
<1>8. LimitInv'
  BY <1>1, LimitStays, PostReadsStateDoes DEF Upgraded, Coming, Steady
<1> QED
  BY <1>3, <1>4, <1>5, <1>6, <1>7, <1>8 DEF WInv

(* WorkerShutsDown keeps the invariant. *)
LEMMA WorkerShutsDownNext ==
  ASSUME WInv, Next, WorkerShutsDown
  PROVE  WInv'
<1>1. Steady /\ \A t \in Sockets : Same(t)
  BY WorkerShutsDownFrame
<1>3. \A t \in Sockets : SocketInv(t)'
  BY <1>1, Bystander
<1>p. \A p : Fine(p) => Fine(p)'
  BY <1>1, FineElsewhere DEF Fine
<1>4. WTypes'
  BY TypesAfter DEF WTypes
<1>5. PostInv' /\ OnePost'
  BY <1>p, PostsStay, WorkerShutsDownDoes
<1>6. HabitInv'
  <2>1. /\ <<"shutdown", 0>> \in builtins /\ <<"shutdown", 0>> \notin builtins'
        /\ wpc' = "gone" /\ UNCHANGED <<reqs, signaled, io, owner>>
    BY WorkerShutsDownDoes
  <2> QED
    BY <1>1, <2>1 DEF WInv, HabitInv, Asked, Steady
<1>7. CommandInv'
  BY <1>1, CommandStays, WorkerShutsDownDoes
<1>8. LimitInv'
  BY <1>1, LimitStays, WorkerShutsDownDoes DEF Upgraded, Coming, Steady
<1> QED
  BY <1>3, <1>4, <1>5, <1>6, <1>7, <1>8 DEF WInv

(* WorkerAsksState keeps the invariant. *)
LEMMA WorkerAsksStateNext ==
  ASSUME WInv, Next, NEW c \in cmds, WorkerAsksState(c)
  PROVE  WInv'
<1>1. Steady /\ \A t \in Sockets : Same(t)
  BY WorkerAsksStateFrame
<1>3. \A t \in Sockets : SocketInv(t)'
  BY <1>1, Bystander
<1>p. \A p : Fine(p) => Fine(p)'
  BY <1>1, FineElsewhere DEF Fine
<1>4. WTypes'
  BY TypesAfter DEF WTypes
<1>5. PostInv' /\ OnePost'
  <2>1. PICK q : q = [kind |-> "state", s |-> 0, req |-> c]
    OBVIOUS
  <2>2. Appended(posts, posts', q) /\ q.kind = "state"
    BY <2>1, WorkerAsksStateDoes
  <2>3. Fine(q)' /\ q.kind \notin Own
    BY <2>2 DEF Fine, Own, Answers, AnswerFine, InterruptFine
  <2> QED
    BY <1>p, <2>2, <2>3, PostsGrow
<1>6. HabitInv'
  <2>1. c \in 1..Len(reqs)
    BY DEF WInv, CommandInv
  <2>2. reqs[c].kind = "state" /\ UNCHANGED <<reqs, signaled, io, owner, builtins>> /\ wpc' = "asking"
    BY WorkerAsksStateDoes
  <2> QED
    BY <1>1, <2>1, <2>2 DEF WInv, HabitInv, Asked, Steady
<1>7. CommandInv'
  BY <1>1, CommandStays, WorkerAsksStateDoes
<1>8. LimitInv'
  BY <1>1, LimitStays, WorkerAsksStateDoes DEF Upgraded, Coming, Steady
<1> QED
  BY <1>3, <1>4, <1>5, <1>6, <1>7, <1>8 DEF WInv

(* StopsManager keeps the invariant. *)
LEMMA StopsManagerNext ==
  ASSUME WInv, Next, StopsManager
  PROVE  WInv'
<1>1. Steady /\ \A t \in Sockets : Same(t)
  BY StopsManagerFrame
<1>3. \A t \in Sockets : SocketInv(t)'
  BY <1>1, Bystander
<1>p. \A p : Fine(p) => Fine(p)'
  BY <1>1, FineElsewhere DEF Fine
<1>4. WTypes'
  BY TypesAfter DEF WTypes
<1>5. PostInv' /\ OnePost'
  BY <1>p, PostsStay, StopsManagerDoes
<1>6. HabitInv'
  <2>1. owner' = "stopping" /\ UNCHANGED <<reqs, signaled, io, wpc>>
    BY StopsManagerDoes
  <2> QED
    BY <1>1, <2>1 DEF WInv, HabitInv, Asked, Steady
<1>7. CommandInv'
  BY <1>1, CommandStays, StopsManagerDoes
<1>8. LimitInv'
  BY <1>1, LimitStays, StopsManagerDoes DEF Upgraded, Coming, Steady
<1> QED
  BY <1>3, <1>4, <1>5, <1>6, <1>7, <1>8 DEF WInv

(* DestroysServer keeps the invariant. *)
LEMMA DestroysServerNext ==
  ASSUME WInv, Next, DestroysServer
  PROVE  WInv'
<1>1. Steady /\ \A t \in Sockets : Same(t)
  BY DestroysServerFrame
<1>3. \A t \in Sockets : SocketInv(t)'
  BY <1>1, Bystander
<1>p. \A p : Fine(p) => Fine(p)'
  BY <1>1, FineElsewhere DEF Fine
<1>4. WTypes'
  BY TypesAfter DEF WTypes
<1>5. PostInv' /\ OnePost'
  BY <1>p, PostsStay, DestroysServerDoes
<1>6. HabitInv'
  BY <1>1, HabitStays, DestroysServerDoes
<1>7. CommandInv'
  BY <1>1, CommandStays, DestroysServerDoes
<1>8. LimitInv'
  BY <1>1, LimitStays, DestroysServerDoes DEF Upgraded, Coming, Steady
<1> QED
  BY <1>3, <1>4, <1>5, <1>6, <1>7, <1>8 DEF WInv

(* JoinsIo keeps the invariant. *)
LEMMA JoinsIoNext ==
  ASSUME WInv, Next, JoinsIo
  PROVE  WInv'
<1>1. Steady /\ \A t \in Sockets : Same(t)
  BY JoinsIoFrame
<1>3. \A t \in Sockets : SocketInv(t)'
  BY <1>1, Bystander
<1>p. \A p : Fine(p) => Fine(p)'
  BY <1>1, FineElsewhere DEF Fine
<1>4. WTypes'
  BY TypesAfter DEF WTypes
<1>5. PostInv' /\ OnePost'
  BY <1>p, PostsStay, JoinsIoDoes
<1>6. HabitInv'
  BY <1>1, HabitStays, JoinsIoDoes
<1>7. CommandInv'
  BY <1>1, CommandStays, JoinsIoDoes
<1>8. LimitInv'
  BY <1>1, LimitStays, JoinsIoDoes DEF Upgraded, Coming, Steady
<1> QED
  BY <1>3, <1>4, <1>5, <1>6, <1>7, <1>8 DEF WInv

(* TextHandler keeps the invariant. *)
LEMMA TextHandlerNext ==
  ASSUME WInv, Next, NEW s \in Sockets, TextHandler(s)
  PROVE  WInv'
<1>1. Steady /\ \A t \in Sockets : Same(t)
  BY TextHandlerFrame
<1>3. \A t \in Sockets : SocketInv(t)'
  BY <1>1, Bystander
<1>p. \A p : Fine(p) => Fine(p)'
  BY <1>1, FineElsewhere DEF Fine
<1>4. WTypes'
  BY TypesAfter DEF WTypes
<1>5. PostInv' /\ OnePost'
  BY <1>p, PostsStay, TextHandlerDoes
<1>6. HabitInv'
  BY <1>1, HabitStays, TextHandlerDoes
<1>7. CommandInv'
  BY <1>1, CommandStays, TextHandlerDoes
<1>8. LimitInv'
  BY <1>1, LimitStays, TextHandlerDoes DEF Upgraded, Coming, Steady
<1> QED
  BY <1>3, <1>4, <1>5, <1>6, <1>7, <1>8 DEF WInv

(* ClientSendsText keeps the invariant. *)
LEMMA ClientSendsTextNext ==
  ASSUME WInv, Next, NEW s \in Sockets, ClientSendsText(s)
  PROVE  WInv'
<1>1. Steady /\ \A t \in Sockets : Same(t)
  BY ClientSendsTextFrame
<1>3. \A t \in Sockets : SocketInv(t)'
  BY <1>1, Bystander
<1>p. \A p : Fine(p) => Fine(p)'
  BY <1>1, FineElsewhere DEF Fine
<1>4. WTypes'
  BY TypesAfter DEF WTypes
<1>5. PostInv' /\ OnePost'
  BY <1>p, PostsStay, ClientSendsTextDoes
<1>6. HabitInv'
  <2>1. HabitInv /\ habits' = habits /\ UNCHANGED <<signaled, wpc, io, owner, builtins>>
    BY <1>1, ClientSendsTextDoes DEF WInv, Steady
  <2>2. PICK r : r = [s |-> s, gen |-> gen[s], kind |-> "text", queue |-> s]
    OBVIOUS
  <2>3. Asked(r)
    BY <2>2, ClientSendsTextDoes DEF Asked
  <2>4. reqs' = reqs \/ Appended(reqs, reqs', r)
    BY <2>2, ClientSendsTextDoes
  <2>5. \A i \in 1..Len(reqs') : Asked(reqs'[i])
    <3>1. Len(reqs) \in Nat /\ \A i \in 1..Len(reqs) : Asked(reqs[i])
      BY <2>1, TypesOf DEF LinkTypes, HabitInv
    <3>2. CASE reqs' = reqs
      BY <3>1, <3>2
    <3>3. ASSUME Appended(reqs, reqs', r), NEW i \in 1..Len(reqs')
          PROVE  Asked(reqs'[i])
      <4>1. i \in 1..Len(reqs) \/ i = Len(reqs) + 1
        BY <3>1, <3>3 DEF Appended
      <4>2. PICK x : x = reqs'[i]
        OBVIOUS
      <4>3. x = r \/ \E n \in 1..Len(reqs) : x = reqs[n]
        BY <3>3, <4>1, <4>2 DEF Appended
      <4> QED
        BY <2>3, <3>1, <4>2, <4>3
    <3> QED
      BY <2>4, <3>2, <3>3
  <2> QED
    BY <2>1, <2>5 DEF HabitInv, Asked
<1>7. CommandInv'
  BY <1>1, CommandStays, ClientSendsTextDoes
<1>8. LimitInv'
  BY <1>1, LimitStays, ClientSendsTextDoes DEF Upgraded, Coming, Steady
<1> QED
  BY <1>3, <1>4, <1>5, <1>6, <1>7, <1>8 DEF WInv


-----------------------------------------------------------------------------
(* A command ends: its result goes to the queue of its socket. *)
LEMMA FinishesNext ==
  ASSUME WInv, Next, NEW c \in cmds, cmds' = cmds \ {c}, wpc' \notin {"asking", "gone"},
         reqs[c].s \in queues => /\ Others(results, results', reqs[c].s)
                                 /\ results'[reqs[c].s] = results[reqs[c].s] \cup {c},
         reqs[c].s \notin queues => results' = results,
         UNCHANGED <<phase, gen, inbox, reqs, sent, ws_conns, buffer, work, serving, epc, posts, io,
                     builtins, queues, late, owner, signaled, got, polled>>
  PROVE  WInv'
<1>h. habits' = habits /\ (Gone' <=> Gone)
  BY DEF Next, Gone
<1>c. CommandInv /\ cmds \subseteq 1..Len(reqs)
  BY DEF WInv, CommandInv
<1>1. ASSUME NEW t \in Sockets
      PROVE  SocketInv(t)' /\ PostsFine(t)
  <2>s. /\ ExecutorInv(t) /\ PhaseInv(t) /\ IoInv(t) /\ MailInv(t) /\ BufferInv(t) /\ CountInv(t)
        /\ HttpInv(t) /\ QueueInv(t) /\ LateInv(t) /\ ResultInv(t) /\ AnswersInv(t)
    BY DEF WInv, SocketInv
  <2>1. ExecutorInv(t)'
    BY <2>s, <1>h DEF ExecutorInv, IoAt, Ending, Joining
  <2>2. PhaseInv(t)'
    BY <2>s, <1>h DEF PhaseInv, IoAt, Clearing
  <2>3. IoInv(t)'
    BY <2>s, <1>h DEF IoInv, IoAt
  <2>4. MailInv(t)'
    BY <2>s, <1>h DEF MailInv, Unread, Parting
  <2>5. BufferInv(t)'
    BY <2>s, <1>h DEF BufferInv, NoWork
  <2>6. CountInv(t)'
    BY <2>s, <1>h DEF CountInv, IoAt, Joining, Parting, Unread, Undone, Pushing, Posting, Serving
  <2>7. HttpInv(t)'
    BY <2>s, <1>h DEF HttpInv, IoAt, NoWork, Serving
  <2>8. QueueInv(t)'
    BY <2>s, <1>h DEF QueueInv, IoAt
  <2>9. AnswersInv(t)'
    BY <2>s, <1>h DEF AnswersInv
  <2>10. Settled(t) => Settled(t)'
    BY DEF Settled
  <2>11. LateInv(t)'
    BY <2>s, <1>h, <2>10 DEF LateInv, Serving, IoAt
  <2>12. ResultInv(t)'
    <3>1. CASE reqs[c].s = t /\ t \in queues
      <4>1. results'[t] = results[t] \cup {c}
        BY <3>1
      <4>2. c \in 1..Len(reqs) /\ (~Gone => c \in late \/ reqs[c].gen = gen[t])
        BY <1>c, <3>1 DEF CommandInv
      <4> QED
        BY <2>s, <1>h, <3>1, <4>1, <4>2 DEF ResultInv
    <3>2. CASE ~(reqs[c].s = t /\ t \in queues)
      <4>1. results'[t] = results[t]
        BY <3>2 DEF Others
      <4> QED
        BY <2>s, <1>h, <4>1 DEF ResultInv
    <3> QED
      BY <3>1, <3>2
  <2>13. PostsFine(t)
    <3> SUFFICES ASSUME NEW p, p.kind \in Own, p.s = t, AnswerFine(p), InterruptFine(p)
                 PROVE  AnswerFine(p)' /\ InterruptFine(p)'
      BY DEF PostsFine
    <3>1. AnswerFine(p)'
      BY DEF AnswerFine, Answers, IoAt
    <3>2. InterruptFine(p)'
      BY <1>h, <2>10 DEF InterruptFine, Serving, IoAt, NoWork
    <3> QED
      BY <3>1, <3>2
  <2> QED
    BY <2>1, <2>2, <2>3, <2>4, <2>5, <2>6, <2>7, <2>8, <2>9, <2>11, <2>12, <2>13 DEF SocketInv
<1>2. ASSUME NEW p, Fine(p)
      PROVE  Fine(p)'
  <2>1. CASE p.kind \in Own
    <3>1. AnswerFine(p)' /\ InterruptFine(p)'
      BY <1>1, <1>2, <2>1 DEF Fine, PostsFine
    <3> QED
      BY <1>2, <2>1, <3>1 DEF Fine
  <2>2. CASE p.kind \notin Own
    BY <1>2, <2>2 DEF Fine, Own, Answers, AnswerFine, InterruptFine
  <2> QED
    BY <2>1, <2>2
<1>3. PostInv' /\ OnePost'
  BY <1>2, PostsStay
<1>4. Steady
  <2>1. Len(reqs) \in Nat
    BY TypesOf DEF LinkTypes
  <2> QED
    BY <1>h, <2>1 DEF Steady
<1>5. HabitInv' /\ CommandInv'
  BY <1>4, HabitStays, CommandStays
<1>6. LimitInv'
  BY <1>h, LimitStays DEF Upgraded, Coming
<1>7. WTypes'
  BY TypesAfter DEF WTypes
<1> QED
  BY <1>1, <1>3, <1>5, <1>6, <1>7 DEF WInv

(* WorkerRuns keeps the invariant. *)
LEMMA WorkerRunsNext ==
  ASSUME WInv, Next, NEW c \in cmds, WorkerRuns(c)
  PROVE  WInv'
<1>1. wpc' \notin {"asking", "gone"}
  BY DEF WorkerRuns
<1> QED
  BY <1>1, WorkerRunsDoes, FinishesNext

(* WorkerHasState keeps the invariant. *)
LEMMA WorkerHasStateNext ==
  ASSUME WInv, Next, NEW c \in cmds, WorkerHasState(c)
  PROVE  WInv'
<1>1. wpc' \notin {"asking", "gone"}
  BY DEF WorkerHasState
<1> QED
  BY <1>1, WorkerHasStateDoes, FinishesNext

(* ShutdownBegins may come at any time. *)
LEMMA ShutdownBeginsNext ==
  ASSUME WInv, Next, ShutdownBegins
  PROVE  WInv'
<1>h. habits' = habits /\ (Gone' <=> Gone)
  BY DEF Next, Gone
<1>d. /\ owner = "running"
      /\ owner' = "closing"
      /\ Appended(posts, posts', [kind |-> "closeall", s |-> 0, req |-> 0])
  BY ShutdownBeginsDoes
<1>u. /\ UNCHANGED <<phase, gen, inbox, reqs, sent, ws_conns, buffer, work, serving, epc, io,
         builtins, cmds, wpc, queues, results, late, signaled, got, polled>>
  BY ShutdownBeginsDoes
<1>1. ASSUME NEW t \in Sockets
      PROVE  SocketInv(t)' /\ PostsFine(t)
  <2>s. /\ ExecutorInv(t) /\ PhaseInv(t) /\ IoInv(t) /\ MailInv(t) /\ BufferInv(t) /\ CountInv(t)
        /\ HttpInv(t) /\ QueueInv(t) /\ LateInv(t) /\ ResultInv(t) /\ AnswersInv(t)
    BY DEF WInv, SocketInv
  <2>1. ExecutorInv(t)'
    BY <2>s, <1>h, <1>d, <1>u DEF ExecutorInv, IoAt, Ending, Joining
  <2>2. PhaseInv(t)'
    BY <2>s, <1>h, <1>d, <1>u DEF PhaseInv, IoAt, Clearing
  <2>3. IoInv(t)'
    BY <2>s, <1>h, <1>d, <1>u DEF IoInv, IoAt
  <2>4. MailInv(t)'
    BY <2>s, <1>h, <1>d, <1>u DEF MailInv, Unread, Parting
  <2>5. BufferInv(t)'
    BY <2>s, <1>h, <1>d, <1>u DEF BufferInv, NoWork
  <2>6. CountInv(t)'
    BY <2>s, <1>h, <1>d, <1>u DEF CountInv, IoAt, Joining, Parting, Unread, Undone, Pushing, Posting, Serving
  <2>7. HttpInv(t)'
    BY <2>s, <1>h, <1>d, <1>u DEF HttpInv, IoAt, NoWork, Serving
  <2>8. QueueInv(t)'
    BY <2>s, <1>h, <1>d, <1>u DEF QueueInv, IoAt
  <2>9. LateInv(t)'
    BY <2>s, <1>h, <1>d, <1>u DEF LateInv, IoAt, Settled, Serving
  <2>10. ResultInv(t)'
    BY <2>s, <1>h, <1>d, <1>u DEF ResultInv
  <2>11. AnswersInv(t)'
    BY <2>s, <1>h, <1>d, <1>u DEF AnswersInv
  <2>12. PostsFine(t)
    <3> SUFFICES ASSUME NEW p, p.kind \in Own, p.s = t, AnswerFine(p), InterruptFine(p)
                 PROVE  AnswerFine(p)' /\ InterruptFine(p)'
      BY DEF PostsFine
    <3>1. AnswerFine(p)'
      BY <1>d, <1>u DEF AnswerFine, Answers, IoAt
    <3>2. InterruptFine(p)'
      BY <1>h, <1>d, <1>u DEF InterruptFine, Serving, IoAt, NoWork, Settled
    <3> QED
      BY <3>1, <3>2
  <2> QED
    BY <2>1, <2>2, <2>3, <2>4, <2>5, <2>6, <2>7, <2>8, <2>9, <2>10, <2>11, <2>12 DEF SocketInv
<1>2. ASSUME NEW p, Fine(p)
      PROVE  Fine(p)'
  <2>1. CASE p.kind \in Own
    <3>1. AnswerFine(p)' /\ InterruptFine(p)'
      BY <1>1, <1>2, <2>1 DEF Fine, PostsFine
    <3> QED
      BY <1>2, <2>1, <3>1 DEF Fine, Own
  <2>2. CASE p.kind \notin Own
    BY <1>2, <2>2, <1>d, <1>u DEF Fine, Own, Answers, AnswerFine, InterruptFine
  <2> QED
    BY <2>1, <2>2
<1>3. PostInv' /\ OnePost'
  <2>1. PICK q : q = [kind |-> "closeall", s |-> 0, req |-> 0]
    OBVIOUS
  <2>2. Appended(posts, posts', q) /\ q.kind = "closeall"
    BY <1>d, <2>1
  <2>3. Fine(q)' /\ q.kind \notin Own
    BY <1>d, <2>2 DEF Fine, Own, Answers, AnswerFine, InterruptFine
  <2> QED
    BY <1>2, <2>2, <2>3, PostsGrow
<1>4. HabitInv'
  BY <1>h, <1>d, <1>u DEF WInv, HabitInv, Asked
<1>5. CommandInv'
  <2>1. CommandInv
    BY DEF WInv
  <2> QED
    BY <1>h, <1>u, <2>1 DEF CommandInv, ResultsOwn
<1>6. LimitInv'
  BY <1>h, <1>u, LimitStays DEF Upgraded, Coming
<1>7. WTypes'
  BY TypesAfter DEF WTypes
<1> QED
  BY <1>1, <1>3, <1>4, <1>5, <1>6, <1>7 DEF WInv

(* PostClosesAll leaves no connection open. *)
LEMMA PostClosesAllNext ==
  ASSUME WInv, Next, PostClosesAll
  PROVE  WInv'
<1>h. habits' = habits /\ (Gone' <=> Gone)
  BY DEF Next, Gone
<1>d. /\ io.at = "idle"
      /\ io'.at = "clearing"
      /\ \A t \in Sockets : phase'[t] = IF t \in ws_conns /\ phase[t] = "open" THEN "closing"
         ELSE phase[t]
      /\ Len(posts) > 0
      /\ posts[1].kind = "closeall"
      /\ Dropped(posts, posts')
  BY PostClosesAllDoes
<1>u. /\ UNCHANGED <<gen, inbox, reqs, sent, ws_conns, buffer, work, serving, epc, builtins,
         cmds, wpc, queues, results, late, owner, signaled, got, polled>>
  BY PostClosesAllDoes
<1>q. owner # "running"
  <2>1. 1 \in 1..Len(posts)
    BY <1>d, FineOf
  <2> QED
    BY <1>d, <2>1, FineOf DEF Fine
<1>1. ASSUME NEW t \in Sockets
      PROVE  SocketInv(t)' /\ PostsFine(t)
  <2>s. /\ ExecutorInv(t) /\ PhaseInv(t) /\ IoInv(t) /\ MailInv(t) /\ BufferInv(t) /\ CountInv(t)
        /\ HttpInv(t) /\ QueueInv(t) /\ LateInv(t) /\ ResultInv(t) /\ AnswersInv(t)
    BY DEF WInv, SocketInv
  <2>p. /\ phase'[t] = IF phase[t] = "open" THEN "closing" ELSE phase[t]
        /\ phase'[t] # "open"
    <3>1. phase[t] = "open" => t \in ws_conns
      BY <2>s, <1>d DEF PhaseInv, IoAt
    <3> QED
      BY <1>d, <3>1
  <2>1. ExecutorInv(t)'
    BY <2>s, <1>h, <1>d, <1>u, <1>q, <2>p DEF ExecutorInv, IoAt, Ending, Joining
  <2>2. PhaseInv(t)'
    BY <2>s, <1>h, <1>d, <1>u, <1>q, <2>p DEF PhaseInv, IoAt, Clearing
  <2>3. IoInv(t)'
    BY <2>s, <1>h, <1>d, <1>u, <1>q, <2>p DEF IoInv, IoAt
  <2>4. MailInv(t)'
    BY <2>s, <1>h, <1>d, <1>u, <1>q, <2>p DEF MailInv, Unread, Parting
  <2>5. BufferInv(t)'
    BY <2>s, <1>h, <1>d, <1>u, <1>q, <2>p DEF BufferInv, NoWork
  <2>6. CountInv(t)'
    BY <2>s, <1>h, <1>d, <1>u, <1>q, <2>p DEF CountInv, IoAt, Joining, Parting, Unread, Undone, Pushing, Posting, Serving
  <2>7. HttpInv(t)'
    BY <2>s, <1>h, <1>d, <1>u, <1>q, <2>p DEF HttpInv, IoAt, NoWork, Serving
  <2>8. QueueInv(t)'
    BY <2>s, <1>h, <1>d, <1>u, <1>q, <2>p DEF QueueInv, IoAt
  <2>9. LateInv(t)'
    BY <2>s, <1>h, <1>d, <1>u, <1>q, <2>p DEF LateInv, IoAt, Settled, Serving
  <2>10. ResultInv(t)'
    BY <2>s, <1>h, <1>d, <1>u, <1>q, <2>p DEF ResultInv
  <2>11. AnswersInv(t)'
    BY <2>s, <1>h, <1>d, <1>u, <1>q, <2>p DEF AnswersInv
  <2>12. PostsFine(t)
    <3> SUFFICES ASSUME NEW p, p.kind \in Own, p.s = t, AnswerFine(p), InterruptFine(p)
                 PROVE  AnswerFine(p)' /\ InterruptFine(p)'
      BY DEF PostsFine
    <3>1. AnswerFine(p)'
      BY <1>d, <1>u, <1>q, <2>p DEF AnswerFine, Answers, IoAt
    <3>2. InterruptFine(p)'
      BY <1>h, <1>d, <1>u, <1>q, <2>p DEF InterruptFine, Serving, IoAt, NoWork, Settled
    <3> QED
      BY <3>1, <3>2
  <2> QED
    BY <2>1, <2>2, <2>3, <2>4, <2>5, <2>6, <2>7, <2>8, <2>9, <2>10, <2>11, <2>12 DEF SocketInv
<1>2. ASSUME NEW p, Fine(p)
      PROVE  Fine(p)'
  <2>1. CASE p.kind \in Own
    <3>1. AnswerFine(p)' /\ InterruptFine(p)'
      BY <1>1, <1>2, <2>1 DEF Fine, PostsFine
    <3> QED
      BY <1>2, <2>1, <3>1 DEF Fine, Own
  <2>2. CASE p.kind \notin Own
    BY <1>2, <2>2, <1>d, <1>u DEF Fine, Own, Answers, AnswerFine, InterruptFine
  <2> QED
    BY <2>1, <2>2
<1>3. PostInv' /\ OnePost'
  <2>1. \A i \in 2..Len(posts) : \A p : p = posts[i] => Fine(p)'
    BY <1>2, FineOf
  <2> QED
    BY <1>d, <2>1, PostsShrink
<1>4. HabitInv'
  BY <1>h, <1>d, <1>u, <1>q DEF WInv, HabitInv, Asked, Clearing
<1>5. CommandInv'
  <2>1. CommandInv
    BY DEF WInv
  <2> QED
    BY <1>h, <1>u, <2>1 DEF CommandInv, ResultsOwn
<1>6. LimitInv'
  <2>1. \A t \in Sockets : (Coming(t)' => Coming(t)) /\ (phase'[t] = "valid" => phase[t] = "valid")
    BY <1>d DEF Coming
  <2>2. Upgraded' \subseteq Upgraded
    BY <1>d, <1>u, TypesOf DEF Upgraded, EntryTypes
  <2> QED
    BY <1>h, <2>1, <2>2, LimitStays
<1>7. WTypes'
  BY TypesAfter DEF WTypes
<1> QED
  BY <1>1, <1>3, <1>4, <1>5, <1>6, <1>7 DEF WInv

(* ClearEnds: no entry is left. *)
LEMMA ClearEndsNext ==
  ASSUME WInv, Next, ClearEnds
  PROVE  WInv'
<1>h. habits' = habits /\ (Gone' <=> Gone)
  BY DEF Next, Gone
<1>d. /\ io.at = "clearing"
      /\ ws_conns = {}
      /\ owner' = "closed"
      /\ io'.at = "idle"
  BY ClearEndsDoes
<1>u. /\ UNCHANGED <<phase, gen, inbox, reqs, sent, ws_conns, buffer, work, serving, epc, posts,
         builtins, cmds, wpc, queues, results, late, signaled, got, polled>>
  BY ClearEndsDoes
<1>q. owner # "running"
  BY <1>d DEF WInv, HabitInv, Clearing
<1>1. ASSUME NEW t \in Sockets
      PROVE  SocketInv(t)' /\ PostsFine(t)
  <2>s. /\ ExecutorInv(t) /\ PhaseInv(t) /\ IoInv(t) /\ MailInv(t) /\ BufferInv(t) /\ CountInv(t)
        /\ HttpInv(t) /\ QueueInv(t) /\ LateInv(t) /\ ResultInv(t) /\ AnswersInv(t)
    BY DEF WInv, SocketInv
  <2>1. ExecutorInv(t)'
    BY <2>s, <1>h, <1>d, <1>u, <1>q DEF ExecutorInv, IoAt, Ending, Joining
  <2>2. PhaseInv(t)'
    BY <2>s, <1>h, <1>d, <1>u, <1>q DEF PhaseInv, IoAt, Clearing
  <2>3. IoInv(t)'
    BY <2>s, <1>h, <1>d, <1>u, <1>q DEF IoInv, IoAt
  <2>4. MailInv(t)'
    BY <2>s, <1>h, <1>d, <1>u, <1>q DEF MailInv, Unread, Parting
  <2>5. BufferInv(t)'
    BY <2>s, <1>h, <1>d, <1>u, <1>q DEF BufferInv, NoWork
  <2>6. CountInv(t)'
    BY <2>s, <1>h, <1>d, <1>u, <1>q DEF CountInv, IoAt, Joining, Parting, Unread, Undone, Pushing, Posting, Serving
  <2>7. HttpInv(t)'
    BY <2>s, <1>h, <1>d, <1>u, <1>q DEF HttpInv, IoAt, NoWork, Serving
  <2>8. QueueInv(t)'
    BY <2>s, <1>h, <1>d, <1>u, <1>q DEF QueueInv, IoAt
  <2>9. LateInv(t)'
    BY <2>s, <1>h, <1>d, <1>u, <1>q DEF LateInv, IoAt, Settled, Serving
  <2>10. ResultInv(t)'
    BY <2>s, <1>h, <1>d, <1>u, <1>q DEF ResultInv
  <2>11. AnswersInv(t)'
    BY <2>s, <1>h, <1>d, <1>u, <1>q DEF AnswersInv
  <2>12. PostsFine(t)
    <3> SUFFICES ASSUME NEW p, p.kind \in Own, p.s = t, AnswerFine(p), InterruptFine(p)
                 PROVE  AnswerFine(p)' /\ InterruptFine(p)'
      BY DEF PostsFine
    <3>1. AnswerFine(p)'
      BY <1>d, <1>u, <1>q DEF AnswerFine, Answers, IoAt
    <3>2. InterruptFine(p)'
      BY <1>h, <1>d, <1>u, <1>q DEF InterruptFine, Serving, IoAt, NoWork, Settled
    <3> QED
      BY <3>1, <3>2
  <2> QED
    BY <2>1, <2>2, <2>3, <2>4, <2>5, <2>6, <2>7, <2>8, <2>9, <2>10, <2>11, <2>12 DEF SocketInv
<1>2. ASSUME NEW p, Fine(p)
      PROVE  Fine(p)'
  <2>1. CASE p.kind \in Own
    <3>1. AnswerFine(p)' /\ InterruptFine(p)'
      BY <1>1, <1>2, <2>1 DEF Fine, PostsFine
    <3> QED
      BY <1>2, <2>1, <3>1 DEF Fine, Own
  <2>2. CASE p.kind \notin Own
    BY <1>2, <2>2, <1>d, <1>u DEF Fine, Own, Answers, AnswerFine, InterruptFine
  <2> QED
    BY <2>1, <2>2
<1>3. PostInv' /\ OnePost'
  BY <1>2, <1>u, PostsStay
<1>4. HabitInv'
  BY <1>h, <1>d, <1>u, <1>q DEF WInv, HabitInv, Asked, Clearing
<1>5. CommandInv'
  <2>1. CommandInv
    BY DEF WInv
  <2> QED
    BY <1>h, <1>u, <2>1 DEF CommandInv, ResultsOwn
<1>6. LimitInv'
  BY <1>h, <1>u, LimitStays DEF Upgraded, Coming
<1>7. WTypes'
  BY TypesAfter DEF WTypes
<1> QED
  BY <1>1, <1>3, <1>4, <1>5, <1>6, <1>7 DEF WInv

(* The inductive invariant holds at the start, *)
LEMMA WInit ==
  ASSUME Init
  PROVE  WInv
<1> USE DEF Init, Idle
<1>1. WTypes
  <2>1. <<>> \in Seq(Nat) /\ <<>> \in Seq(Requests) /\ <<>> \in Seq(Items) /\ <<>> \in Seq(Posts)
    OBVIOUS
  <2>2. LinkTypes
    <3>1. habits \in Worlds /\ MaxOpens[habits] \in Nat
      BY ServerAssumption
    <3>2. 0 \in 0..MaxOpens[habits]
      BY <3>1
    <3> QED
      BY <2>1, <3>1, <3>2 DEF LinkTypes, Phases
  <2>3. EntryTypes
    BY <2>1 DEF EntryTypes, Places, Steps
  <2>4. WorkerTypes
    BY DEF WorkerTypes
  <2> QED
    BY <2>2, <2>3, <2>4 DEF WTypes
<1>2. ASSUME NEW s \in Sockets
      PROVE  SocketInv(s)
  <2>1. Len(inbox[s]) = 0 /\ Len(sent[s]) = 0 /\ Len(got[s]) = 0 /\ Len(work[s]) = 0 /\ Len(reqs) = 0
    OBVIOUS
  <2>2. phase[s] = "free" /\ epc[s] = "none" /\ buffer[s] = 0 /\ results[s] = {}
    OBVIOUS
  <2>3. \A P : IoAt(P, s) => "idle" \in P
    BY DEF IoAt
  <2>4. Unread(s) = 0
    BY <2>1 DEF Unread, Parting
  <2>5. ExecutorInv(s) /\ PhaseInv(s)
    <3>1. ~IoAt(Ending, s) /\ ~IoAt(Joining, s) /\ s \notin ws_conns /\ ExecutorSize \in Nat
      BY <2>3, ServerAssumption DEF Ending, Joining
    <3>2. ExecutorInv(s)
      BY <2>1, <2>2, <3>1 DEF ExecutorInv
    <3> QED
      BY <2>1, <2>2, <3>1, <3>2 DEF PhaseInv
  <2>6. IoInv(s)
    BY <2>3 DEF IoInv
  <2>7. MailInv(s) /\ AnswersInv(s)
    BY <2>1, <2>2, <2>4 DEF MailInv, AnswersInv
  <2>8. BufferInv(s) /\ CountInv(s) /\ HttpInv(s)
    BY <2>1, <2>2 DEF BufferInv, CountInv, HttpInv, NoWork
  <2>9. QueueInv(s)
    BY <2>2, <2>3 DEF QueueInv
  <2>10. LateInv(s) /\ ResultInv(s)
    BY <2>2, <2>3 DEF LateInv, ResultInv, Settled
  <2> QED
    BY <2>5, <2>6, <2>7, <2>8, <2>9, <2>10 DEF SocketInv
<1>3. PostInv /\ OnePost
  <2>1. Len(posts) = 0
    OBVIOUS
  <2> QED
    BY <2>1 DEF PostInv, OnePost
<1>4. HabitInv
  <2>1. Len(reqs) = 0
    OBVIOUS
  <2> QED
    BY <2>1 DEF HabitInv, Clearing
<1>5. CommandInv
  BY DEF CommandInv, ResultsOwn
<1>6. LimitInv
  <2>1. Upgraded = {}
    BY DEF Upgraded
  <2>2. Cardinality(Upgraded) = 0
    BY <2>1, FS_EmptySet
  <2> QED
    BY <2>2, ServerAssumption DEF LimitInv, Coming
<1> QED
  BY <1>1, <1>2, <1>3, <1>4, <1>5, <1>6 DEF WInv

(* and every step keeps it. *)
LEMMA WNext ==
  ASSUME WInv, [Next]_vars
  PROVE  WInv'
<1>1. CASE Next
  <2>1. ASSUME NEW s \in Sockets, ValidateHandler(s)
        PROVE  WInv'
    BY <1>1, <2>1, ValidateHandlerNext
  <2>2. ASSUME NEW s \in Sockets, OpenHandler(s)
        PROVE  WInv'
    BY <1>1, <2>2, OpenHandlerNext
  <2>3. ASSUME NEW s \in Sockets, HttpHandler(s)
        PROVE  WInv'
    BY <1>1, <2>3, HttpHandlerNext
  <2>4. ASSUME NEW s \in Sockets, AcceptReturns(s)
        PROVE  WInv'
    BY <1>1, <2>4, AcceptReturnsNext
  <2>5. ASSUME NEW s \in Sockets, MessageHandler(s)
        PROVE  WInv'
    BY <1>1, <2>5, MessageHandlerNext
  <2>6. ASSUME NEW s \in Sockets, PushWork(s)
        PROVE  WInv'
    BY <1>1, <2>6, PushWorkNext
  <2>7. ASSUME NEW s \in Sockets, CloseHandler(s)
        PROVE  WInv'
    BY <1>1, <2>7, CloseHandlerNext
  <2>8. ASSUME NEW s \in Sockets, CloseReturns(s)
        PROVE  WInv'
    BY <1>1, <2>8, CloseReturnsNext
  <2>9. ASSUME NEW s \in Sockets, StopsExecutor(s)
        PROVE  WInv'
    BY <1>1, <2>9, StopsExecutorNext
  <2>10. ASSUME NEW s \in Sockets, JoinsExecutor(s)
        PROVE  WInv'
    BY <1>1, <2>10, JoinsExecutorNext
  <2>11. ASSUME NEW s \in Sockets, PostSends(s)
        PROVE  WInv'
    BY <1>1, <2>11, PostSendsNext
  <2>12. ASSUME NEW s \in Sockets, PostSendsHttp(s)
        PROVE  WInv'
    BY <1>1, <2>12, PostSendsHttpNext
  <2>13. ASSUME NEW s \in Sockets, PostHttpThrows(s)
        PROVE  WInv'
    BY <1>1, <2>13, PostHttpThrowsNext
  <2>14. ASSUME NEW s \in Sockets, HttpCloseReturns(s)
        PROVE  WInv'
    BY <1>1, <2>14, HttpCloseReturnsNext
  <2>15. ASSUME NEW s \in Sockets, InterruptHandler(s)
        PROVE  WInv'
    BY <1>1, <2>15, InterruptHandlerNext
  <2>16. ASSUME NEW s \in Sockets, ClearTakes(s)
        PROVE  WInv'
    BY <1>1, <2>16, ClearTakesNext
  <2>17. ASSUME NEW s \in Sockets, ClearJoins(s)
        PROVE  WInv'
    BY <1>1, <2>17, ClearJoinsNext
  <2>18. ASSUME NEW s \in Sockets, UsesDestroyed(s)
        PROVE  WInv'
    BY <1>1, <2>18, UsesDestroyedNext
  <2>19. CASE PostReadsState
    BY <1>1, <2>19, PostReadsStateNext
  <2>20. CASE PostClosesAll
    BY <1>1, <2>20, PostClosesAllNext
  <2>21. CASE ClearEnds
    BY <1>1, <2>21, ClearEndsNext
  <2>22. ASSUME NEW s \in Sockets, ExecutorServes(s)
        PROVE  WInv'
    BY <1>1, <2>22, ExecutorServesNext
  <2>23. ASSUME NEW s \in Sockets, ExecutorBlocks(s)
        PROVE  WInv'
    BY <1>1, <2>23, ExecutorBlocksNext
  <2>24. ASSUME NEW s \in Sockets, ExecutorFlushes(s)
        PROVE  WInv'
    BY <1>1, <2>24, ExecutorFlushesNext
  <2>25. ASSUME NEW s \in Sockets, ExecutorTimesOut(s)
        PROVE  WInv'
    BY <1>1, <2>25, ExecutorTimesOutNext
  <2>26. ASSUME NEW s \in Sockets, ExecutorEnds(s)
        PROVE  WInv'
    BY <1>1, <2>26, ExecutorEndsNext
  <2>27. ASSUME NEW s \in Sockets, WorkerCreatesQueue(s)
        PROVE  WInv'
    BY <1>1, <2>27, WorkerCreatesQueueNext
  <2>28. ASSUME NEW s \in Sockets, WorkerDestroysQueue(s)
        PROVE  WInv'
    BY <1>1, <2>28, WorkerDestroysQueueNext
  <2>29. CASE WorkerShutsDown
    BY <1>1, <2>29, WorkerShutsDownNext
  <2>30. ASSUME NEW c \in cmds, WorkerRuns(c)
        PROVE  WInv'
    BY <1>1, <2>30, WorkerRunsNext
  <2>31. ASSUME NEW c \in cmds, WorkerAsksState(c)
        PROVE  WInv'
    BY <1>1, <2>31, WorkerAsksStateNext
  <2>32. ASSUME NEW c \in cmds, WorkerHasState(c)
        PROVE  WInv'
    BY <1>1, <2>32, WorkerHasStateNext
  <2>33. CASE ShutdownBegins
    BY <1>1, <2>33, ShutdownBeginsNext
  <2>34. CASE StopsManager
    BY <1>1, <2>34, StopsManagerNext
  <2>35. CASE DestroysServer
    BY <1>1, <2>35, DestroysServerNext
  <2>36. CASE JoinsIo
    BY <1>1, <2>36, JoinsIoNext
  <2>37. ASSUME NEW s \in Sockets, ClientConnects(s)
        PROVE  WInv'
    BY <1>1, <2>37, ClientConnectsNext
  <2>38. ASSUME NEW s \in Sockets, ClientCloses(s)
        PROVE  WInv'
    BY <1>1, <2>38, ClientClosesNext
  <2>39. ASSUME NEW s \in Sockets, NEW k \in Kinds, NEW q \in Names(s, k), ClientSends(s, k, q)
        PROVE  WInv'
    BY <1>1, <2>39, ClientSendsNext
  <2>40. ASSUME NEW s \in Sockets, TextHandler(s)
        PROVE  WInv'
    BY <1>1, <2>40, TextHandlerNext
  <2>41. ASSUME NEW s \in Sockets, ClientSendsText(s)
        PROVE  WInv'
    BY <1>1, <2>41, ClientSendsTextNext
  <2>50. CASE IoThread
    BY <2>50, <2>1, <2>2, <2>3, <2>4, <2>5, <2>6, <2>7, <2>8, <2>9, <2>10, <2>11, <2>12, <2>13, <2>14, <2>15, <2>16, <2>17, <2>18, <2>40, <2>19, <2>20, <2>21 DEF IoThread
  <2>51. CASE Worker
    BY <2>51, <2>27, <2>28, <2>29, <2>30, <2>31, <2>32 DEF Worker
  <2>52. CASE Owner
    BY <2>52, <2>33, <2>34, <2>35, <2>36 DEF Owner
  <2>53. CASE \E s \in Sockets : Executor(s) \/ Client(s)
    BY <2>53, <2>22, <2>23, <2>24, <2>25, <2>26, <2>37, <2>38, <2>39, <2>41 DEF Executor, Client
  <2> QED
    BY <1>1, <2>50, <2>51, <2>52, <2>53 DEF Next
<1>2. CASE UNCHANGED vars
  <2>u. /\ UNCHANGED <<habits, phase, gen, inbox, reqs, sent, ws_conns, buffer, work, serving,
           epc, posts, io, builtins, cmds, wpc, queues, results, late, owner, signaled, got,
           polled>>
    BY <1>2 DEF vars, moving, linkVars, entryVars, workerVars
  <2>1. Steady
    <3>1. Len(reqs) \in Nat
      BY TypesOf DEF LinkTypes
    <3> QED
      BY <2>u, <3>1 DEF Steady
  <2>2. \A t \in Sockets : Same(t)
    BY <2>u DEF Same
  <2>3. \A t \in Sockets : SocketInv(t)'
    BY <2>1, <2>2, Bystander
  <2>4. \A p : Fine(p) => Fine(p)'
    BY <2>1, <2>2, FineElsewhere DEF Fine
  <2>5. PostInv' /\ OnePost'
    BY <2>u, <2>4, PostsStay
  <2>6. HabitInv' /\ CommandInv'
    BY <2>u, <2>1, HabitStays, CommandStays
  <2>7. LimitInv'
    BY <2>u, LimitStays DEF Upgraded, Coming
  <2>8. LinkTypes'
    BY <2>u, TypesOf DEF LinkTypes
  <2>9. EntryTypes'
    BY <2>u, TypesOf DEF EntryTypes
  <2>10. WorkerTypes'
    BY <2>u, TypesOf DEF WorkerTypes
  <2> QED
    BY <2>3, <2>5, <2>6, <2>7, <2>8, <2>9, <2>10 DEF WInv, WTypes
<1> QED
  BY <1>1, <1>2

-----------------------------------------------------------------------------
(* The connections, the executors and the worker keep the invariant. *)
THEOREM ServerInvariant == Spec => []WInv
<1>1. Init => WInv
  BY WInit
<1>2. WInv /\ [Next]_vars => WInv'
  BY WNext
<1> QED
  BY <1>1, <1>2, PTL DEF Spec

(* What the threads test keeps its type, the inboxes, buffers and queues     *)
(* hold requests that were made, and no executor's queue exceeds its bound.  *)
THEOREM ServerTypeOK == Spec => []TypeOK
<1>1. WInv => TypeOK
  <2> SUFFICES ASSUME WInv
               PROVE  TypeOK
    OBVIOUS
  <2>t. LinkTypes /\ EntryTypes /\ WorkerTypes
    BY TypesOf
  <2>1. ASSUME NEW s \in Sockets
        PROVE  /\ gen[s] \in 0..MaxOpens[habits] /\ ToSet(inbox[s]) \subseteq 0..Len(reqs)
               /\ work[s] \in UNION {[1..n -> {"work", "destroy"}] : n \in 0..ExecutorSize}
               /\ buffer[s] \in 0..Len(reqs) /\ results[s] \subseteq 1..Len(reqs)
    <3>1. gen[s] \in 0..MaxOpens[habits]
      BY <2>t DEF LinkTypes
    <3>2. MailInv(s) /\ ExecutorInv(s) /\ BufferInv(s) /\ ResultInv(s)
      BY DEF WInv, SocketInv
    <3>3. inbox[s] \in Seq(Nat) /\ work[s] \in Seq(Items)
      BY <2>t DEF LinkTypes, EntryTypes
    <3>4. ToSet(inbox[s]) \subseteq 0..Len(reqs)
      <4>1. DOMAIN inbox[s] = 1..Len(inbox[s])
        BY <3>3
      <4>2. \A i \in 1..Len(inbox[s]) : inbox[s][i] \in 0..Len(reqs)
        BY <3>2 DEF MailInv
      <4> QED
        BY <4>1, <4>2 DEF ToSet
    <3>5. Len(work[s]) \in Nat /\ work[s] \in [1..Len(work[s]) -> {"work", "destroy"}]
      BY <3>3 DEF Items
    <3>6. Len(work[s]) \in 0..ExecutorSize
      BY <3>2, <3>5, ServerAssumption DEF ExecutorInv
    <3>7. buffer[s] \in 0..Len(reqs)
      BY <3>2 DEF BufferInv
    <3>8. results[s] \subseteq 1..Len(reqs)
      BY <3>2 DEF ResultInv
    <3> QED
      BY <3>1, <3>4, <3>5, <3>6, <3>7, <3>8
  <2>2. buffer \in [Sockets -> 0..Len(reqs)]
    BY <2>t, <2>1 DEF EntryTypes
  <2>3. cmds \subseteq 1..Len(reqs)
    BY DEF WInv, CommandInv
  <2>4. phase \in [Sockets -> {"free", "handshake", "valid", "http", "open", "closing"}]
    BY <2>t DEF LinkTypes, Phases
  <2> QED
    BY <2>t, <2>1, <2>2, <2>3, <2>4 DEF TypeOK, EntryTypes, WorkerTypes, Steps
<1> QED
  BY <1>1, ServerInvariant, PTL

(* send_response: every answer a connection gets is to a request of its own, *)
(* the i-th to the i-th unless the client pipelines, and then to a later one *)
(* of them.  The argument counts the requests in their places: inbox, io     *)
(* thread, executor's queue, posted answer (CountInv).                       *)
THEOREM ServerAnswersOwn == Spec => []AnswersOwn
<1>1. WInv => AnswersOwn
  <2> SUFFICES ASSUME WInv, NEW s \in Sockets
               PROVE  \A i \in DOMAIN got[s] :
                        /\ i <= Len(sent[s])
                        /\ \E j \in i..Len(sent[s]) : got[s][i] = sent[s][j]
                        /\ "pipelines" \notin habits => got[s][i] = sent[s][i]
    BY DEF AnswersOwn
  <2>1. got[s] \in Seq(Nat)
    BY TypesOf DEF LinkTypes
  <2>2. DOMAIN got[s] = 1..Len(got[s])
    BY <2>1
  <2>3. AnswersInv(s)
    BY DEF WInv, SocketInv
  <2> QED
    BY <2>2, <2>3 DEF AnswersInv
<1> QED
  BY <1>1, ServerInvariant, PTL

(* Result queues are named by socket numbers, which are used again, and a    *)
(* POLL_BLOCKING may name any of them: what is given from a queue belongs to *)
(* the present connection of its number or was unfinished when the queue of  *)
(* an earlier one was destroyed, as long as no HTTP client leaves; and it is *)
(* given to that connection unless clients name the queues of others.        *)
THEOREM ServerResultsOwn == Spec => []ResultsOwn
<1>1. WInv => ResultsOwn
  BY DEF WInv, CommandInv
<1> QED
  BY <1>1, ServerInvariant, PTL

(* The io thread waits for ever only for the five reasons of Stuck, and each *)
(* has its cause: a client that leaves unanswered or the destruction, one    *)
(* that pipelines, one that is idle for a day, GetSystemState, or a client   *)
(* that comes or goes when the worker is gone.                               *)
THEOREM ServerCyclesExplained == Spec => []CyclesExplained
<1>1. WInv => CyclesExplained
  <2> SUFFICES ASSUME WInv
               PROVE  CyclesExplained
    OBVIOUS
  <2>0. ASSUME NEW s \in Sockets
        PROVE  /\ PhaseInv(s) /\ IoInv(s) /\ CountInv(s) /\ HttpInv(s)
               /\ Len(sent[s]) \in Nat /\ Len(got[s]) \in Nat /\ Unread(s) \in Nat
               /\ epc[s] = "posting" => Undone(s) \in Nat /\ Posting(s) = 1
    <3>1. PhaseInv(s) /\ IoInv(s) /\ CountInv(s) /\ HttpInv(s) /\ ExecutorInv(s) /\ Sizes(s)
      BY TypesOf, SizesOf DEF WInv, SocketInv
    <3>2. Len(sent[s]) \in Nat /\ Len(got[s]) \in Nat /\ Len(inbox[s]) \in Nat /\ Len(work[s]) \in Nat
      BY <3>1 DEF Sizes
    <3>3. Unread(s) \in Nat
      BY <3>2 DEF Unread, Parting
    <3>4. epc[s] = "posting" => Undone(s) \in Nat /\ Posting(s) = 1
      BY <3>1, <3>2 DEF Undone, Posting, Serving, ExecutorInv
    <3> QED
      BY <3>1, <3>2, <3>3, <3>4
  <2>1. ASSUME io.at \in {"join", "clear_join", "erase", "clear"}, epc[io.s] = "posting",
               "leaves" \notin habits, owner = "running"
        PROVE  FALSE
    <3>1. PICK s \in Sockets : s = io.s
      BY <2>1 DEF WInv, HabitInv
    <3>2. "leaves" \notin habits /\ epc[s] = "posting" /\ Serving(s)
      BY <2>1, <3>1 DEF Serving
    <3>3. CASE io.at \in {"clear", "clear_join"}
      BY <2>1, <3>3 DEF WInv, HabitInv, Clearing
    <3>4. CASE io.at \in {"erase", "join"}
      <4>1. CASE phase[s] = "http"
        BY <2>0, <3>1, <3>2, <3>4, <4>1 DEF HttpInv, IoAt
      <4>2. CASE phase[s] # "http"
        <5>1. phase[s] = "open" /\ Len(inbox[s]) > 0 /\ inbox[s][1] = 0
          BY <2>0, <3>1, <3>4, <4>2 DEF IoInv, IoAt
        <5>2. Parting(s)
          <6>1. Len(inbox[s]) \in Nat
            BY TypesOf, SizesOf DEF Sizes
          <6>2. 1 \in 1..Len(inbox[s])
            BY <5>1, <6>1
          <6> QED
            BY <5>1, <6>2 DEF Parting
        <5>3. /\ Len(sent[s]) = Len(got[s])
              /\ Len(sent[s]) = Len(got[s]) + Unread(s) + Pushing(s) + Undone(s) + Posting(s)
          BY <2>0, <3>2, <5>1, <5>2 DEF CountInv
        <5>4. Pushing(s) \in Nat
          BY DEF Pushing
        <5>5. ASSUME NEW g \in Nat, NEW u \in Nat, NEW q \in Nat, NEW d \in Nat
              PROVE  g # g + u + q + d + 1
          OBVIOUS
        <5> QED
          BY <2>0, <3>2, <5>3, <5>4, <5>5
      <4> QED
        BY <4>1, <4>2
    <3> QED
      BY <2>1, <3>3, <3>4
  <2>2. ASSUME io.at = "push", epc[io.s] = "posting", "pipelines" \notin habits
        PROVE  FALSE
    <3>1. PICK s \in Sockets : s = io.s
      BY <2>2 DEF WInv, HabitInv
    <3>2. epc[s] = "posting" /\ IoAt({"push"}, s) /\ Serving(s)
      BY <2>2, <3>1 DEF IoAt, Serving
    <3>3. phase[s] = "open"
      BY <2>0, <3>2 DEF IoInv, HttpInv
    <3>4. /\ Len(sent[s]) <= Len(got[s]) + 1
          /\ Len(sent[s]) = Len(got[s]) + Unread(s) + Pushing(s) + Undone(s) + Posting(s)
      BY <2>0, <2>2, <3>3 DEF CountInv
    <3>5. Pushing(s) = 1
      BY <3>2 DEF Pushing
    <3>6. ASSUME NEW g \in Nat, NEW u \in Nat, NEW d \in Nat
          PROVE  ~(g + u + 1 + d + 1 <= g + 1)
      OBVIOUS
    <3> QED
      BY <2>0, <3>2, <3>4, <3>5, <3>6
  <2>3. io.at \in {"accept", "close", "http_close"} /\ wpc = "asking" => "asks" \in habits
    BY DEF WInv, HabitInv
  <2>4. io.at \in {"accept", "close", "http_close"} /\ wpc = "gone" => owner # "running"
    BY DEF WInv, HabitInv
  <2>5. ASSUME io.at \in {"push", "erase", "clear"}, epc[io.s] = "ended"
        PROVE  "idle" \in habits
    <3>1. PICK s \in Sockets : s = io.s
      BY <2>5 DEF WInv, HabitInv
    <3>2. ExecutorInv(s) /\ epc[s] = "ended" /\ ~IoAt(Joining, s)
      BY <2>5, <3>1 DEF WInv, SocketInv, IoAt, Joining
    <3> QED
      BY <3>2 DEF ExecutorInv
  <2>6. Stuck("join") => "leaves" \in habits \/ owner # "running"
    BY <2>1 DEF Stuck
  <2>7. Stuck("push") => "pipelines" \in habits
    BY <2>2 DEF Stuck
  <2>8. Stuck("idle") => "idle" \in habits
    BY <2>5 DEF Stuck
  <2>9. (Stuck("worker") => "asks" \in habits) /\ (Stuck("gone") => owner # "running")
    BY <2>3, <2>4 DEF Stuck
  <2> QED
    BY <2>6, <2>7, <2>8, <2>9 DEF CyclesExplained
<1> QED
  BY <1>1, ServerInvariant, PTL

(* Between handlers the open connections are those with an entry, a running  *)
(* executor and a result queue, a free socket has none of them, and the      *)
(* upgraded connections stay within max_connections unless handshakes        *)
(* overlap.                                                                  *)
THEOREM ServerEntriesSound == Spec => []EntriesSound
<1>1. WInv => EntriesMatch
  <2> SUFFICES ASSUME WInv, io = Idle, owner = "running", NEW s \in Sockets
               PROVE  /\ phase[s] = "open" => s \in ws_conns /\ s \in queues /\ epc[s] # "none"
                      /\ phase[s] = "free" => s \notin ws_conns /\ epc[s] = "none"
                      /\ phase[s] = "free" /\ ~Gone => s \notin queues
    BY DEF EntriesMatch, Gone
  <2>1. ExecutorInv(s) /\ PhaseInv(s) /\ QueueInv(s)
    BY DEF WInv, SocketInv
  <2>2. io.at = "idle" /\ \A P : IoAt(P, s) => "idle" \in P
    BY DEF Idle, IoAt
  <2>3. ~IoAt(Ending, s)
    BY <2>2 DEF Ending
  <2>4. phase[s] = "open" => s \in ws_conns /\ s \in queues /\ epc[s] # "none"
    BY <2>1, <2>2, <2>3 DEF ExecutorInv, PhaseInv, QueueInv
  <2>5. phase[s] = "free" => s \notin ws_conns /\ epc[s] = "none"
    BY <2>1, <2>2, <2>3 DEF ExecutorInv, PhaseInv
  <2>6. phase[s] = "free" /\ ~Gone => s \notin queues
    BY <2>1, <2>2 DEF QueueInv
  <2> QED
    BY <2>4, <2>5, <2>6
<1>2. WInv => ConnectionLimit
  BY DEF WInv, LimitInv, ConnectionLimit, Upgraded
<1> QED
  BY <1>1, <1>2, ServerInvariant, PTL DEF EntriesSound

=============================================================================
