------------------------ MODULE AutoPollClientProofs ------------------------
(* Theorems about AutoPollClient for every number of connections, command    *)
(* ids and unanswered requests, and every choice of faults.                  *)
EXTENDS AutoPollClient, SequenceTheorems, TLAPS

Conns == 1..MaxConns

(* What the connections carry, when n command ids have been given. *)
Messages(n) == [kind : {"ack"}, arg : 1..n]
                 \cup [kind : {"results"}, arg : SUBSET (1..n)]
                 \cup [kind : {"stop", "error"}, arg : {0}]
Requests(n) == [kind : {"run"}, arg : 1..n] \cup [kind : {"poll"}, arg : 0..MaxConns]

(* TypeOK with the variables it leaves out; a thread that talks to the       *)
(* server has a connection.                                                  *)
ClientTypes ==
  /\ faults \in Worlds
  /\ conns \in 0..MaxConns /\ ids \in 0..MaxIds
  /\ state \in {"NONE", "OPEN", "CLOSING", "CLOSED"}
  /\ clients \in [Types -> 0..conns] /\ queue_ids \in [Types -> 0..conns]
  /\ open \subseteq 1..conns
  /\ upc \in {"idle", "COMMAND", "POLL", "thread", "ack", "get", "join", "join_destroy", "gone"}
  /\ ppc \in {"none", "wait", "store", "activate", "test", "read", "ended", "dead"}
  /\ terminated \in {"no", "start", "destructor"}
  /\ upc = "ack" => clients["COMMAND"] # 0
  /\ ppc \in {"store", "activate", "test", "read"} => clients["POLL"] # 0
FlagTypes == joinable \in BOOLEAN /\ active \in BOOLEAN
IdTypes ==
  /\ own \in 0..ids /\ waiting \in 0..ids
  /\ waiting # 0 <=> upc = "get"
  /\ results \subseteq 1..ids /\ left \subseteq 1..ids /\ expired \subseteq 1..ids
LinkTypes ==
  /\ in_q \in [Conns -> Seq(Messages(ids))]
  /\ requests \in [Conns -> Seq(Requests(ids))]
ServerTypes ==
  /\ running \subseteq (1..ids) \X Conns
  /\ queued \in [Conns -> SUBSET (1..ids)]
TypeInv == ClientTypes /\ FlagTypes /\ IdTypes /\ LinkTypes /\ ServerTypes

-----------------------------------------------------------------------------
(* The life of the poll thread *)

Starting == upc \in {"COMMAND", "POLL", "thread"}

(* The state leaves NONE only after the poll thread has waited for its       *)
(* connection, and start runs only before; a thread that is not joinable     *)
(* never ran or was joined.                                                  *)
ThreadLife ==
  /\ state = "NONE" => ppc \in {"none", "wait", "store", "dead"}
  /\ Starting => state = "NONE" /\ ppc # "dead"
  /\ ppc = "none" => ~joinable
  /\ ~joinable => ppc \in {"none", "ended"}
  /\ ppc = "dead" => upc = "gone"
  /\ joinable /\ ppc \in {"activate", "test", "read", "ended"} /\ ~Joining /\ upc # "gone"
       => state = "OPEN"
  /\ Joining => joinable

(* Results, and so a first answer, show that the poll thread is active. *)
Answered == answer # <<0, 0>>
FirstAnswer == results # {} \/ Answered => ppc \in {"test", "read", "ended", "dead"}

(* Who waits for an answer never starts a second thread. *)
Patient == "hurry" \notin faults =>
             /\ Starting => ppc = "none"
             /\ terminated = "no"
             /\ upc = "gone" => ppc \in {"none", "ended"}

LifeInv == ThreadLife /\ FirstAnswer /\ Patient

-----------------------------------------------------------------------------
(* The ids on their way through the connections and the server *)

Kind(s, k) == {i \in 1..Len(s) : s[i].kind = k}
Args(s, k) == {s[i].arg : i \in Kind(s, k)}
Once(s, k) == \A i, j \in Kind(s, k) : s[i].arg = s[j].arg => i = j
ApartIn(s, k) == \A i, j \in Kind(s, k) : i # j => s[i].arg \cap s[j].arg = {}

Asked == UNION {Args(requests[c], "run") : c \in Conns}
Acked == UNION {Args(in_q[c], "ack") : c \in Conns}
Returned == UNION {UNION Args(in_q[c], "results") : c \in Conns}
Ran == {r[1] : r \in running}
Queued == UNION {queued[c] : c \in Conns}

(* The two connections are used for different things, and no connection      *)
(* carries an id twice.                                                      *)
Inbox ==
  \A c \in Conns :
    /\ Args(in_q[c], "ack") # {} => c = clients["COMMAND"]
    /\ Args(in_q[c], "results") # {} => c = clients["POLL"]
    /\ Once(in_q[c], "ack") /\ ApartIn(in_q[c], "results")
Outbox ==
  \A c \in Conns :
    /\ Args(requests[c], "run") # {} => c = clients["COMMAND"]
    /\ Args(requests[c], "poll") # {} => c = clients["POLL"]
    /\ Once(requests[c], "run")
Sides == clients["COMMAND"] # 0 => clients["COMMAND"] # clients["POLL"]

(* An id is asked for once, acknowledged once and waited for once. *)
AckFlow == Asked \cap Acked = {} /\ waiting \notin Asked \cup Acked

(* A result is in one place. *)
ResultFlow ==
  /\ \A c, d \in Conns : c # d => queued[c] \cap queued[d] = {}
  /\ \A r, s \in running : r[1] = s[1] => r = s
  /\ Asked \cap (Ran \cup Queued \cup Returned \cup results) = {}
  /\ Ran \cap (Queued \cup Returned \cup results) = {}
  /\ Queued \cap (Returned \cup results) = {}
  /\ Returned \cap results = {}

(* Whatever result is on its way, its user has not finished with it. *)
Accounted ==
  Ran \cup Queued \cup Returned \cup results \subseteq left \cup expired \cup {waiting} \cup Acked

-----------------------------------------------------------------------------
(* The poll thread was joined: no result arrives any more. *)
Over == ppc = "ended" /\ ~joinable

(* The empty message of disconnect comes after the join, and a closed        *)
(* connection has no requests until the client is destroyed.                 *)
StopsOver == \A c \in Conns : Args(in_q[c], "stop") # {} => Over
ClosedQuiet == upc # "gone" => \A c \in Conns \ open : requests[c] = <<>>

(* Without read timeouts a stale ack exists only after shutdown, whose       *)
(* empty message makes send_message fail; then its result never comes.       *)
OwnAck ==
  "timeouts" \notin faults =>
    /\ answer[1] = answer[2]
    /\ ~Over => /\ \A x \in Asked \cup Acked : x = own /\ upc = "ack"
                /\ upc = "get" => waiting = own
    /\ Over => (Asked \cup Acked \cup {waiting}) \cap results = {}

FlowInv == /\ Sides /\ Inbox /\ Outbox
           /\ AckFlow /\ ResultFlow /\ Accounted
           /\ StopsOver /\ ClosedQuiet /\ OwnAck

CInv == TypeInv /\ LifeInv /\ FlowInv

-----------------------------------------------------------------------------
(* Sequences of messages *)

(* Sequences over a larger set. *)
LEMMA SeqGrows == ASSUME NEW S, NEW T, S \subseteq T PROVE Seq(S) \subseteq Seq(T)
<1> SUFFICES ASSUME NEW s \in Seq(S) PROVE s \in Seq(T)
  OBVIOUS
<1>1. s \in [1..Len(s) -> T] /\ Len(s) \in Nat
  OBVIOUS
<1> QED
  BY <1>1

(* What carries the first n ids is fit for more. *)
LEMMA MessagesGrow ==
  ASSUME NEW m \in Nat, NEW n \in Nat, m <= n
  PROVE  Seq(Messages(m)) \subseteq Seq(Messages(n)) /\ Seq(Requests(m)) \subseteq Seq(Requests(n))
<1>1. 1..m \subseteq 1..n
  OBVIOUS
<1>2. SUBSET (1..m) \subseteq SUBSET (1..n)
  BY <1>1
<1>3. Messages(m) \subseteq Messages(n)
  BY <1>1, <1>2 DEF Messages
<1>4. Requests(m) \subseteq Requests(n)
  BY <1>1 DEF Requests
<1> QED
  BY <1>3, <1>4, SeqGrows

(* Appending a message adds its argument, *)
LEMMA ArgsAppend ==
  ASSUME NEW S, NEW s \in Seq(S), NEW m \in S, NEW k
  PROVE  /\ Args(Append(s, m), k) = Args(s, k) \cup (IF m.kind = k THEN {m.arg} ELSE {})
         /\ Once(s, k) /\ (m.kind = k => m.arg \notin Args(s, k)) => Once(Append(s, m), k)
         /\ ApartIn(s, k) /\ (m.kind = k => m.arg \cap UNION Args(s, k) = {})
              => ApartIn(Append(s, m), k)
<1> DEFINE t == Append(s, m)
           n == Len(s)
<1>1. /\ n \in Nat /\ Len(t) = n + 1 /\ t[n + 1] = m /\ \A i \in 1..n : t[i] = s[i]
  OBVIOUS
<1>d. n = Len(s)
  OBVIOUS
<1> HIDE DEF t, n
<1>2. Kind(t, k) = Kind(s, k) \cup (IF m.kind = k THEN {n + 1} ELSE {})
  BY <1>1, <1>d DEF Kind
<1>3. \A i \in Kind(s, k) : i \in 1..n /\ t[i] = s[i]
  BY <1>1, <1>d DEF Kind
<1>4. Args(t, k) = Args(s, k) \cup (IF m.kind = k THEN {m.arg} ELSE {})
  BY <1>1, <1>2, <1>3 DEF Args
<1>5. \A i \in Kind(s, k) : s[i].arg \in Args(s, k)
  BY DEF Args
<1>6. Once(s, k) /\ (m.kind = k => m.arg \notin Args(s, k)) => Once(t, k)
  BY <1>1, <1>2, <1>3, <1>5 DEF Once
<1>7. ASSUME ApartIn(s, k), m.kind = k => m.arg \cap UNION Args(s, k) = {}
      PROVE  ApartIn(t, k)
  <2>1. ASSUME NEW i \in Kind(s, k), m.kind = k PROVE s[i].arg \cap m.arg = {}
    BY <1>5, <1>7, <2>1
  <2> QED
    BY <1>1, <1>2, <1>3, <1>7, <2>1 DEF ApartIn
<1> QED
  BY <1>4, <1>6, <1>7 DEF t

(* and taking the first one removes it. *)
LEMMA ArgsTail ==
  ASSUME NEW S, NEW s \in Seq(S), s # <<>>, NEW k
  PROVE  /\ Args(s, k) = Args(Tail(s), k) \cup (IF Head(s).kind = k THEN {Head(s).arg} ELSE {})
         /\ Once(s, k) => /\ Once(Tail(s), k)
                          /\ Head(s).kind = k => Head(s).arg \notin Args(Tail(s), k)
         /\ ApartIn(s, k) => /\ ApartIn(Tail(s), k)
                             /\ Head(s).kind = k => Head(s).arg \cap UNION Args(Tail(s), k) = {}
<1> DEFINE t == Tail(s)
           n == Len(s)
<1>1. /\ n \in Nat \ {0} /\ t \in Seq(S) /\ Len(t) = n - 1 /\ Head(s) = s[1]
      /\ \A i \in 1..n - 1 : t[i] = s[i + 1]
  OBVIOUS
<1>d. n = Len(s)
  OBVIOUS
<1> HIDE DEF t, n
<1>2. /\ \A i \in Kind(t, k) : i \in Nat /\ i + 1 \in Kind(s, k) /\ i + 1 # 1 /\ t[i] = s[i + 1]
      /\ \A i \in Kind(s, k) : i = 1 \/ (i - 1 \in Kind(t, k) /\ t[i - 1] = s[i])
      /\ 1 \in Kind(s, k) <=> Head(s).kind = k
  <2>1. \A i \in 1..n : i = 1 \/ (i - 1 \in 1..n - 1 /\ t[i - 1] = s[i])
    BY <1>1
  <2>2. \A i \in 1..n - 1 : i \in Nat /\ i + 1 \in 1..n /\ i + 1 # 1
    BY <1>1
  <2> QED
    BY <1>1, <1>d, <2>1, <2>2 DEF Kind
<1>3. Args(s, k) = Args(t, k) \cup (IF Head(s).kind = k THEN {Head(s).arg} ELSE {})
  <2>1. ASSUME NEW x \in Args(t, k) PROVE x \in Args(s, k)
    <3>1. PICK i \in Kind(t, k) : x = t[i].arg
      BY DEF Args
    <3>2. i + 1 \in Kind(s, k) /\ x = s[i + 1].arg
      BY <1>2, <3>1
    <3> QED
      BY <3>2 DEF Args
  <2>2. Head(s).kind = k => Head(s).arg \in Args(s, k)
    BY <1>1, <1>2 DEF Args
  <2>3. \A x \in Args(s, k) : x \in Args(t, k) \/ (Head(s).kind = k /\ x = Head(s).arg)
    BY SMTT(40), <1>1, <1>2 DEF Args
  <2> QED
    BY <2>1, <2>2, <2>3
<1>4. ASSUME Once(s, k)
      PROVE  Once(t, k) /\ (Head(s).kind = k => Head(s).arg \notin Args(t, k))
  <2>1. Once(t, k)
    <3> SUFFICES ASSUME NEW i \in Kind(t, k), NEW j \in Kind(t, k), t[i].arg = t[j].arg
                 PROVE  i = j
      BY DEF Once
    <3>1. PICK u \in Kind(s, k), v \in Kind(s, k) :
            u = i + 1 /\ v = j + 1 /\ s[u] = t[i] /\ s[v] = t[j]
      BY <1>2
    <3>2. u = v
      BY <1>4, <3>1 DEF Once
    <3> QED
      BY <1>2, <3>1, <3>2
  <2>2. ASSUME Head(s).kind = k, Head(s).arg \in Args(t, k) PROVE FALSE
    <3>1. PICK i \in Kind(t, k) : t[i].arg = Head(s).arg
      BY <2>2 DEF Args
    <3> QED
      BY <1>1, <1>2, <1>4, <2>2, <3>1 DEF Once
  <2> QED
    BY <2>1, <2>2
<1>5. ASSUME ApartIn(s, k)
      PROVE  ApartIn(t, k) /\ (Head(s).kind = k => Head(s).arg \cap UNION Args(t, k) = {})
  <2>1. ApartIn(t, k)
    <3> SUFFICES ASSUME NEW i \in Kind(t, k), NEW j \in Kind(t, k), i # j
                 PROVE  t[i].arg \cap t[j].arg = {}
      BY DEF ApartIn
    <3>1. i + 1 # j + 1
      BY <1>2
    <3> QED
      BY <1>2, <1>5, <3>1 DEF ApartIn
  <2>2. ASSUME Head(s).kind = k, NEW x \in Head(s).arg, x \in UNION Args(t, k) PROVE FALSE
    <3>1. PICK i \in Kind(t, k) : x \in t[i].arg
      BY <2>2 DEF Args
    <3> QED
      BY <1>1, <1>2, <1>5, <2>2, <3>1 DEF ApartIn
  <2> QED
    BY <2>1, <2>2
<1> QED
  BY <1>3, <1>4, <1>5 DEF t

-----------------------------------------------------------------------------
(* Types *)

LEMMA ClientTypesInit == Init => TypeInv
<1> SUFFICES ASSUME Init PROVE TypeInv
  OBVIOUS
<1> USE ClientAssumption DEF Init
<1>1. ClientTypes
  BY DEF ClientTypes, Types
<1>2. FlagTypes
  BY DEF FlagTypes
<1>4. IdTypes
  BY DEF IdTypes
<1>3. LinkTypes /\ ServerTypes
  BY DEF LinkTypes, ServerTypes, Conns
<1> QED
  BY <1>1, <1>2, <1>3, <1>4 DEF TypeInv

(* One step per action that changes more than positions and flags. *)
LEMMA ClientTypesNext == TypeInv /\ [Next]_vars => TypeInv'
<1> SUFFICES ASSUME TypeInv, [Next]_vars PROVE TypeInv'
  OBVIOUS
<1> USE ClientAssumption
<1> USE DEF setupVars, userVars, linkVars, serverVars
<1>t. ClientTypes /\ FlagTypes /\ IdTypes /\ LinkTypes /\ ServerTypes
  BY DEF TypeInv
<1>n. conns \in Nat /\ ids \in Nat /\ MaxConns \in Nat /\ MaxIds \in Nat
  BY <1>t DEF ClientTypes
<1>o. open \subseteq Conns /\ 0 \notin open /\ conns <= MaxConns
  <2>1. \A c \in 1..conns : c \in 1..MaxConns /\ c # 0
    BY <1>t, <1>n DEF ClientTypes
  <2> QED
    BY <1>t, <1>n, <2>1 DEF ClientTypes, Conns
<1>1. CASE UNCHANGED vars
  BY <1>t, <1>1 DEF vars, moving, TypeInv, ClientTypes, FlagTypes, IdTypes, LinkTypes, ServerTypes
<1>2. ASSUME NEW t \in Types, NEW o \in Outcomes, StartConnects(t, o), UNCHANGED faults
      PROVE  TypeInv'
  <2> DEFINE c == conns + 1
  <2>1. c \in Conns /\ c \in Nat /\ ids + 1 \in 1..ids + 1 /\ ids + 1 \in 0..MaxIds
    BY <1>2, <1>n, <1>t DEF StartConnects, Conns, ClientTypes
  <2>2. ids' = ids + 1 /\ conns' = c /\ ids' \in Nat /\ ids <= ids' /\ 1..ids \subseteq 1..ids'
    BY <1>2, <1>n DEF StartConnects
  <2>3. UNCHANGED <<state, joinable, terminated, active, results, ppc, own, waiting, expired, answer,
                    in_q, requests, running>>
    BY <1>2 DEF StartConnects
  <2>9. upc # "get" /\ upc' # "get"
    BY <1>2 DEF StartConnects, Types, Outcomes
  <2>4. ClientTypes'
    <3>1. clients' \in [Types -> 0..c] /\ queue_ids' \in [Types -> 0..c]
      BY <1>2, <1>n, <1>t DEF StartConnects, ClientTypes
    <3>2. open' \subseteq 1..c
      BY <1>2, <1>n, <1>t DEF StartConnects, ClientTypes
    <3>3. upc' \in {"idle", "POLL", "thread"}
      BY <1>2 DEF StartConnects, Types, Outcomes
    <3>4. ppc' \in {"store", "activate", "test", "read"} => clients'["POLL"] # 0
      BY <1>2, <1>n, <1>t DEF StartConnects, ClientTypes, Types
    <3> QED
      BY <1>2, <1>t, <2>1, <2>2, <2>3, <3>1, <3>2, <3>3, <3>4 DEF ClientTypes, Conns
  <2>5. FlagTypes'
    BY <1>t, <2>3 DEF FlagTypes
  <2>6. IdTypes'
    <3>1. left' \subseteq 1..ids'
      BY <1>2, <1>t, <2>1, <2>2 DEF StartConnects, IdTypes
    <3> QED
      BY <1>t, <1>n, <2>2, <2>3, <2>9, <3>1 DEF IdTypes
  <2>7. LinkTypes'
    <3>1. Seq(Messages(ids)) \subseteq Seq(Messages(ids')) /\ Seq(Requests(ids)) \subseteq Seq(Requests(ids'))
      BY <1>n, <2>2, MessagesGrow
    <3> QED
      BY <1>t, <2>3, <3>1 DEF LinkTypes
  <2>8. ServerTypes'
    <3>1. queued \in [Conns -> SUBSET (1..ids')] /\ {ids'} \in SUBSET (1..ids')
      BY <1>t, <2>1, <2>2 DEF ServerTypes
    <3>2. queued' \in [Conns -> SUBSET (1..ids')]
      BY <1>2, <2>1, <3>1 DEF StartConnects
    <3> QED
      BY <1>t, <2>2, <2>3, <3>2 DEF ServerTypes
  <2> QED
    BY <2>4, <2>5, <2>6, <2>7, <2>8 DEF TypeInv
<1>3. ASSUME SendRequest, UNCHANGED faults PROVE TypeInv'
  <2>1. PICK c \in Conns : c = clients["COMMAND"]
    BY <1>3, <1>o DEF SendRequest
  <2>2. /\ ids' = ids + 1 /\ ids' \in Nat /\ ids <= ids' /\ 1..ids \subseteq 1..ids' /\ ids' \in 1..ids'
        /\ ids' \in 0..MaxIds
    BY <1>3, <1>n, <1>t DEF SendRequest, ClientTypes
  <2>3. /\ own' = ids' /\ upc' = "ack" /\ upc = "idle"
        /\ requests' = [requests EXCEPT ![c] = Append(@, [kind |-> "run", arg |-> ids'])]
        /\ UNCHANGED <<setupVars, active, results, ppc, waiting, expired, answer, linkVars, running, queued>>
    BY <1>3, <2>1 DEF SendRequest
  <2>4. ClientTypes' /\ FlagTypes'
    BY <1>3, <1>t, <2>1, <2>2, <2>3 DEF ClientTypes, FlagTypes, Conns
  <2>5. IdTypes'
    BY <1>n, <1>t, <2>2, <2>3 DEF IdTypes
  <2>6. LinkTypes'
    <3>1. Seq(Messages(ids)) \subseteq Seq(Messages(ids')) /\ Seq(Requests(ids)) \subseteq Seq(Requests(ids'))
      BY <1>n, <2>2, MessagesGrow
    <3>2. [kind |-> "run", arg |-> ids'] \in Requests(ids')
      BY <2>2 DEF Requests
    <3>3. requests[c] \in Seq(Requests(ids')) /\ requests \in [Conns -> Seq(Requests(ids'))]
      BY <1>t, <3>1 DEF LinkTypes
    <3>4. Append(requests[c], [kind |-> "run", arg |-> ids']) \in Seq(Requests(ids'))
      BY <3>2, <3>3
    <3> QED
      BY <1>t, <2>3, <3>1, <3>3, <3>4 DEF LinkTypes
  <2>7. ServerTypes'
    BY <1>t, <2>2, <2>3 DEF ServerTypes
  <2> QED
    BY <2>4, <2>5, <2>6, <2>7 DEF TypeInv
<1>4. ASSUME NEW c \in Conns, in_q[c] # <<>>, in_q' = [in_q EXCEPT ![c] = Tail(@)],
             UNCHANGED <<ids, requests>>
      PROVE  LinkTypes' /\ Head(in_q[c]) \in Messages(ids)
  <2>1. in_q[c] \in Seq(Messages(ids))
    BY <1>t DEF LinkTypes
  <2>2. Tail(in_q[c]) \in Seq(Messages(ids)) /\ Head(in_q[c]) \in Messages(ids)
    BY <1>4, <2>1
  <2> QED
    BY <1>4, <1>t, <2>2 DEF LinkTypes
<1>5. ASSUME ReadAck, UNCHANGED faults PROVE TypeInv'
  <2>1. PICK c \in Conns : c = clients["COMMAND"]
    BY <1>5, <1>n, <1>t DEF ReadAck, ClientTypes, Conns, Types
  <2>2. /\ in_q[c] # <<>> /\ Head(in_q[c]).kind = "ack" /\ in_q' = [in_q EXCEPT ![c] = Tail(@)]
        /\ waiting' = Head(in_q[c]).arg /\ upc' = "get"
        /\ UNCHANGED <<setupVars, active, results, ppc, own, expired, answer, conns, open, serverVars>>
    BY <1>5, <2>1 DEF ReadAck, Awaited
  <2>3. LinkTypes' /\ Head(in_q[c]) \in Messages(ids)
    BY <1>4, <2>2
  <2>4. Head(in_q[c]).arg \in 1..ids
    BY <2>2, <2>3 DEF Messages
  <2>5. ClientTypes' /\ FlagTypes'
    BY <1>5, <1>t, <2>2 DEF ClientTypes, FlagTypes
  <2>6. IdTypes' /\ ServerTypes'
    BY <1>t, <1>n, <2>2, <2>4 DEF IdTypes, ServerTypes
  <2> QED
    BY <2>3, <2>5, <2>6 DEF TypeInv
<1>6. ASSUME ReadAckFails, UNCHANGED faults PROVE TypeInv'
  <2>1. PICK c \in Conns : c = clients["COMMAND"]
    BY <1>6, <1>n, <1>t DEF ReadAckFails, ClientTypes, Conns, Types
  <2>2. /\ upc' = "idle" /\ upc = "ack" /\ own' = 0
        /\ UNCHANGED <<setupVars, active, results, ppc, waiting, expired, answer, conns, open, serverVars>>
        /\ in_q' = in_q \/ (in_q[c] # <<>> /\ in_q' = [in_q EXCEPT ![c] = Tail(@)])
    BY <1>6, <2>1 DEF ReadAckFails
  <2>3. LinkTypes'
    BY <1>4, <1>t, <2>2 DEF LinkTypes
  <2>4. ClientTypes' /\ FlagTypes'
    BY <1>6, <1>t, <2>2 DEF ClientTypes, FlagTypes
  <2>5. IdTypes' /\ ServerTypes'
    BY <1>t, <1>n, <2>2 DEF IdTypes, ServerTypes
  <2> QED
    BY <2>3, <2>4, <2>5 DEF TypeInv
<1>7. ASSUME GetResult \/ GetExpires, UNCHANGED faults PROVE TypeInv'
  <2>1. /\ UNCHANGED <<setupVars, active, ppc, linkVars, serverVars>>
        /\ upc' = "idle" /\ own' = 0 /\ waiting' = 0 /\ upc = "get"
        /\ results' = results \/ results' = results \ {waiting}
        /\ expired' = expired \/ (expired' = expired \cup {waiting} /\ waiting \notin results)
    BY <1>7 DEF GetResult, GetExpires, Erased
  <2>2. ClientTypes' /\ FlagTypes'
    BY <1>7, <1>t, <2>1 DEF ClientTypes, FlagTypes
  <2>3. LinkTypes' /\ ServerTypes'
    BY <1>t, <2>1 DEF LinkTypes, ServerTypes
  <2>4. waiting \in 1..ids /\ 0 \in 0..ids
    BY <1>t, <1>n, <2>1 DEF IdTypes
  <2>5. expired' \subseteq 1..ids
    BY <1>t, <2>1, <2>4 DEF IdTypes
  <2>6. results' \subseteq 1..ids
    BY <1>t, <2>1 DEF IdTypes
  <2>7. IdTypes'
    BY <1>t, <2>1, <2>4, <2>5, <2>6 DEF IdTypes
  <2> QED
    BY <2>2, <2>3, <2>7 DEF TypeInv
<1>8. ASSUME Joins, UNCHANGED faults PROVE TypeInv'
  <2>1. /\ upc' \in {"idle", "gone"} /\ joinable' = FALSE /\ state' = "CLOSED" /\ (open' = open \/ open' = {})
        /\ upc # "get" /\ UNCHANGED <<clients, queue_ids, terminated, left, active, results, ppc, userVars, conns, serverVars>>
    BY <1>8 DEF Joins, Joining
  <2>2. ClientTypes'
    BY <1>8, <1>t, <2>1 DEF ClientTypes
  <2>3. FlagTypes'
    BY <1>t, <2>1 DEF FlagTypes
  <2>4. IdTypes'
    BY <1>t, <1>n, <2>1 DEF IdTypes
  <2>5. ServerTypes'
    BY <1>t, <2>1 DEF ServerTypes
  <2>6. LinkTypes'
    <3>1. [kind |-> "stop", arg |-> 0] \in Messages(ids)
      BY DEF Messages
    <3>2. \A c \in Conns : /\ in_q[c] \in Seq(Messages(ids))
                           /\ Append(in_q[c], [kind |-> "stop", arg |-> 0]) \in Seq(Messages(ids))
      BY <1>t, <3>1 DEF LinkTypes
    <3>3. in_q' \in [Conns -> Seq(Messages(ids))]
      BY <1>8, <3>2 DEF Joins, Conns
    <3> QED
      BY <1>t, <2>1, <3>3 DEF LinkTypes
  <2> QED
    BY <2>2, <2>3, <2>4, <2>5, <2>6 DEF TypeInv
<1>9. ASSUME PollSends, UNCHANGED faults PROVE TypeInv'
  <2>1. PICK c \in Conns : c = clients["POLL"]
    BY <1>9, <1>n, <1>t DEF PollSends, ClientTypes, Conns, Types
  <2>2. /\ ppc' = "read" /\ requests' = [requests EXCEPT ![c] = Append(@, [kind |-> "poll", arg |-> PolledQueue])]
        /\ UNCHANGED <<setupVars, active, results, upc, userVars, linkVars, ids, running, queued>>
    BY <1>9, <2>1 DEF PollSends
  <2>3. ClientTypes' /\ FlagTypes'
    BY <1>9, <1>t, <2>1, <2>2 DEF ClientTypes, FlagTypes, Conns
  <2>4. IdTypes' /\ ServerTypes'
    BY <1>t, <2>2 DEF IdTypes, ServerTypes
  <2>5. LinkTypes'
    <3>1. PolledQueue \in 0..MaxConns
      BY <1>t, <1>n DEF ClientTypes, PolledQueue, Types
    <3>2. [kind |-> "poll", arg |-> PolledQueue] \in Requests(ids)
      BY <3>1 DEF Requests
    <3>3. Append(requests[c], [kind |-> "poll", arg |-> PolledQueue]) \in Seq(Requests(ids))
      BY <1>t, <3>2 DEF LinkTypes
    <3> QED
      BY <1>t, <2>2, <3>3 DEF LinkTypes
  <2> QED
    BY <2>3, <2>4, <2>5 DEF TypeInv
<1>10. ASSUME PollReads, UNCHANGED faults PROVE TypeInv'
  <2>1. PICK c \in Conns : c = clients["POLL"]
    BY <1>10, <1>n, <1>t DEF PollReads, ClientTypes, Conns, Types
  <2>2. /\ in_q[c] # <<>> /\ in_q' = [in_q EXCEPT ![c] = Tail(@)] /\ ppc' = "test"
        /\ results' = IF Head(in_q[c]).kind = "results" THEN results \cup Head(in_q[c]).arg ELSE results
        /\ UNCHANGED <<setupVars, active, upc, userVars, conns, open, serverVars>>
    BY <1>10, <2>1 DEF PollReads
  <2>3. LinkTypes' /\ Head(in_q[c]) \in Messages(ids)
    BY <1>4, <2>2
  <2>4. Head(in_q[c]).kind = "results" => Head(in_q[c]).arg \subseteq 1..ids
    BY <2>3 DEF Messages
  <2>5. ClientTypes' /\ FlagTypes'
    BY <1>10, <1>t, <2>1, <2>2 DEF ClientTypes, FlagTypes, Conns
  <2>6. results' \subseteq 1..ids
    BY <1>t, <2>2, <2>4 DEF IdTypes
  <2>7. IdTypes' /\ ServerTypes'
    BY <1>t, <2>2, <2>6 DEF IdTypes, ServerTypes
  <2> QED
    BY <2>3, <2>5, <2>7 DEF TypeInv
<1>11. ASSUME NEW c \in Conns, ServerReplies(c), UNCHANGED faults PROVE TypeInv'
  <2>1. PICK r \in Requests(ids) : r = Head(requests[c])
    <3>1. requests[c] \in Seq(Requests(ids)) /\ requests[c] # <<>>
      BY <1>11, <1>t DEF LinkTypes, ServerReplies
    <3> QED
      BY <3>1
  <2>2. /\ requests' = [requests EXCEPT ![c] = Tail(@)] /\ requests[c] # <<>>
        /\ UNCHANGED <<setupVars, active, results, upc, ppc, userVars, conns, open, ids>>
    BY <1>11 DEF ServerReplies
  <2>3. PICK m \in Messages(ids) :
          /\ in_q' = [in_q EXCEPT ![c] = Append(@, m)]
          /\ running' \subseteq (1..ids) \X Conns
          /\ queued' \in [Conns -> SUBSET (1..ids)]
    <3>1. CASE r.kind = "run"
      <4>1. r.arg \in 1..ids
        BY <3>1 DEF Requests
      <4>2. [kind |-> "ack", arg |-> r.arg] \in Messages(ids)
        BY <4>1 DEF Messages
      <4>3. /\ in_q' = [in_q EXCEPT ![c] = Append(@, [kind |-> "ack", arg |-> r.arg])]
            /\ running' = running \cup {<<r.arg, c>>} /\ queued' = queued
        BY <1>11, <2>1, <3>1 DEF ServerReplies
      <4>4. <<r.arg, c>> \in (1..ids) \X Conns
        BY <4>1
      <4>5. running' \subseteq (1..ids) \X Conns /\ queued' \in [Conns -> SUBSET (1..ids)]
        BY <1>t, <4>3, <4>4 DEF ServerTypes
      <4> QED
        BY <4>2, <4>3, <4>5
    <3>2. CASE r.kind = "poll" /\ r.arg \in open
      <4>1. r.arg \in Conns
        BY <1>o, <3>2
      <4>2. queued[r.arg] \subseteq 1..ids
        BY <1>t, <4>1 DEF ServerTypes
      <4>3. [kind |-> "results", arg |-> queued[r.arg]] \in Messages(ids)
        BY <4>2 DEF Messages
      <4>4. /\ in_q' = [in_q EXCEPT ![c] = Append(@, [kind |-> "results", arg |-> queued[r.arg]])]
            /\ running' = running /\ queued' = [queued EXCEPT ![r.arg] = {}]
        BY <1>11, <2>1, <3>2 DEF ServerReplies, Flushed
      <4> QED
        BY <1>t, <4>3, <4>4 DEF ServerTypes
    <3>3. CASE r.kind = "poll" /\ r.arg \notin open
      <4>1. [kind |-> "error", arg |-> 0] \in Messages(ids)
        BY DEF Messages
      <4>2. /\ in_q' = [in_q EXCEPT ![c] = Append(@, [kind |-> "error", arg |-> 0])]
            /\ running' = running /\ queued' = queued
        BY <1>11, <2>1, <3>3 DEF ServerReplies
      <4> QED
        BY <1>t, <4>1, <4>2 DEF ServerTypes
    <3> QED
      BY <2>1, <3>1, <3>2, <3>3 DEF Requests
  <2>4. LinkTypes'
    <3>1. in_q[c] \in Seq(Messages(ids)) /\ requests[c] \in Seq(Requests(ids))
      BY <1>t DEF LinkTypes
    <3>2. Append(in_q[c], m) \in Seq(Messages(ids)) /\ Tail(requests[c]) \in Seq(Requests(ids))
      BY <2>2, <3>1
    <3> QED
      BY <1>t, <2>2, <2>3, <3>2 DEF LinkTypes
  <2>5. ClientTypes' /\ FlagTypes'
    BY <1>11, <1>t, <2>2 DEF ClientTypes, FlagTypes
  <2>6. IdTypes' /\ ServerTypes'
    BY <1>t, <2>2, <2>3 DEF IdTypes, ServerTypes
  <2> QED
    BY <2>4, <2>5, <2>6 DEF TypeInv
<1>12. ASSUME NEW id \in 1..MaxIds, NEW q \in Conns, ServerFinishes(id, q), UNCHANGED faults
       PROVE  TypeInv'
  <2>1. /\ <<id, q>> \in running /\ running' = running \ {<<id, q>>}
        /\ queued' = IF q \in open THEN [queued EXCEPT ![q] = @ \cup {id}] ELSE queued
        /\ UNCHANGED <<setupVars, active, results, upc, ppc, userVars, linkVars, ids, requests>>
    BY <1>12 DEF ServerFinishes
  <2>2. id \in 1..ids
    BY <1>t, <2>1 DEF ServerTypes
  <2>3. ServerTypes'
    BY <1>t, <2>1, <2>2 DEF ServerTypes
  <2>4. ClientTypes' /\ FlagTypes'
    BY <1>12, <1>t, <2>1 DEF ClientTypes, FlagTypes
  <2>5. IdTypes' /\ LinkTypes'
    BY <1>t, <2>1 DEF IdTypes, LinkTypes
  <2> QED
    BY <2>3, <2>4, <2>5 DEF TypeInv
<1>13. ASSUME NEW c \in Conns, ConnectionDrops(c), UNCHANGED faults PROVE TypeInv'
  <2>1. /\ open' = open \ {c} /\ requests' = [requests EXCEPT ![c] = <<>>] /\ queued' = [queued EXCEPT ![c] = {}]
        /\ UNCHANGED <<setupVars, active, results, upc, ppc, userVars, in_q, conns, ids, running>>
    BY <1>13 DEF ConnectionDrops
  <2>2. ClientTypes' /\ FlagTypes'
    <3>1. open' \subseteq 1..conns'
      BY <1>t, <2>1 DEF ClientTypes
    <3>2. ClientTypes'
      BY <1>13, <1>t, <2>1, <3>1 DEF ClientTypes
    <3> QED
      BY <1>t, <2>1, <3>2 DEF FlagTypes
  <2>3. LinkTypes' /\ ServerTypes'
    BY <1>t, <2>1 DEF LinkTypes, ServerTypes
  <2>4. IdTypes'
    BY <1>t, <2>1 DEF IdTypes
  <2> QED
    BY <2>2, <2>3, <2>4 DEF TypeInv
<1>14. ASSUME UNCHANGED <<faults, ids, results, left, userVars, in_q, conns, serverVars>>,
              upc # "get", upc' # "get", ClientTypes', FlagTypes'
       PROVE  TypeInv'
  BY <1>14, <1>t DEF TypeInv, IdTypes, LinkTypes, ServerTypes
<1>15. ASSUME UNCHANGED <<faults, ids, results, left, userVars, in_q, conns, serverVars, upc>>,
              ClientTypes', FlagTypes'
       PROVE  TypeInv'
  BY <1>15, <1>t DEF TypeInv, IdTypes, LinkTypes, ServerTypes
<1>16. ASSUME StartBegins \/ (\E t \in Types : StartRefused(t)) \/ StartThread, UNCHANGED faults
       PROVE  TypeInv'
  <2>1. /\ UNCHANGED <<ids, results, left, userVars, in_q, conns, serverVars, open, clients, queue_ids, state, active>>
        /\ upc # "get" /\ upc' \in {"idle", "COMMAND", "gone"}
        /\ terminated' \in {terminated, "start"}
        /\ ppc' = ppc \/ ppc' \in {"wait", "dead"}
        /\ joinable' \in {joinable, TRUE}
    BY <1>16 DEF StartBegins, StartRefused, StartThread, Types, Terminates
  <2>2. ClientTypes'
    BY <1>16, <1>t, <2>1 DEF ClientTypes
  <2>3. FlagTypes'
    BY <1>t, <2>1 DEF FlagTypes
  <2> QED
    BY <1>14, <1>16, <2>1, <2>2, <2>3
<1>17. ASSUME ShutdownBegins \/ DestructorShutsDown \/ DestructorOnly, UNCHANGED faults
       PROVE  TypeInv'
  <2>1. /\ UNCHANGED <<ids, results, left, userVars, in_q, conns, serverVars, clients, queue_ids, joinable>>
        /\ upc # "get" /\ upc' \in {"idle", "join", "join_destroy", "gone"}
        /\ state' \in {state, "CLOSING"} /\ open' \in {open, {}}
        /\ terminated' \in {terminated, "destructor"}
        /\ ppc' = ppc \/ ppc' = "dead"
        /\ active' \in {active, FALSE}
    BY <1>17 DEF ShutdownBegins, DestructorShutsDown, DestructorOnly, Stops, Stopped, MayChange, Terminates
  <2>2. ClientTypes'
    BY <1>17, <1>t, <2>1 DEF ClientTypes
  <2>3. FlagTypes'
    BY <1>t, <2>1 DEF FlagTypes
  <2> QED
    BY <1>14, <1>17, <2>1, <2>2, <2>3
<1>18. ASSUME PollWaits \/ PollStores \/ PollActivates \/ PollEnds \/ PollReadFails, UNCHANGED faults
       PROVE  TypeInv'
  <2>1. /\ UNCHANGED <<ids, results, left, userVars, in_q, conns, serverVars, clients, queue_ids, joinable,
                       open, upc, terminated>>
        /\ state' \in {state, "OPEN"}
        /\ ppc' \in {"store", "activate", "test", "ended"}
        /\ ppc' # "ended" => clients["POLL"] # 0
        /\ active' \in {active, TRUE}
    BY <1>18, <1>t, <1>o DEF PollWaits, PollStores, PollActivates, PollEnds, PollReadFails, ClientTypes
  <2>2. ClientTypes'
    BY <1>18, <1>t, <2>1 DEF ClientTypes
  <2>3. FlagTypes'
    BY <1>t, <2>1 DEF FlagTypes
  <2> QED
    BY <1>15, <1>18, <2>1, <2>2, <2>3
<1>19. CASE Start /\ UNCHANGED faults
  BY <1>2, <1>16, <1>19 DEF Start
<1>20. CASE SendCommand /\ UNCHANGED faults
  BY <1>3, <1>5, <1>6, <1>7, <1>20 DEF SendCommand
<1>21. CASE Ends /\ UNCHANGED faults
  BY <1>8, <1>17, <1>21 DEF Ends
<1>22. CASE PollThread /\ UNCHANGED faults
  BY <1>9, <1>10, <1>18, <1>22 DEF PollThread
<1>23. CASE Server /\ UNCHANGED faults
  BY <1>11, <1>12, <1>23 DEF Server, Conns
<1>24. CASE Rests /\ UNCHANGED faults
  BY <1>1, <1>24 DEF Rests, vars
<1> QED
  BY <1>1, <1>13, <1>19, <1>20, <1>21, <1>22, <1>23, <1>24 DEF Next, Conns

(* Every variable stays in its type and the map of results within the ids    *)
(* that were given.                                                          *)
THEOREM ClientTypeOK == Spec => []TypeOK
<1>1. TypeInv => TypeOK
  BY DEF TypeInv, ClientTypes, FlagTypes, IdTypes, TypeOK
<1> QED
  BY <1>1, ClientTypesInit, ClientTypesNext, PTL DEF Spec

-----------------------------------------------------------------------------
(* The life of the poll thread *)

LEMMA LifeNext == LifeInv /\ [Next]_vars => LifeInv'
<1> SUFFICES ASSUME LifeInv, [Next]_vars PROVE LifeInv'
  OBVIOUS
<1> USE DEF setupVars, userVars, linkVars, serverVars, Starting, Joining, Answered
<1>i. ThreadLife /\ FirstAnswer /\ Patient
  BY DEF LifeInv
<1>1. ASSUME UNCHANGED <<faults, state, joinable, terminated, upc, ppc, answer>>, results' \subseteq results
      PROVE  LifeInv'
  BY <1>1, <1>i DEF LifeInv, ThreadLife, FirstAnswer, Patient
<1>2. ASSUME UNCHANGED <<faults, state, joinable, terminated, ppc>>, results' \subseteq results,
             answer' = answer \/ results # {},
             upc \notin {"join", "join_destroy", "gone"},
             upc' \notin {"thread", "COMMAND", "POLL", "join", "join_destroy", "gone"}
      PROVE  LifeInv'
  BY <1>2, <1>i DEF LifeInv, ThreadLife, FirstAnswer, Patient
<1>3. ASSUME NEW t \in Types, NEW o \in Outcomes, StartConnects(t, o), UNCHANGED faults
      PROVE  LifeInv'
  <2>1. /\ UNCHANGED <<state, joinable, terminated, results, ppc, answer>>
        /\ Starting /\ upc' \in {"idle", "POLL", "thread"}
    BY <1>3 DEF StartConnects, Types, Outcomes
  <2> QED
    BY <1>3, <1>i, <2>1 DEF LifeInv, ThreadLife, FirstAnswer, Patient
<1>4. ASSUME StartBegins, UNCHANGED faults PROVE LifeInv'
  BY <1>4, <1>i DEF StartBegins, StartAllowed, MayChange, LifeInv, ThreadLife, FirstAnswer, Patient
<1>5. ASSUME NEW t \in Types, StartRefused(t), UNCHANGED faults PROVE LifeInv'
  <2>1. /\ UNCHANGED <<state, joinable, terminated, results, ppc, answer>>
        /\ upc \notin {"join", "join_destroy", "gone"} /\ upc' = "idle"
    BY <1>5 DEF StartRefused, Types
  <2> QED
    BY <1>2, <1>5, <2>1
<1>6. ASSUME StartThread, UNCHANGED faults PROVE LifeInv'
  <2>1. CASE joinable
    BY <1>6, <1>i, <2>1 DEF StartThread, Terminates, LifeInv, ThreadLife, FirstAnswer, Patient
  <2>2. CASE ~joinable
    BY <1>6, <1>i, <2>2 DEF StartThread, LifeInv, ThreadLife, FirstAnswer, Patient
  <2> QED
    BY <2>1, <2>2
<1>7. ASSUME SendCommand, UNCHANGED faults PROVE LifeInv'
  <2>1. /\ UNCHANGED <<state, joinable, terminated, ppc>> /\ results' \subseteq results
        /\ answer' = answer \/ results # {}
        /\ upc \in {"idle", "ack", "get"} /\ upc' \in {"idle", "ack", "get"}
    BY <1>7 DEF SendCommand, SendRequest, ReadAck, ReadAckFails, GetResult, GetExpires, Erased
  <2> QED
    BY <1>2, <1>7, <2>1
<1>8. ASSUME NEW to \in {"join", "join_destroy"}, MayChange, Stops(to), UNCHANGED faults PROVE LifeInv'
  BY <1>8, <1>i DEF MayChange, Stops, LifeInv, ThreadLife, FirstAnswer, Patient
<1>9. ASSUME DestructorOnly, UNCHANGED faults PROVE LifeInv'
  <2>1. CASE joinable
    BY <1>9, <1>i, <2>1 DEF DestructorOnly, NeedsShutdown, Terminates, MayChange, LifeInv, ThreadLife,
         FirstAnswer, Patient
  <2>2. CASE ~joinable
    BY <1>9, <1>i, <2>2 DEF DestructorOnly, NeedsShutdown, MayChange, LifeInv, ThreadLife, FirstAnswer,
         Patient
  <2> QED
    BY <2>1, <2>2
<1>10. ASSUME Joins, UNCHANGED faults PROVE LifeInv'
  BY <1>10, <1>i DEF Joins, LifeInv, ThreadLife, FirstAnswer, Patient
<1>11. ASSUME PollWaits \/ PollActivates \/ PollEnds \/ PollSends \/ PollReadFails \/ PollReads,
              UNCHANGED faults
       PROVE  LifeInv'
  BY <1>11, <1>i DEF PollWaits, PollActivates, PollEnds, PollSends, PollReads, PollReadFails, LifeInv,
       ThreadLife, FirstAnswer, Patient
<1>12. ASSUME PollStores, UNCHANGED faults PROVE LifeInv'
  BY <1>12, <1>i DEF PollStores, Locked, LifeInv, ThreadLife, FirstAnswer, Patient
<1>13. ASSUME \/ \E c \in 1..MaxConns : ServerReplies(c) \/ ConnectionDrops(c)
              \/ \E id \in 1..MaxIds, q \in 1..MaxConns : ServerFinishes(id, q)
       PROVE  UNCHANGED <<state, joinable, terminated, upc, ppc, answer, results>>
  BY <1>13 DEF ServerReplies, ConnectionDrops, ServerFinishes
<1>14. ASSUME Rests \/ UNCHANGED vars
       PROVE  UNCHANGED <<state, joinable, terminated, upc, ppc, answer, results>>
  BY <1>14 DEF Rests, moving, vars
<1>15. CASE UNCHANGED vars
  BY <1>1, <1>14, <1>15 DEF vars
<1>16. CASE Start /\ UNCHANGED faults
  BY <1>3, <1>4, <1>5, <1>6, <1>16 DEF Start
<1>17. CASE Ends /\ UNCHANGED faults
  BY <1>8, <1>9, <1>10, <1>17 DEF Ends, ShutdownBegins, DestructorShutsDown
<1>18. CASE PollThread /\ UNCHANGED faults
  BY <1>11, <1>12, <1>18 DEF PollThread
<1>19. ASSUME Next PROVE LifeInv'
  BY <1>1, <1>7, <1>13, <1>14, <1>16, <1>17, <1>18, <1>19 DEF Next, Server
<1> QED
  BY <1>15, <1>19

(* Initially the client's thread has not started. *)
LEMMA LifeInit == Init => LifeInv
BY DEF Init, LifeInv, ThreadLife, FirstAnswer, Patient, Starting, Joining, Answered

(* A user who waits for a first answer before it restarts, shuts down or     *)
(* destroys the client never meets std::terminate, and the poll thread is    *)
(* over before the members it uses are destroyed.                            *)
THEOREM PatientEndsCleanly == Spec => []EndsCleanly
<1>1. LifeInv => EndsCleanly
  BY DEF LifeInv, Patient, EndsCleanly
<1> QED
  BY <1>1, LifeInit, LifeNext, PTL DEF Spec

-----------------------------------------------------------------------------
(* What a connection loses or gains, the whole loses or gains. *)

(* The union of a set of sets that gets one more. *)
LEMMA UnionAdds == ASSUME NEW A, NEW x PROVE UNION (A \cup {x}) = (UNION A) \cup x /\ UNION (A \cup {}) = UNION A
OBVIOUS

(* A side reads the next message of connection c. *)
LEMMA InTakes ==
  ASSUME LinkTypes, Inbox, NEW c \in Conns, in_q[c] # <<>>,
         in_q' = [in_q EXCEPT ![c] = Tail(@)], clients' = clients, NEW h, h = Head(in_q[c])
  PROVE  /\ Inbox'
         /\ h.kind = "ack" => Acked = Acked' \cup {h.arg} /\ h.arg \notin Acked'
         /\ h.kind # "ack" => Acked' = Acked
         /\ h.kind = "results" => Returned = Returned' \cup h.arg /\ h.arg \cap Returned' = {}
         /\ h.kind # "results" => Returned' = Returned
         /\ \A d \in Conns : Args(in_q'[d], "stop") \subseteq Args(in_q[d], "stop")
<1> DEFINE s == in_q[c]
           e == Tail(s)
<1>1. /\ s \in Seq(Messages(ids)) /\ s # <<>> /\ in_q'[c] = e
      /\ \A d \in Conns : d # c => in_q'[d] = in_q[d]
  BY DEF LinkTypes
<1>2. /\ Args(s, "ack") = Args(e, "ack") \cup (IF h.kind = "ack" THEN {h.arg} ELSE {})
      /\ Args(s, "results") = Args(e, "results") \cup (IF h.kind = "results" THEN {h.arg} ELSE {})
      /\ Args(s, "stop") = Args(e, "stop") \cup (IF h.kind = "stop" THEN {h.arg} ELSE {})
      /\ Once(s, "ack") => Once(e, "ack") /\ (h.kind = "ack" => h.arg \notin Args(e, "ack"))
      /\ ApartIn(s, "results") => /\ ApartIn(e, "results")
                                  /\ h.kind = "results" => h.arg \cap UNION Args(e, "results") = {}
  BY <1>1, ArgsTail
<1>3. Once(s, "ack") /\ ApartIn(s, "results")
  BY DEF Inbox
<1> HIDE DEF e
<1>4. Inbox'
  BY ZenonT(40), <1>1, <1>2, <1>3 DEF Inbox
<1>5. ASSUME NEW k PROVE \A d \in Conns : d # c => Args(in_q'[d], k) = Args(in_q[d], k)
  BY <1>1
<1>6. Acked = Acked' \cup (IF h.kind = "ack" THEN {h.arg} ELSE {})
  <2>1. \A d \in Conns : Args(in_q[d], "ack") =
          Args(in_q'[d], "ack") \cup (IF d = c /\ h.kind = "ack" THEN {h.arg} ELSE {})
    BY <1>1, <1>2, <1>5
  <2> QED
    BY <2>1 DEF Acked
<1>7. Returned = Returned' \cup (IF h.kind = "results" THEN h.arg ELSE {})
  <2>1. \A d \in Conns : UNION Args(in_q[d], "results") =
          (UNION Args(in_q'[d], "results")) \cup (IF d = c /\ h.kind = "results" THEN h.arg ELSE {})
    <3>1. UNION Args(s, "results")
            = (UNION Args(e, "results")) \cup (IF h.kind = "results" THEN h.arg ELSE {})
      BY <1>2, UnionAdds
    <3> QED
      BY <1>1, <1>5, <3>1
  <2>2. /\ \A x : x \in Returned <=> \E d \in Conns : x \in UNION Args(in_q[d], "results")
        /\ \A x : x \in Returned' <=> \E d \in Conns : x \in UNION Args(in_q'[d], "results")
    BY DEF Returned
  <2> HIDE DEF s
  <2>3. \A x : x \in Returned <=> x \in Returned' \cup (IF h.kind = "results" THEN h.arg ELSE {})
    BY SMTT(40), <2>1, <2>2
  <2> QED
    BY <2>3
<1>8. ASSUME h.kind = "ack" PROVE h.arg \notin Acked'
  <2>1. c = clients["COMMAND"]
    BY <1>2, <1>8 DEF Inbox
  <2>2. \A d \in Conns : d # c => Args(in_q'[d], "ack") = {}
    BY <1>5, <2>1 DEF Inbox
  <2>3. h.arg \notin Args(in_q'[c], "ack")
    BY <1>1, <1>2, <1>3, <1>8
  <2> QED
    BY <2>2, <2>3 DEF Acked
<1>9. ASSUME h.kind = "results" PROVE h.arg \cap Returned' = {}
  <2>1. c = clients["POLL"]
    BY <1>2, <1>9 DEF Inbox
  <2>2. \A d \in Conns : d # c => Args(in_q'[d], "results") = {}
    BY <1>5, <2>1 DEF Inbox
  <2>3. h.arg \cap UNION Args(in_q'[c], "results") = {}
    BY <1>1, <1>2, <1>3, <1>9
  <2> QED
    BY SMTT(40), <2>2, <2>3 DEF Returned
<1>10. \A d \in Conns : Args(in_q'[d], "stop") \subseteq Args(in_q[d], "stop")
  BY <1>1, <1>2
<1> QED
  BY <1>4, <1>6, <1>7, <1>8, <1>9, <1>10

(* A message arrives on connection c. *)
LEMMA InPuts ==
  ASSUME LinkTypes, Inbox, NEW c \in Conns, NEW m \in Messages(ids),
         in_q' = [in_q EXCEPT ![c] = Append(@, m)], clients' = clients,
         m.kind = "ack" => c = clients["COMMAND"] /\ m.arg \notin Acked,
         m.kind = "results" => c = clients["POLL"] /\ m.arg \cap Returned = {},
         m.kind # "stop"
  PROVE  /\ Inbox'
         /\ Acked' = Acked \cup (IF m.kind = "ack" THEN {m.arg} ELSE {})
         /\ Returned' = Returned \cup (IF m.kind = "results" THEN m.arg ELSE {})
         /\ \A d \in Conns : Args(in_q'[d], "stop") = Args(in_q[d], "stop")
<1> DEFINE s == in_q[c]
           e == Append(s, m)
<1>1. /\ s \in Seq(Messages(ids)) /\ in_q'[c] = e
      /\ \A d \in Conns : d # c => in_q'[d] = in_q[d]
  BY DEF LinkTypes
<1>2. /\ Args(e, "ack") = Args(s, "ack") \cup (IF m.kind = "ack" THEN {m.arg} ELSE {})
      /\ Args(e, "results") = Args(s, "results") \cup (IF m.kind = "results" THEN {m.arg} ELSE {})
      /\ Args(e, "stop") = Args(s, "stop") \cup (IF m.kind = "stop" THEN {m.arg} ELSE {})
      /\ Once(s, "ack") /\ (m.kind = "ack" => m.arg \notin Args(s, "ack")) => Once(e, "ack")
      /\ ApartIn(s, "results") /\ (m.kind = "results" => m.arg \cap UNION Args(s, "results") = {})
           => ApartIn(e, "results")
  BY <1>1, ArgsAppend
<1>3. /\ Once(s, "ack") /\ ApartIn(s, "results")
      /\ Args(s, "ack") \subseteq Acked /\ UNION Args(s, "results") \subseteq Returned
  BY DEF Inbox, Acked, Returned
<1> HIDE DEF e
<1>a. Once(e, "ack") /\ ApartIn(e, "results")
  <2>1. m.kind = "ack" => m.arg \notin Args(s, "ack")
    BY <1>3
  <2>2. m.kind = "results" => m.arg \cap UNION Args(s, "results") = {}
    BY <1>3
  <2> QED
    BY <1>2, <1>3, <2>1, <2>2
<1>4. Inbox'
  <2>1. ASSUME NEW d \in Conns
        PROVE  /\ Args(in_q'[d], "ack") # {} => d = clients["COMMAND"]
               /\ Args(in_q'[d], "results") # {} => d = clients["POLL"]
               /\ Once(in_q'[d], "ack") /\ ApartIn(in_q'[d], "results")
    <3>1. CASE d = c
      BY <1>1, <1>2, <1>a, <3>1 DEF Inbox
    <3>2. CASE d # c
      BY <1>1, <3>2 DEF Inbox
    <3> QED
      BY <3>1, <3>2
  <2> QED
    BY <2>1 DEF Inbox
<1>6. Acked' = Acked \cup (IF m.kind = "ack" THEN {m.arg} ELSE {})
  <2>1. \A d \in Conns : Args(in_q'[d], "ack") =
          Args(in_q[d], "ack") \cup (IF d = c /\ m.kind = "ack" THEN {m.arg} ELSE {})
    BY <1>1, <1>2
  <2> QED
    BY <2>1 DEF Acked
<1>7. Returned' = Returned \cup (IF m.kind = "results" THEN m.arg ELSE {})
  <2>1. \A d \in Conns : UNION Args(in_q'[d], "results") =
          (UNION Args(in_q[d], "results")) \cup (IF d = c /\ m.kind = "results" THEN m.arg ELSE {})
    <3>1. UNION Args(e, "results")
            = (UNION Args(s, "results")) \cup (IF m.kind = "results" THEN m.arg ELSE {})
      BY <1>2, UnionAdds
    <3> QED
      BY <1>1, <3>1
  <2>2. /\ \A x : x \in Returned <=> \E d \in Conns : x \in UNION Args(in_q[d], "results")
        /\ \A x : x \in Returned' <=> \E d \in Conns : x \in UNION Args(in_q'[d], "results")
    BY DEF Returned
  <2>3. \A x : x \in Returned' <=> x \in Returned \cup (IF m.kind = "results" THEN m.arg ELSE {})
    BY <2>1, <2>2
  <2> QED
    BY <2>3
<1>8. \A d \in Conns : Args(in_q'[d], "stop") = Args(in_q[d], "stop")
  BY <1>1, <1>2
<1> QED
  BY <1>4, <1>6, <1>7, <1>8

(* The server takes the next request of connection c. *)
LEMMA OutTakes ==
  ASSUME LinkTypes, Outbox, NEW c \in Conns, requests[c] # <<>>,
         requests' = [requests EXCEPT ![c] = Tail(@)], clients' = clients, NEW h, h = Head(requests[c])
  PROVE  /\ Outbox'
         /\ h.kind = "run" => Asked = Asked' \cup {h.arg} /\ h.arg \notin Asked' /\ c = clients["COMMAND"]
         /\ h.kind # "run" => Asked' = Asked
         /\ h.kind = "poll" => c = clients["POLL"]
<1> DEFINE s == requests[c]
           e == Tail(s)
<1>1. /\ s \in Seq(Requests(ids)) /\ s # <<>> /\ requests'[c] = e
      /\ \A d \in Conns : d # c => requests'[d] = requests[d]
  BY DEF LinkTypes
<1>2. /\ Args(s, "run") = Args(e, "run") \cup (IF h.kind = "run" THEN {h.arg} ELSE {})
      /\ Args(s, "poll") = Args(e, "poll") \cup (IF h.kind = "poll" THEN {h.arg} ELSE {})
      /\ Once(s, "run") => Once(e, "run") /\ (h.kind = "run" => h.arg \notin Args(e, "run"))
  BY <1>1, ArgsTail
<1>3. Once(s, "run")
  BY DEF Outbox
<1> HIDE DEF e
<1>4. Outbox'
  BY <1>1, <1>2, <1>3 DEF Outbox
<1>6. Asked = Asked' \cup (IF h.kind = "run" THEN {h.arg} ELSE {})
  <2>1. \A d \in Conns : Args(requests[d], "run") =
          Args(requests'[d], "run") \cup (IF d = c /\ h.kind = "run" THEN {h.arg} ELSE {})
    BY <1>1, <1>2
  <2> QED
    BY <2>1 DEF Asked
<1>7. h.kind \in {"run", "poll"} => c = IF h.kind = "run" THEN clients["COMMAND"] ELSE clients["POLL"]
  BY <1>2 DEF Outbox
<1>8. ASSUME h.kind = "run" PROVE h.arg \notin Asked'
  <2>1. \A d \in Conns : d # c => Args(requests'[d], "run") = {}
    BY <1>1, <1>7, <1>8 DEF Outbox
  <2>2. h.arg \notin Args(requests'[c], "run")
    BY <1>1, <1>2, <1>3, <1>8
  <2> QED
    BY <2>1, <2>2 DEF Asked
<1> QED
  BY <1>4, <1>6, <1>7, <1>8

(* A request is sent on connection c. *)
LEMMA OutPuts ==
  ASSUME LinkTypes, Outbox, NEW c \in Conns, NEW r, NEW n \in Nat, n >= ids, ids \in Nat,
         r \in Requests(n), requests' = [requests EXCEPT ![c] = Append(@, r)], clients' = clients,
         r.kind = "run" => c = clients["COMMAND"] /\ r.arg \notin Asked,
         r.kind = "poll" => c = clients["POLL"]
  PROVE  /\ Outbox'
         /\ Asked' = Asked \cup (IF r.kind = "run" THEN {r.arg} ELSE {})
<1> DEFINE s == requests[c]
           e == Append(s, r)
<1>1. /\ s \in Seq(Requests(n)) /\ requests'[c] = e
      /\ \A d \in Conns : d # c => requests'[d] = requests[d]
  <2>1. Seq(Requests(ids)) \subseteq Seq(Requests(n))
    BY MessagesGrow
  <2> QED
    BY <2>1 DEF LinkTypes
<1>2. /\ Args(e, "run") = Args(s, "run") \cup (IF r.kind = "run" THEN {r.arg} ELSE {})
      /\ Args(e, "poll") = Args(s, "poll") \cup (IF r.kind = "poll" THEN {r.arg} ELSE {})
      /\ Once(s, "run") /\ (r.kind = "run" => r.arg \notin Args(s, "run")) => Once(e, "run")
  BY <1>1, ArgsAppend
<1>3. Once(s, "run") /\ Args(s, "run") \subseteq Asked
  BY DEF Outbox, Asked
<1> HIDE DEF e
<1>4. Once(e, "run")
  BY <1>2, <1>3
<1>5. Outbox'
  <2>1. ASSUME NEW d \in Conns
        PROVE  /\ Args(requests'[d], "run") # {} => d = clients["COMMAND"]
               /\ Args(requests'[d], "poll") # {} => d = clients["POLL"]
               /\ Once(requests'[d], "run")
    <3>1. CASE d = c
      BY <1>1, <1>2, <1>4, <3>1 DEF Outbox
    <3>2. CASE d # c
      BY <1>1, <3>2 DEF Outbox
    <3> QED
      BY <3>1, <3>2
  <2> QED
    BY <2>1 DEF Outbox
<1>6. Asked' = Asked \cup (IF r.kind = "run" THEN {r.arg} ELSE {})
  <2>1. \A d \in Conns : Args(requests'[d], "run") =
          Args(requests[d], "run") \cup (IF d = c /\ r.kind = "run" THEN {r.arg} ELSE {})
    BY <1>1, <1>2
  <2> QED
    BY <2>1 DEF Asked
<1> QED
  BY <1>5, <1>6

(* All ids are among those given. *)
LEMMA FlowRange ==
  ASSUME TypeInv
  PROVE  /\ Asked \subseteq 1..ids /\ Acked \subseteq 1..ids /\ Returned \subseteq 1..ids
         /\ Ran \subseteq 1..ids /\ Queued \subseteq 1..ids
<1> USE DEF TypeInv
<1>1. ASSUME NEW c \in Conns, NEW i \in 1..Len(requests[c])
      PROVE  requests[c][i] \in Requests(ids)
  <2>1. requests[c] \in Seq(Requests(ids))
    BY DEF LinkTypes
  <2> QED
    BY <2>1
<1>2. ASSUME NEW c \in Conns, NEW i \in 1..Len(in_q[c])
      PROVE  in_q[c][i] \in Messages(ids)
  <2>1. in_q[c] \in Seq(Messages(ids))
    BY DEF LinkTypes
  <2> QED
    BY <2>1
<1>3. \A r \in Requests(ids) : r.kind = "run" => r.arg \in 1..ids
  BY DEF Requests
<1>4. \A m \in Messages(ids) : /\ m.kind = "ack" => m.arg \in 1..ids
                               /\ m.kind = "results" => m.arg \subseteq 1..ids
  BY DEF Messages
<1>5. Asked \subseteq 1..ids
  BY <1>1, <1>3 DEF Asked, Args, Kind
<1>6. Acked \subseteq 1..ids
  BY <1>2, <1>4 DEF Acked, Args, Kind
<1>7. ASSUME NEW c \in Conns, NEW x \in UNION Args(in_q[c], "results") PROVE x \in 1..ids
  BY <1>2, <1>4 DEF Args, Kind
<1>8. Returned \subseteq 1..ids
  BY <1>7 DEF Returned
<1>9. Ran \subseteq 1..ids
  BY DEF Ran, ServerTypes
<1>10. Queued \subseteq 1..ids
  BY DEF Queued, ServerTypes
<1> QED
  BY <1>5, <1>6, <1>8, <1>9, <1>10

(* Steps that move no id.  Who is not waiting for an ack or a result may     *)
(* change what it does, and the poll thread what it does except to end.      *)
LEMMA FlowKept ==
  ASSUME TypeInv, FlowInv,
         UNCHANGED <<faults, clients, requests, in_q, running, queued, results, waiting, own, left,
                     expired, answer>>,
         Over' <=> Over,
         upc' = upc \/ (upc \notin {"ack", "get"} /\ upc' \notin {"ack", "get"}),
         open \subseteq open' \/ upc' = "gone",
         upc = "gone" => upc' = "gone"
  PROVE  FlowInv'
<1> USE DEF FlowInv
<1>1. UNCHANGED <<Asked, Acked, Returned, Ran, Queued>>
  BY DEF Asked, Acked, Returned, Ran, Queued
<1>2. Sides' /\ Inbox' /\ Outbox'
  BY DEF Sides, Inbox, Outbox
<1>3. AckFlow' /\ Accounted'
  BY <1>1 DEF AckFlow, Accounted
<1>4. ResultFlow'
  BY <1>1 DEF ResultFlow
<1>5. StopsOver'
  BY DEF StopsOver
<1>6. ClosedQuiet'
  BY DEF ClosedQuiet
<1>7. OwnAck'
  BY <1>1 DEF OwnAck
<1> QED
  BY <1>2, <1>3, <1>4, <1>5, <1>6, <1>7

-----------------------------------------------------------------------------
(* One lemma per step that moves an id *)

(* start gives an id to the handshake; its result may be left on the server. *)
LEMMA StartFlow ==
  ASSUME TypeInv, LifeInv, FlowInv, NEW t \in Types, NEW o \in Outcomes, StartConnects(t, o),
         UNCHANGED faults
  PROVE  FlowInv'
<1> USE DEF FlowInv, setupVars, userVars, linkVars, serverVars
<1>t. ClientTypes /\ IdTypes /\ ServerTypes
  BY DEF TypeInv
<1>n. conns \in Nat /\ ids \in Nat /\ MaxConns \in Nat
  BY <1>t, ClientAssumption DEF ClientTypes
<1>1. PICK c \in Conns : c = conns + 1 /\ c \notin 0..conns
  BY <1>n DEF StartConnects, Conns
<1>2. PICK x : x = ids + 1 /\ x \notin 0..ids /\ x \in Nat
  BY <1>n
<1>3. /\ UNCHANGED <<requests, in_q, running, results, waiting, own, expired, answer, ppc, joinable>>
      /\ upc \notin {"ack", "get", "gone"} /\ upc' \notin {"ack", "get", "gone"}
      /\ open \subseteq open'
      /\ clients' = clients \/ (clients[t] = 0 /\ clients' = [clients EXCEPT ![t] = c])
      /\ queued' = queued \/ (queued' = [queued EXCEPT ![c] = {x}] /\ left' = left \cup {x})
      /\ left \subseteq left'
  BY <1>1, <1>2 DEF StartConnects, Types, Outcomes
<1>4. UNCHANGED <<Asked, Acked, Returned, Ran>>
  BY <1>3 DEF Asked, Acked, Returned, Ran
<1>5. \A s \in Types : clients[s] \in 0..conns /\ (clients[s] # 0 => clients'[s] = clients[s])
  BY <1>3, <1>t DEF ClientTypes
<1>6. Sides'
  BY <1>1, <1>3, <1>5, <1>t DEF Sides, ClientTypes, Types
<1>7. Inbox' /\ Outbox'
  <2>1. \A d \in Conns : d # 0 /\ \A s \in Types : d = clients[s] => d = clients'[s]
    BY <1>5 DEF Conns
  <2> QED
    BY <1>3, <2>1 DEF Inbox, Outbox, Types
<1>8. AckFlow'
  BY <1>3, <1>4 DEF AckFlow
<1>9. queued' = queued \/ (/\ x \in left'
                           /\ \A d \in Conns : queued'[d] = IF d = c THEN {x} ELSE queued[d])
  BY <1>3, <1>t DEF ServerTypes
<1>10. Queued' \subseteq Queued \cup ({x} \cap left')
  BY <1>9 DEF Queued
<1>11. x \notin Asked \cup Acked \cup Returned \cup Ran \cup Queued \cup results
  <2>1. \A y \in 1..ids : y # x
    BY <1>2, <1>n
  <2> QED
    BY <2>1, <1>t, FlowRange DEF IdTypes
<1>12. \A d \in Conns : x \notin queued[d]
  BY <1>11 DEF Queued
<1>13. ResultFlow'
  <2>1. \A d, e \in Conns : d # e => queued'[d] \cap queued'[e] = {}
    BY <1>9, <1>12 DEF ResultFlow
  <2> QED
    BY <1>3, <1>4, <1>10, <1>11, <2>1 DEF ResultFlow
<1>14. Accounted'
  BY <1>3, <1>4, <1>10 DEF Accounted
<1>15. StopsOver'
  BY <1>3 DEF StopsOver, Over
<1>16. ClosedQuiet'
  BY <1>3 DEF ClosedQuiet
<1>17. OwnAck'
  BY <1>3, <1>4 DEF OwnAck, Over
<1> QED
  BY <1>6, <1>7, <1>8, <1>13, <1>14, <1>15, <1>16, <1>17

(* send_message asks for a new id. *)
LEMMA SendFlow ==
  ASSUME TypeInv, FlowInv, SendRequest, UNCHANGED faults
  PROVE  FlowInv'
<1> USE DEF FlowInv, setupVars, userVars, linkVars, serverVars
<1>t. ClientTypes /\ IdTypes /\ ServerTypes /\ LinkTypes
  BY DEF TypeInv
<1>n. conns \in Nat /\ ids \in Nat /\ MaxConns \in Nat
  BY <1>t, ClientAssumption DEF ClientTypes
<1>1. PICK c \in Conns : c = clients["COMMAND"] /\ c \in open
  <2>1. \A d \in 1..conns : d \in 1..MaxConns
    BY <1>n, <1>t DEF ClientTypes
  <2> QED
    BY <1>t, <2>1 DEF SendRequest, ClientTypes, Conns
<1>2. PICK x \in Nat : x = ids + 1 /\ x \notin 0..ids /\ x \in 1..x
  BY <1>n
<1>3. /\ UNCHANGED <<in_q, running, queued, results, waiting, expired, left, answer, ppc, joinable, clients, open>>
      /\ upc = "idle" /\ upc' = "ack" /\ own' = x
      /\ requests' = [requests EXCEPT ![c] = Append(@, [kind |-> "run", arg |-> x])]
  BY <1>1, <1>2 DEF SendRequest
<1>4. x \notin Asked \cup Acked \cup Returned \cup Ran \cup Queued \cup results /\ waiting = 0
  <2>1. \A y \in 1..ids : y # x
    BY <1>2, <1>n
  <2> QED
    BY <2>1, <1>t, <1>3, FlowRange DEF IdTypes
<1>5. Outbox' /\ Asked' = Asked \cup {x}
  <2>1. [kind |-> "run", arg |-> x] \in Requests(x)
    BY <1>2 DEF Requests
  <2>2. x >= ids
    BY <1>2, <1>n
  <2>3. PICK r \in Requests(x) : r = [kind |-> "run", arg |-> x]
    BY <2>1
  <2>4. r.kind = "run" /\ r.arg = x /\ x \notin Asked
    BY <1>4, <2>3
  <2>5. requests' = [requests EXCEPT ![c] = Append(@, r)] /\ clients' = clients
    BY <1>3, <2>3
  <2> QED
    BY <1>1, <1>n, <1>t, <2>2, <2>4, <2>5, OutPuts
<1>6. UNCHANGED <<Acked, Returned, Ran, Queued>>
  BY <1>3 DEF Acked, Returned, Ran, Queued
<1>7. Sides' /\ Inbox'
  BY <1>3 DEF Sides, Inbox
<1>8. AckFlow'
  <2>1. x # 0
    BY <1>2
  <2> QED
    BY <1>3, <1>4, <1>5, <1>6, <2>1 DEF AckFlow
<1>9. ResultFlow'
  BY <1>3, <1>4, <1>5, <1>6 DEF ResultFlow
<1>10. Accounted'
  BY <1>3, <1>6 DEF Accounted
<1>11. StopsOver'
  BY <1>3 DEF StopsOver, Over
<1>12. ClosedQuiet'
  <2>1. \A d \in Conns : d # c => requests'[d] = requests[d]
    BY <1>3, <1>t DEF LinkTypes
  <2> QED
    BY <1>1, <1>3, <2>1 DEF ClosedQuiet
<1>13. OwnAck'
  BY <1>3, <1>4, <1>5, <1>6 DEF OwnAck, Over
<1> QED
  BY <1>5, <1>7, <1>8, <1>9, <1>10, <1>11, <1>12, <1>13

(* send_message reads an ack and send_command waits for the id in it. *)
LEMMA AckFlows ==
  ASSUME TypeInv, FlowInv, ReadAck, UNCHANGED faults
  PROVE  FlowInv'
<1> USE DEF FlowInv, setupVars, userVars, linkVars, serverVars
<1>t. ClientTypes /\ IdTypes /\ LinkTypes
  BY DEF TypeInv
<1>n. conns \in Nat /\ ids \in Nat /\ MaxConns \in Nat
  BY <1>t, ClientAssumption DEF ClientTypes
<1>1. PICK c \in Conns : c = clients["COMMAND"]
  BY <1>n, <1>t DEF ReadAck, ClientTypes, Conns, Types
<1>2. PICK x : x = Head(in_q[c]).arg
  OBVIOUS
<1>3. /\ UNCHANGED <<requests, running, queued, results, expired, left, answer, ppc, joinable, clients, open, own>>
      /\ upc = "ack" /\ upc' = "get" /\ waiting' = x
      /\ in_q[c] # <<>> /\ Head(in_q[c]).kind = "ack" /\ in_q' = [in_q EXCEPT ![c] = Tail(@)]
  BY <1>1, <1>2 DEF ReadAck, Awaited
<1>4. /\ Inbox' /\ Acked = Acked' \cup {x} /\ x \notin Acked' /\ Returned' = Returned
      /\ \A d \in Conns : Args(in_q'[d], "stop") \subseteq Args(in_q[d], "stop")
  BY <1>2, <1>3, <1>t, InTakes
<1>5. UNCHANGED <<Asked, Ran, Queued>> /\ waiting = 0
  BY <1>3, <1>t DEF Asked, Ran, Queued, IdTypes
<1>z. 0 \notin results
  BY <1>t DEF IdTypes
<1>6. Sides' /\ Outbox'
  BY <1>3 DEF Sides, Outbox
<1>7. AckFlow'
  BY <1>3, <1>4, <1>5 DEF AckFlow
<1>8. ResultFlow'
  BY <1>3, <1>4, <1>5 DEF ResultFlow
<1>9. Accounted'
  <2>1. 0 \notin Ran \cup Queued \cup Returned \cup results
    BY <1>z, FlowRange
  <2> QED
    BY <1>3, <1>4, <1>5, <2>1 DEF Accounted
<1>10. StopsOver' /\ ClosedQuiet'
  BY <1>3, <1>4 DEF StopsOver, Over, ClosedQuiet
<1>11. OwnAck'
  BY <1>3, <1>4, <1>5, <1>7 DEF OwnAck, Over, AckFlow
<1> QED
  BY <1>4, <1>6, <1>7, <1>8, <1>9, <1>10, <1>11

(* send_message fails: without timeouts its connection is closed, or the     *)
(* client was shut down.                                                     *)
LEMMA FailFlow ==
  ASSUME TypeInv, FlowInv, ReadAckFails, UNCHANGED faults
  PROVE  FlowInv'
<1> USE DEF FlowInv, setupVars, userVars, linkVars, serverVars
<1>t. ClientTypes /\ IdTypes /\ LinkTypes
  BY DEF TypeInv
<1>n. conns \in Nat /\ ids \in Nat /\ MaxConns \in Nat
  BY <1>t, ClientAssumption DEF ClientTypes
<1>1. PICK c \in Conns : c = clients["COMMAND"]
  BY <1>n, <1>t DEF ReadAckFails, ClientTypes, Conns, Types
<1>3. /\ UNCHANGED <<requests, running, queued, results, expired, left, answer, ppc, joinable, clients, open, waiting>>
      /\ upc = "ack" /\ upc' = "idle" /\ own' = 0
      /\ \/ ("timeouts" \in faults \/ c \notin open) /\ in_q[c] = <<>> /\ in_q' = in_q
         \/ in_q[c] # <<>> /\ Head(in_q[c]).kind = "stop" /\ in_q' = [in_q EXCEPT ![c] = Tail(@)]
  BY <1>1 DEF ReadAckFails
<1>4. /\ Inbox' /\ Acked' = Acked /\ Returned' = Returned
      /\ \A d \in Conns : Args(in_q'[d], "stop") \subseteq Args(in_q[d], "stop")
  <2>1. CASE in_q' = in_q
    BY <1>3, <2>1 DEF Inbox, Acked, Returned
  <2>2. CASE in_q[c] # <<>> /\ Head(in_q[c]).kind = "stop" /\ in_q' = [in_q EXCEPT ![c] = Tail(@)]
    BY <1>3, <1>t, <2>2, InTakes
  <2> QED
    BY <1>3, <2>1, <2>2
<1>5. UNCHANGED <<Asked, Ran, Queued>> /\ waiting = 0
  BY <1>3, <1>t DEF Asked, Ran, Queued, IdTypes
<1>6. Sides' /\ Outbox'
  BY <1>3 DEF Sides, Outbox
<1>7. AckFlow' /\ Accounted'
  BY <1>3, <1>4, <1>5 DEF AckFlow, Accounted
<1>8. ResultFlow'
  BY <1>3, <1>4, <1>5 DEF ResultFlow
<1>10. StopsOver' /\ ClosedQuiet'
  BY <1>3, <1>4 DEF StopsOver, Over, ClosedQuiet
<1>11. ASSUME "timeouts" \notin faults, ~Over PROVE Asked \cup Acked = {}
  <2>1. ~(in_q[c] # <<>> /\ Head(in_q[c]).kind = "stop")
    <3>1. ASSUME in_q[c] # <<>>, Head(in_q[c]).kind = "stop" PROVE Args(in_q[c], "stop") # {}
      <4>1. in_q[c] \in Seq(Messages(ids))
        BY <1>t DEF LinkTypes
      <4>2. Args(in_q[c], "stop") = Args(Tail(in_q[c]), "stop") \cup
              (IF Head(in_q[c]).kind = "stop" THEN {Head(in_q[c]).arg} ELSE {})
        BY <3>1, <4>1, ArgsTail
      <4> QED
        BY <3>1, <4>2
    <3> QED
      BY <1>11, <3>1 DEF StopsOver
  <2>2. c \notin open /\ in_q[c] = <<>>
    BY <1>3, <1>11, <2>1
  <2>3. requests[c] = <<>>
    BY <1>3, <2>2 DEF ClosedQuiet
  <2>4. Args(requests[c], "run") = {} /\ Args(in_q[c], "ack") = {}
    BY <2>2, <2>3 DEF Args, Kind
  <2>5. \A d \in Conns : Args(requests[d], "run") = {} /\ Args(in_q[d], "ack") = {}
    BY <1>1, <2>4 DEF Inbox, Outbox
  <2> QED
    BY <2>5 DEF Asked, Acked
<1>12. OwnAck'
  BY <1>3, <1>4, <1>5, <1>11 DEF OwnAck, Over
<1> QED
  BY <1>4, <1>6, <1>7, <1>8, <1>10, <1>12

(* get_result finds the result in the map, or gives up. *)
LEMMA GetFlow ==
  ASSUME TypeInv, FlowInv, GetResult \/ GetExpires, UNCHANGED faults
  PROVE  FlowInv'
<1> USE DEF FlowInv, setupVars, userVars, linkVars, serverVars
<1>t. IdTypes
  BY DEF TypeInv
<1>1. /\ UNCHANGED <<requests, in_q, running, queued, left, ppc, joinable, clients, open>>
      /\ upc = "get" /\ upc' = "idle" /\ own' = 0 /\ waiting' = 0
      /\ \/ /\ waiting \in results /\ results' = results \ {waiting} /\ answer' = <<own, waiting>>
            /\ expired' = expired
         \/ waiting \notin results /\ results' = results /\ answer' = answer /\ expired' = expired \cup {waiting}
  BY DEF GetResult, GetExpires, Erased
<1>2. UNCHANGED <<Asked, Acked, Returned, Ran, Queued>> /\ 0 \notin Asked \cup Acked \cup results
  BY <1>1, <1>t, FlowRange DEF Asked, Acked, Returned, Ran, Queued, IdTypes
<1>3. Sides' /\ Inbox' /\ Outbox'
  BY <1>1 DEF Sides, Inbox, Outbox
<1>4. AckFlow'
  BY <1>1, <1>2 DEF AckFlow
<1>5. ResultFlow'
  BY <1>1, <1>2 DEF ResultFlow
<1>6. Accounted'
  BY <1>1, <1>2 DEF Accounted, ResultFlow
<1>7. StopsOver' /\ ClosedQuiet'
  BY <1>1 DEF StopsOver, Over, ClosedQuiet
<1>8. OwnAck'
  <2>1. Over' <=> Over
    BY <1>1 DEF Over
  <2>2. ASSUME "timeouts" \notin faults PROVE answer'[1] = answer'[2]
    <3>1. CASE waiting \in results /\ answer' = <<own, waiting>>
      <4>1. waiting = own
        BY <1>1, <2>2, <3>1 DEF OwnAck
      <4> QED
        BY <3>1, <4>1
    <3>2. CASE answer' = answer
      BY <2>2, <3>2 DEF OwnAck
    <3> QED
      BY <1>1, <3>1, <3>2
  <2>3. results' \subseteq results
    BY <1>1
  <2> QED
    BY <1>1, <1>2, <2>1, <2>2, <2>3 DEF OwnAck
<1> QED
  BY <1>3, <1>4, <1>5, <1>6, <1>7, <1>8

(* Both connections get the empty message of disconnect, and no result       *)
(* arrives any more.                                                         *)
LEMMA JoinFlow ==
  ASSUME TypeInv, LifeInv, FlowInv, Joins, UNCHANGED faults
  PROVE  FlowInv'
<1> USE DEF FlowInv, setupVars, userVars, linkVars, serverVars
<1>t. IdTypes /\ LinkTypes
  BY DEF TypeInv
<1> DEFINE m == [kind |-> "stop", arg |-> 0]
<1>1. /\ UNCHANGED <<requests, running, queued, results, waiting, own, left, expired, answer, ppc, clients>>
      /\ upc \in {"join", "join_destroy"} /\ upc' \in {"idle", "gone"} /\ ppc = "ended" /\ joinable' = FALSE
      /\ open' = open \/ upc' = "gone"
      /\ \A c \in Conns : in_q'[c] = in_q[c] \/ in_q'[c] = Append(in_q[c], m)
  BY DEF Joins, Joining, Conns
<1>2. Over'
  BY <1>1 DEF Over
<1>3. ~Over
  BY <1>1 DEF Over, LifeInv, ThreadLife, Joining
<1>4. ASSUME NEW c \in Conns
      PROVE  /\ Args(in_q'[c], "ack") = Args(in_q[c], "ack")
             /\ Args(in_q'[c], "results") = Args(in_q[c], "results")
             /\ Once(in_q[c], "ack") => Once(in_q'[c], "ack")
             /\ ApartIn(in_q[c], "results") => ApartIn(in_q'[c], "results")
  <2>1. m \in Messages(ids) /\ m.kind = "stop" /\ in_q[c] \in Seq(Messages(ids))
    BY <1>t DEF Messages, LinkTypes
  <2> HIDE DEF m
  <2>2. CASE in_q'[c] = in_q[c]
    BY <2>2
  <2>3. CASE in_q'[c] = Append(in_q[c], m)
    <3>1. PICK s \in Seq(Messages(ids)), w \in Messages(ids) : s = in_q[c] /\ w = m
      BY <2>1
    <3>2. /\ Args(Append(s, w), "ack") = Args(s, "ack") \cup (IF w.kind = "ack" THEN {w.arg} ELSE {})
          /\ Once(s, "ack") /\ (w.kind = "ack" => w.arg \notin Args(s, "ack"))
               => Once(Append(s, w), "ack")
      BY ArgsAppend
    <3>3. /\ Args(Append(s, w), "results")
               = Args(s, "results") \cup (IF w.kind = "results" THEN {w.arg} ELSE {})
          /\ ApartIn(s, "results") /\ (w.kind = "results" => w.arg \cap UNION Args(s, "results") = {})
               => ApartIn(Append(s, w), "results")
      BY ArgsAppend
    <3> QED
      BY <2>1, <2>3, <3>1, <3>2, <3>3
  <2> QED
    BY <1>1, <2>2, <2>3
<1>5. UNCHANGED <<Asked, Acked, Returned, Ran, Queued>>
  <2>1. Acked' = Acked
    BY <1>4 DEF Acked
  <2>2. Returned' = Returned
    BY <1>4 DEF Returned
  <2> QED
    BY <1>1, <2>1, <2>2 DEF Asked, Ran, Queued
<1>6. Sides' /\ Inbox' /\ Outbox'
  BY <1>1, <1>4 DEF Sides, Inbox, Outbox
<1>7. AckFlow' /\ Accounted'
  BY <1>1, <1>5 DEF AckFlow, Accounted
<1>8. ResultFlow'
  BY <1>1, <1>5 DEF ResultFlow
<1>9. StopsOver' /\ ClosedQuiet'
  BY <1>1, <1>2 DEF StopsOver, ClosedQuiet
<1>10. OwnAck'
  <2>1. waiting = 0 /\ 0 \notin results
    BY <1>1, <1>t DEF IdTypes
  <2>2. "timeouts" \notin faults => Asked \cup Acked = {}
    BY <1>1, <1>3 DEF OwnAck
  <2> QED
    BY <1>1, <1>2, <1>5, <2>1, <2>2 DEF OwnAck
<1> QED
  BY <1>6, <1>7, <1>8, <1>9, <1>10

(* The poll thread sends a poll. *)
LEMMA PollFlow ==
  ASSUME TypeInv, FlowInv, PollSends, UNCHANGED faults
  PROVE  FlowInv'
<1> USE DEF FlowInv, setupVars, userVars, linkVars, serverVars
<1>t. ClientTypes /\ LinkTypes
  BY DEF TypeInv
<1>n. conns \in Nat /\ ids \in Nat /\ MaxConns \in Nat
  BY <1>t, ClientAssumption DEF ClientTypes
<1>1. PICK c \in Conns : c = clients["POLL"] /\ c \in open
  BY <1>n, <1>t DEF PollSends, ClientTypes, Conns, Types
<1>2. PICK r \in Requests(ids) : r = [kind |-> "poll", arg |-> PolledQueue]
  <2>1. PolledQueue \in 0..MaxConns
    BY <1>t, <1>n DEF ClientTypes, PolledQueue, Types
  <2> QED
    BY <2>1 DEF Requests
<1>3. /\ UNCHANGED <<in_q, running, queued, results, waiting, own, left, expired, answer, clients, open, upc, joinable>>
      /\ requests' = [requests EXCEPT ![c] = Append(@, r)]
      /\ ppc = "test" /\ ppc' = "read"
  BY <1>1, <1>2 DEF PollSends
<1>4. Outbox' /\ Asked' = Asked
  <2>1. r.kind = "poll"
    BY <1>2
  <2>2. ids >= ids
    BY <1>n
  <2>3. /\ Outbox'
        /\ Asked' = Asked \cup (IF r.kind = "run" THEN {r.arg} ELSE {})
    BY <1>1, <1>3, <1>n, <1>t, <2>1, <2>2, OutPuts
  <2> QED
    BY <2>1, <2>3
<1>5. UNCHANGED <<Acked, Returned, Ran, Queued>>
  BY <1>3 DEF Acked, Returned, Ran, Queued
<1>6. Sides' /\ Inbox' /\ AckFlow' /\ Accounted'
  BY <1>3, <1>4, <1>5 DEF Sides, Inbox, AckFlow, Accounted
<1>7. ResultFlow'
  BY <1>3, <1>4, <1>5 DEF ResultFlow
<1>8. ~Over /\ ~Over'
  BY <1>3 DEF Over
<1>9. StopsOver'
  BY <1>3, <1>8 DEF StopsOver
<1>10. ClosedQuiet'
  <2>1. \A d \in Conns : d # c => requests'[d] = requests[d]
    BY <1>3, <1>t DEF LinkTypes
  <2> QED
    BY <1>1, <1>3, <2>1 DEF ClosedQuiet
<1>11. OwnAck'
  BY <1>3, <1>4, <1>5, <1>8 DEF OwnAck
<1> QED
  BY <1>4, <1>6, <1>7, <1>9, <1>10, <1>11

(* The poll thread puts results into the map. *)
LEMMA MapFlow ==
  ASSUME TypeInv, FlowInv, PollReads, UNCHANGED faults
  PROVE  FlowInv'
<1> USE DEF FlowInv, setupVars, userVars, linkVars, serverVars
<1>t. ClientTypes /\ LinkTypes
  BY DEF TypeInv
<1>n. conns \in Nat /\ ids \in Nat /\ MaxConns \in Nat
  BY <1>t, ClientAssumption DEF ClientTypes
<1>1. PICK c \in Conns : c = clients["POLL"]
  BY <1>n, <1>t DEF PollReads, ClientTypes, Conns, Types
<1>2. PICK h : h = Head(in_q[c])
  OBVIOUS
<1>3. /\ UNCHANGED <<requests, running, queued, waiting, own, left, expired, answer, clients, open, upc, joinable>>
      /\ in_q[c] # <<>> /\ in_q' = [in_q EXCEPT ![c] = Tail(@)]
      /\ results' = IF h.kind = "results" THEN results \cup h.arg ELSE results
      /\ ppc = "read" /\ ppc' = "test"
  BY <1>1, <1>2 DEF PollReads
<1>4. h.kind # "ack"
  <2>1. in_q[c] \in Seq(Messages(ids))
    BY <1>t DEF LinkTypes
  <2>2. Args(in_q[c], "ack") = Args(Tail(in_q[c]), "ack") \cup (IF h.kind = "ack" THEN {h.arg} ELSE {})
    BY <1>2, <1>3, <2>1, ArgsTail
  <2>3. c # clients["COMMAND"]
    BY <1>1, <1>n DEF Sides, Conns
  <2> QED
    BY <2>2, <2>3 DEF Inbox
<1>5. /\ Inbox' /\ Acked' = Acked
      /\ h.kind = "results" => Returned = Returned' \cup h.arg /\ h.arg \cap Returned' = {}
      /\ h.kind # "results" => Returned' = Returned
      /\ \A d \in Conns : Args(in_q'[d], "stop") \subseteq Args(in_q[d], "stop")
  BY <1>2, <1>3, <1>4, <1>t, InTakes
<1>6. UNCHANGED <<Asked, Ran, Queued>>
  BY <1>3 DEF Asked, Ran, Queued
<1>7. Sides' /\ Outbox' /\ AckFlow'
  BY <1>3, <1>5, <1>6 DEF Sides, Outbox, AckFlow
<1>8. ResultFlow' /\ Accounted'
  <2>1. CASE h.kind = "results"
    <3>1. Returned' \cup results' = Returned \cup results /\ Returned' \cap results' = {}
      BY <1>3, <1>5, <2>1 DEF ResultFlow
    <3>2. /\ Asked' \cap (Ran' \cup Queued' \cup Returned' \cup results') = {}
          /\ Ran' \cap (Queued' \cup Returned' \cup results') = {}
          /\ Queued' \cap (Returned' \cup results') = {}
      BY <1>6, <3>1 DEF ResultFlow
    <3>3. ResultFlow'
      BY <1>3, <3>1, <3>2 DEF ResultFlow
    <3>4. Accounted'
      BY <1>3, <1>5, <1>6, <3>1 DEF Accounted
    <3> QED
      BY <3>3, <3>4
  <2>2. CASE h.kind # "results"
    BY <1>3, <1>5, <1>6, <2>2 DEF ResultFlow, Accounted
  <2> QED
    BY <2>1, <2>2
<1>9. ~Over /\ ~Over'
  BY <1>3 DEF Over
<1>10. StopsOver' /\ ClosedQuiet'
  BY <1>3, <1>5, <1>9 DEF StopsOver, ClosedQuiet
<1>11. OwnAck'
  BY <1>3, <1>5, <1>6, <1>9 DEF OwnAck
<1> QED
  BY <1>5, <1>7, <1>8, <1>10, <1>11

(* The server acknowledges a command and runs it, or answers a poll. *)
LEMMA ReplyFlow ==
  ASSUME TypeInv, FlowInv, NEW c \in Conns, ServerReplies(c), UNCHANGED faults
  PROVE  FlowInv'
<1> USE DEF FlowInv, setupVars, userVars, linkVars, serverVars
<1>t. ClientTypes /\ LinkTypes /\ ServerTypes
  BY DEF TypeInv
<1>1. PICK r \in Requests(ids) : r = Head(requests[c])
  <2>1. requests[c] \in Seq(Requests(ids)) /\ requests[c] # <<>>
    BY <1>t DEF LinkTypes, ServerReplies
  <2> QED
    BY <2>1
<1>2. /\ UNCHANGED <<results, waiting, own, left, expired, answer, clients, open, upc, ppc, joinable>>
      /\ requests[c] # <<>> /\ requests' = [requests EXCEPT ![c] = Tail(@)] /\ c \in open
  BY DEF ServerReplies
<1>3. /\ Outbox'
      /\ r.kind = "run" => Asked = Asked' \cup {r.arg} /\ r.arg \notin Asked' /\ c = clients["COMMAND"]
      /\ r.kind # "run" => Asked' = Asked
      /\ r.kind = "poll" => c = clients["POLL"]
  BY <1>1, <1>2, <1>t, OutTakes
<1>4. Sides'
  BY <1>2 DEF Sides
<1>5. ClosedQuiet'
  <2>1. \A d \in Conns : d # c => requests'[d] = requests[d]
    BY <1>2, <1>t DEF LinkTypes
  <2> QED
    BY <1>2, <2>1 DEF ClosedQuiet
<1>6. Over' <=> Over
  BY <1>2 DEF Over
<1>7. CASE r.kind = "run"
  <2>1. PICK m \in Messages(ids) : m = [kind |-> "ack", arg |-> r.arg]
    <3>1. r.arg \in 1..ids
      BY <1>7 DEF Requests
    <3> QED
      BY <3>1 DEF Messages
  <2>2. m.kind = "ack" /\ m.arg = r.arg
    BY <2>1
  <2>3. /\ in_q' = [in_q EXCEPT ![c] = Append(@, m)]
        /\ running' = running \cup {<<r.arg, c>>} /\ queued' = queued
    BY <1>1, <1>7, <2>1 DEF ServerReplies
  <2>4. r.arg \in Asked
    BY <1>3, <1>7
  <2>5. r.arg \notin Acked
    BY <2>4 DEF AckFlow
  <2>6. /\ Inbox' /\ Acked' = Acked \cup (IF m.kind = "ack" THEN {m.arg} ELSE {})
        /\ Returned' = Returned \cup (IF m.kind = "results" THEN m.arg ELSE {})
        /\ \A d \in Conns : Args(in_q'[d], "stop") = Args(in_q[d], "stop")
    BY <1>2, <1>3, <1>7, <1>t, <2>2, <2>3, <2>5, InPuts
  <2>7. Acked' = Acked \cup {r.arg} /\ Returned' = Returned /\ Queued' = Queued
    BY <2>2, <2>3, <2>6 DEF Queued
  <2>8. Ran' = Ran \cup {r.arg}
    <3>0. <<r.arg, c>>[1] = r.arg
      OBVIOUS
    <3>1. PICK u : u = <<r.arg, c>> /\ u[1] = r.arg
      BY <3>0, Zenon
    <3>2. running' = running \cup {u}
      BY <2>3, <3>1
    <3> QED
      BY <3>1, <3>2 DEF Ran
  <2>9. r.arg \notin Ran \cup Queued \cup Returned \cup results
    BY <2>4 DEF ResultFlow
  <2>10. \A u, v \in running' : u[1] = v[1] => u = v
    <3>1. \A u \in running : u[1] # r.arg
      BY <2>9 DEF Ran
    <3>2. \A u, v \in running : u[1] = v[1] => u = v
      BY DEF ResultFlow
    <3> QED
      BY <2>3, <3>1, <3>2
  <2>11. AckFlow'
    BY <1>2, <1>3, <1>7, <2>4, <2>7 DEF AckFlow
  <2>12. ResultFlow'
    <3>1. \A d, e \in Conns : d # e => queued'[d] \cap queued'[e] = {}
      BY <2>3 DEF ResultFlow
    <3> QED
      BY <1>2, <1>3, <1>7, <2>7, <2>8, <2>9, <2>10, <3>1 DEF ResultFlow
  <2>13. Accounted'
    BY <1>2, <2>7, <2>8 DEF Accounted
  <2>14. StopsOver'
    BY <1>6, <2>6 DEF StopsOver
  <2>15. OwnAck'
    <3>1. Asked' \cup Acked' = Asked \cup Acked
      BY <1>3, <1>7, <2>7
    <3> QED
      BY <1>2, <1>6, <3>1 DEF OwnAck
  <2> QED
    BY <1>3, <1>4, <1>5, <2>6, <2>11, <2>12, <2>13, <2>14, <2>15
<1>8. CASE r.kind = "poll"
  <2>1. PICK m \in Messages(ids) :
          /\ in_q' = [in_q EXCEPT ![c] = Append(@, m)] /\ running' = running
          /\ \/ /\ m.kind = "results" /\ r.arg \in Conns /\ m.arg = queued[r.arg]
                /\ queued' = [queued EXCEPT ![r.arg] = {}]
             \/ m.kind = "error" /\ queued' = queued
    <3>1. CASE r.arg \in open
      <4>1. r.arg \in Conns
        <5>1. \A d \in 1..conns : d \in 1..MaxConns
          BY <1>t, ClientAssumption DEF ClientTypes
        <5> QED
          BY <1>t, <3>1, <5>1 DEF ClientTypes, Conns
      <4>2. PICK m \in Messages(ids) : m = [kind |-> "results", arg |-> queued[r.arg]]
        <5>1. queued[r.arg] \subseteq 1..ids
          BY <1>t, <4>1 DEF ServerTypes
        <5> QED
          BY <5>1 DEF Messages
      <4>3. /\ in_q' = [in_q EXCEPT ![c] = Append(@, m)] /\ running' = running
            /\ queued' = [queued EXCEPT ![r.arg] = {}]
        BY <1>1, <1>8, <3>1, <4>2 DEF ServerReplies, Flushed
      <4>4. m.kind = "results" /\ m.arg = queued[r.arg]
        BY <4>2
      <4> QED
        BY <4>1, <4>3, <4>4
    <3>2. CASE r.arg \notin open
      <4>1. PICK m \in Messages(ids) : m = [kind |-> "error", arg |-> 0]
        BY DEF Messages
      <4>2. /\ in_q' = [in_q EXCEPT ![c] = Append(@, m)] /\ running' = running /\ queued' = queued
        BY <1>1, <1>8, <3>2, <4>1 DEF ServerReplies
      <4>3. m.kind = "error"
        BY <4>1
      <4> QED
        BY <4>2, <4>3
    <3> QED
      BY <3>1, <3>2
  <2>2. Asked' = Asked /\ Ran' = Ran /\ c = clients["POLL"]
    BY <1>3, <1>8, <2>1 DEF Ran
  <2>3. ASSUME m.kind = "results"
        PROVE  /\ m.arg \subseteq Queued /\ m.arg \cap Returned = {} /\ Queued = Queued' \cup m.arg
               /\ m.arg \cap Queued' = {}
               /\ \A d \in Conns : queued'[d] \subseteq queued[d]
    <3>1. \A d \in Conns : queued'[d] = IF d = r.arg THEN {} ELSE queued[d]
      BY <1>t, <2>1, <2>3 DEF ServerTypes
    <3>2. m.arg \subseteq Queued
      BY <2>1, <2>3 DEF Queued
    <3>3. m.arg \cap Returned = {}
      BY <3>2 DEF ResultFlow
    <3>4. Queued = Queued' \cup m.arg
      BY <2>1, <2>3, <3>1 DEF Queued
    <3>5. \A d \in Conns : d # r.arg => m.arg \cap queued[d] = {}
      BY <2>1, <2>3 DEF ResultFlow
    <3>6. m.arg \cap Queued' = {}
      BY <3>1, <3>5 DEF Queued
    <3> QED
      BY <3>1, <3>2, <3>3, <3>4, <3>6
  <2>4. /\ Inbox' /\ Acked' = Acked \cup (IF m.kind = "ack" THEN {m.arg} ELSE {})
        /\ Returned' = Returned \cup (IF m.kind = "results" THEN m.arg ELSE {})
        /\ \A d \in Conns : Args(in_q'[d], "stop") = Args(in_q[d], "stop")
    BY <1>2, <1>t, <2>1, <2>2, <2>3, InPuts
  <2>5. Acked' = Acked
    BY <2>1, <2>4
  <2>6. /\ Queued' \cup Returned' = Queued \cup Returned /\ Queued' \cap Returned' = {}
        /\ Queued' \subseteq Queued
        /\ \A d, e \in Conns : d # e => queued'[d] \cap queued'[e] = {}
    <3>1. CASE m.kind = "results"
      BY <2>3, <2>4, <3>1 DEF ResultFlow
    <3>2. CASE m.kind = "error"
      <4>1. queued' = queued /\ Queued' = Queued /\ Returned' = Returned
        BY <2>1, <2>4, <3>2 DEF Queued
      <4> QED
        BY <4>1 DEF ResultFlow
    <3> QED
      BY <2>1, <3>1, <3>2
  <2>7. Returned' \cap results = {}
    BY <2>6 DEF ResultFlow
  <2>8. AckFlow'
    BY <1>2, <2>2, <2>5 DEF AckFlow
  <2>9. ResultFlow'
    <3>1. /\ Asked \cap (Ran \cup Queued' \cup Returned' \cup results) = {}
          /\ Ran \cap (Queued' \cup Returned' \cup results) = {}
          /\ Queued' \cap (Returned' \cup results) = {}
      BY <2>6 DEF ResultFlow
    <3> QED
      BY <1>2, <2>1, <2>2, <2>6, <2>7, <3>1 DEF ResultFlow
  <2>10. Accounted'
    BY <1>2, <2>2, <2>5, <2>6 DEF Accounted
  <2>11. StopsOver'
    BY <1>6, <2>4 DEF StopsOver
  <2>12. OwnAck'
    BY <1>2, <1>6, <2>2, <2>5 DEF OwnAck
  <2> QED
    BY <1>3, <1>4, <1>5, <2>4, <2>8, <2>9, <2>10, <2>11, <2>12
<1> QED
  BY <1>1, <1>7, <1>8 DEF Requests

(* The server's worker finishes a command; the result of a closed            *)
(* connection is dropped.                                                    *)
LEMMA FinishFlow ==
  ASSUME TypeInv, FlowInv, NEW id, NEW q \in Conns, ServerFinishes(id, q), UNCHANGED faults
  PROVE  FlowInv'
<1> USE DEF FlowInv, setupVars, userVars, linkVars, serverVars
<1>t. ServerTypes
  BY DEF TypeInv
<1>1. /\ UNCHANGED <<requests, in_q, results, waiting, own, left, expired, answer, clients, open, upc, ppc, joinable>>
      /\ <<id, q>> \in running /\ running' = running \ {<<id, q>>}
      /\ queued' = IF q \in open THEN [queued EXCEPT ![q] = @ \cup {id}] ELSE queued
  BY DEF ServerFinishes
<1>2. UNCHANGED <<Asked, Acked, Returned>>
  BY <1>1 DEF Asked, Acked, Returned
<1>3. id \in Ran
  BY <1>1 DEF Ran
<1>4. id \notin Ran' /\ Ran' \subseteq Ran
  <2>1. \A u \in running : u[1] = id => u = <<id, q>>
    BY <1>1 DEF ResultFlow
  <2> QED
    BY <1>1, <2>1 DEF Ran
<1>5. \A d \in Conns : queued'[d] = queued[d] \/ (d = q /\ queued'[d] = queued[d] \cup {id})
  BY <1>1, <1>t DEF ServerTypes
<1>6. Queued' \subseteq Queued \cup {id}
  BY <1>5 DEF Queued
<1>7. id \notin Asked \cup Queued \cup Returned \cup results
  BY <1>3 DEF ResultFlow
<1>8. \A d, e \in Conns : d # e => queued'[d] \cap queued'[e] = {}
  <2>1. \A d \in Conns : id \notin queued[d]
    BY <1>7 DEF Queued
  <2> QED
    BY <1>5, <2>1 DEF ResultFlow
<1>9. \A u, v \in running' : u[1] = v[1] => u = v
  BY <1>1 DEF ResultFlow
<1>10. ResultFlow'
  BY <1>1, <1>2, <1>4, <1>6, <1>7, <1>8, <1>9 DEF ResultFlow
<1>11. Accounted'
  BY <1>1, <1>2, <1>3, <1>4, <1>6 DEF Accounted
<1>12. Sides' /\ Inbox' /\ Outbox' /\ AckFlow'
  BY <1>1, <1>2 DEF Sides, Inbox, Outbox, AckFlow
<1>13. StopsOver' /\ ClosedQuiet'
  BY <1>1 DEF StopsOver, ClosedQuiet, Over
<1>14. OwnAck'
  BY <1>1, <1>2 DEF OwnAck, Over
<1> QED
  BY <1>10, <1>11, <1>12, <1>13, <1>14

(* A connection drops, with its requests and the results of its queue. *)
LEMMA DropFlow ==
  ASSUME TypeInv, FlowInv, NEW c \in Conns, ConnectionDrops(c), UNCHANGED faults
  PROVE  FlowInv'
<1> USE DEF FlowInv, setupVars, userVars, linkVars, serverVars
<1>t. ServerTypes /\ LinkTypes
  BY DEF TypeInv
<1>1. /\ UNCHANGED <<in_q, running, results, waiting, own, left, expired, answer, clients, upc, ppc, joinable>>
      /\ open' = open \ {c} /\ requests' = [requests EXCEPT ![c] = <<>>]
      /\ queued' = [queued EXCEPT ![c] = {}]
  BY DEF ConnectionDrops
<1>2. UNCHANGED <<Acked, Returned, Ran>>
  BY <1>1 DEF Acked, Returned, Ran
<1>3. /\ requests'[c] = <<>> /\ \A d \in Conns : d # c => requests'[d] = requests[d]
      /\ queued'[c] = {} /\ \A d \in Conns : d # c => queued'[d] = queued[d]
  BY <1>1, <1>t DEF ServerTypes, LinkTypes
<1>4. \A k : Args(<<>>, k) = {} /\ Once(<<>>, k)
  BY DEF Args, Once, Kind
<1>5. Outbox'
  <2>1. ASSUME NEW d \in Conns
        PROVE  /\ Args(requests'[d], "run") # {} => d = clients["COMMAND"]
               /\ Args(requests'[d], "poll") # {} => d = clients["POLL"]
               /\ Once(requests'[d], "run")
    <3>1. CASE d = c
      BY <1>3, <1>4, <3>1
    <3>2. CASE d # c
      BY <1>3, <3>2 DEF Outbox
    <3> QED
      BY <3>1, <3>2
  <2> QED
    BY <1>1, <2>1 DEF Outbox
<1>6. Asked' \subseteq Asked
  <2>1. \A d \in Conns : Args(requests'[d], "run") \subseteq Args(requests[d], "run")
    BY <1>3, <1>4
  <2> QED
    BY <2>1 DEF Asked
<1>7. Queued' \subseteq Queued /\ \A d, e \in Conns : d # e => queued'[d] \cap queued'[e] = {}
  BY <1>3 DEF Queued, ResultFlow
<1>8. ResultFlow'
  BY <1>1, <1>2, <1>6, <1>7 DEF ResultFlow
<1>9. Sides' /\ Inbox' /\ AckFlow' /\ Accounted'
  BY ZenonT(40), <1>1, <1>2, <1>6, <1>7 DEF Sides, Inbox, AckFlow, Accounted
<1>10. StopsOver' /\ ClosedQuiet'
  BY <1>1, <1>3 DEF StopsOver, ClosedQuiet, Over
<1>11. OwnAck'
  BY <1>1, <1>2, <1>6 DEF OwnAck, Over
<1> QED
  BY <1>5, <1>8, <1>9, <1>10, <1>11

-----------------------------------------------------------------------------
(* Every step keeps the flow of messages between client and service. *)
LEMMA FlowNext == TypeInv /\ LifeInv /\ FlowInv /\ [Next]_vars => FlowInv'
<1> SUFFICES ASSUME TypeInv, LifeInv, FlowInv, [Next]_vars PROVE FlowInv'
  OBVIOUS
<1> USE DEF setupVars, userVars, linkVars, serverVars
<1>i. ThreadLife
  BY DEF LifeInv
<1>1. ASSUME StartBegins \/ (\E t \in Types : StartRefused(t)), UNCHANGED faults
      PROVE  FlowInv'
  <2>1. /\ UNCHANGED <<clients, requests, in_q, running, queued, results, waiting, own, left,
                       expired, answer, open, ppc, joinable>>
        /\ upc \in {"idle", "COMMAND", "POLL"} /\ upc' \in {"idle", "COMMAND"}
    BY <1>1 DEF StartBegins, StartRefused, Types
  <2>2. Over' <=> Over
    BY <2>1 DEF Over
  <2> QED
    BY <1>1, <2>1, <2>2, FlowKept
<1>2. ASSUME StartThread, UNCHANGED faults PROVE FlowInv'
  <2>1. /\ UNCHANGED <<clients, requests, in_q, running, queued, results, waiting, own, left,
                       expired, answer, open>>
        /\ upc = "thread" /\ upc' \in {"idle", "gone"} /\ ppc' \in {"wait", "dead"}
    BY <1>2 DEF StartThread, Terminates
  <2>2. ~Over /\ ~Over'
    BY <1>i, <2>1 DEF Over, ThreadLife, Starting
  <2> QED
    BY <1>2, <2>1, <2>2, FlowKept
<1>3. ASSUME ShutdownBegins \/ DestructorShutsDown, UNCHANGED faults PROVE FlowInv'
  <2>1. /\ UNCHANGED <<clients, requests, in_q, running, queued, results, waiting, own, left,
                       expired, answer, open, ppc, joinable>>
        /\ upc = "idle" /\ upc' \in {"idle", "join", "join_destroy"}
    BY <1>3 DEF ShutdownBegins, DestructorShutsDown, Stops, MayChange
  <2>2. Over' <=> Over
    BY <2>1 DEF Over
  <2> QED
    BY <1>3, <2>1, <2>2, FlowKept
<1>4. ASSUME DestructorOnly, UNCHANGED faults PROVE FlowInv'
  <2>1. /\ UNCHANGED <<clients, requests, in_q, running, queued, results, waiting, own, left,
                       expired, answer, joinable>>
        /\ upc = "idle" /\ upc' = "gone" /\ ppc' = IF joinable THEN "dead" ELSE ppc
    BY <1>4 DEF DestructorOnly, Terminates, MayChange
  <2>2. Over' <=> Over
    BY <2>1 DEF Over
  <2> QED
    BY <1>4, <2>1, <2>2, FlowKept
<1>5. ASSUME PollWaits \/ PollStores \/ PollActivates \/ PollEnds \/ PollReadFails, UNCHANGED faults
      PROVE  FlowInv'
  <2>1. /\ UNCHANGED <<clients, requests, in_q, running, queued, results, waiting, own, left,
                       expired, answer, open, joinable, upc>>
        /\ ppc \in {"wait", "store", "activate", "test", "read"}
    BY <1>5 DEF PollWaits, PollStores, PollActivates, PollEnds, PollReadFails
  <2>2. ~Over /\ ~Over'
    BY <1>i, <2>1 DEF Over, ThreadLife
  <2> QED
    BY <1>5, <2>1, <2>2, FlowKept
<1>6. ASSUME Rests \/ UNCHANGED vars, UNCHANGED faults PROVE FlowInv'
  <2>1. UNCHANGED <<clients, requests, in_q, running, queued, results, waiting, own, left,
                    expired, answer, open, joinable, upc, ppc>>
    BY <1>6 DEF Rests, moving, vars
  <2>2. Over' <=> Over
    BY <2>1 DEF Over
  <2> QED
    BY <1>6, <2>1, <2>2, FlowKept
<1>7. CASE Start /\ UNCHANGED faults
  BY <1>1, <1>2, <1>7, StartFlow DEF Start
<1>8. CASE SendCommand /\ UNCHANGED faults
  BY <1>8, SendFlow, AckFlows, FailFlow, GetFlow DEF SendCommand
<1>9. CASE Ends /\ UNCHANGED faults
  BY <1>3, <1>4, <1>9, JoinFlow DEF Ends
<1>10. CASE PollThread /\ UNCHANGED faults
  BY <1>5, <1>10, PollFlow, MapFlow DEF PollThread
<1>11. CASE Server /\ UNCHANGED faults
  BY <1>11, ReplyFlow, FinishFlow DEF Server, Conns
<1>12. ASSUME NEW c \in 1..MaxConns, ConnectionDrops(c), UNCHANGED faults PROVE FlowInv'
  BY <1>12, DropFlow DEF Conns
<1> QED
  BY <1>6, <1>7, <1>8, <1>9, <1>10, <1>11, <1>12 DEF Next, vars

(* Initially nothing is on its way. *)
LEMMA FlowInit == Init => FlowInv
<1> SUFFICES ASSUME Init PROVE FlowInv
  OBVIOUS
<1>1. /\ clients["COMMAND"] = 0 /\ waiting = 0 /\ running = {} /\ results = {} /\ answer = <<0, 0>>
      /\ upc = "idle" /\ ppc = "none"
      /\ \A c \in Conns : in_q[c] = <<>> /\ requests[c] = <<>> /\ queued[c] = {}
  BY DEF Init, Conns, Types
<1>2. \A k : Args(<<>>, k) = {} /\ Once(<<>>, k) /\ ApartIn(<<>>, k)
  BY DEF Args, Once, ApartIn, Kind
<1>3. \A c \in Conns : \A k : Args(in_q[c], k) = {} /\ Args(requests[c], k) = {} /\ Once(in_q[c], k)
                                /\ Once(requests[c], k) /\ ApartIn(in_q[c], k)
  BY <1>1, <1>2
<1>4. Sides /\ Inbox /\ Outbox
  BY <1>1, <1>3 DEF Sides, Inbox, Outbox
<1>5. Asked = {} /\ Acked = {} /\ Ran = {} /\ Queued = {}
  BY <1>1, <1>3 DEF Asked, Acked, Ran, Queued
<1>6. Returned = {}
  <2>1. \A c \in Conns : UNION Args(in_q[c], "results") = {}
    BY <1>3
  <2> QED
    BY <2>1 DEF Returned
<1>7. AckFlow /\ Accounted /\ ResultFlow
  BY <1>1, <1>5, <1>6 DEF AckFlow, Accounted, ResultFlow
<1>8. StopsOver /\ ClosedQuiet
  BY <1>1, <1>3 DEF StopsOver, ClosedQuiet
<1>9. OwnAck
  BY <1>1, <1>5 DEF OwnAck, Over
<1> QED
  BY <1>4, <1>7, <1>8, <1>9 DEF FlowInv

(* The inductive invariant holds in every reachable state. *)
LEMMA ClientInvariant == Spec => []CInv
<1>1. Init => CInv
  BY ClientTypesInit, LifeInit, FlowInit DEF CInv
<1>2. CInv /\ [Next]_vars => CInv'
  BY ClientTypesNext, LifeNext, FlowNext DEF CInv
<1> QED
  BY <1>1, <1>2, PTL DEF Spec

(* The map of results holds only results whose get timed out, late results   *)
(* of a handshake, and results whose ack was not read or is being waited     *)
(* for: it does not grow with the number of commands.                        *)
THEOREM MapAccounted == Spec => []ResultsAccounted
<1>1. CInv => ResultsAccounted
  <2> SUFFICES ASSUME CInv, NEW x \in results PROVE
        x \in left \cup expired \cup {own, waiting}
          \cup {m.arg : m \in {y \in UNION {ToSet(in_q[c]) : c \in 1..conns} : y.kind = "ack"}}
    BY DEF ResultsAccounted
  <2>1. x \in left \cup expired \cup {waiting} \cup Acked
    BY DEF CInv, FlowInv, Accounted
  <2>2. ASSUME x \in Acked
        PROVE x \in {m.arg : m \in {y \in UNION {ToSet(in_q[c]) : c \in 1..conns} : y.kind = "ack"}}
    <3>1. PICK c \in Conns : x \in Args(in_q[c], "ack")
      BY <2>2 DEF Acked
    <3>2. PICK i \in 1..Len(in_q[c]) : in_q[c][i].kind = "ack" /\ x = in_q[c][i].arg
      BY <3>1 DEF Args, Kind
    <3>3. in_q[c] \in Seq(Messages(ids))
      BY DEF CInv, TypeInv, LinkTypes
    <3>4. in_q[c][i] \in ToSet(in_q[c])
      BY <3>3 DEF ToSet
    <3>5. c = clients["COMMAND"] /\ clients["COMMAND"] \in 0..conns /\ conns \in Nat
      BY <3>1, ClientAssumption DEF CInv, FlowInv, Inbox, TypeInv, ClientTypes, Types
    <3>6. c \in 1..conns
      BY <3>5 DEF Conns
    <3> QED
      BY <3>2, <3>4, <3>6
  <2> QED
    BY <2>1, <2>2
<1> QED
  BY <1>1, ClientInvariant, PTL

(* As long as no read times out, send_command returns the result of the      *)
(* command it sent, whatever drops, expires or shuts down in between.        *)
THEOREM AnswersOwnCommand == Spec => []OwnResult
<1>1. CInv => OwnResult
  BY DEF CInv, FlowInv, OwnAck, OwnResult
<1> QED
  BY <1>1, ClientInvariant, PTL

=============================================================================
