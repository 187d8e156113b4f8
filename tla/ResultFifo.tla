----------------------------- MODULE ResultFifo -----------------------------
(***************************************************************************)
(* What the result queues promise to the polls, however many there are:    *)
(* a result is handed out at most once, by a poll of the queue it was      *)
(* meant for, and it is lost only when a full queue makes room for a newer *)
(* one, when its queue is destroyed, or when its queue does not exist.     *)
(* A poll is one step: it takes every result that does not wait for the    *)
(* game loop, in the order of the queue, and leaves the others behind.     *)
(***************************************************************************)
EXTENDS Naturals, Sequences, SequencesExt

CONSTANTS Cmds, Queues, Pollers, PollerQueue, QueueSize

VARIABLES
  fresh,   \* commands that were never asked for
  due,     \* results that queue q is still to get
  open,    \* queues that exist
  ring,    \* results in queue q, oldest first
  held,    \* results poll p has taken and not yet answered, oldest first
  out,     \* results answered by the polls of queue q, oldest first
  waits,   \* results whose deferred part is not done
  listed   \* results announced as pending

fifoVars == <<fresh, due, open, ring, held, out, waits, listed>>

(* The elements that t and s share come in the same order, each once. *)
SameOrder(t, s) ==
  \A i, j \in DOMAIN t, k, l \in DOMAIN s :
    t[i] = s[k] /\ t[j] = s[l] => (i < j <=> k < l)

(* What can be picked out of s without changing the order. *)
Parts(s) == {t \in SeqOf(ToSet(s), Len(s)) : SameOrder(t, s)}

FifoInit ==
  /\ fresh = Cmds
  /\ due = [q \in Queues |-> {}]
  /\ open \subseteq Queues
  /\ ring = [q \in Queues |-> <<>>]
  /\ held = [p \in Pollers |-> <<>>]
  /\ out = [q \in Queues |-> <<>>]
  /\ waits = {}
  /\ listed = {}

(* A command is asked for, whose result queue q is to get. *)
Ask(q, c) ==
  /\ c \in fresh
  /\ fresh' = fresh \ {c}
  /\ due' = [due EXCEPT ![q] = @ \cup {c}]
  /\ UNCHANGED <<open, ring, held, out, waits, listed>>

(* A command is asked for, whose result nobody is to get. *)
AskNone(c) ==
  /\ c \in fresh
  /\ fresh' = fresh \ {c}
  /\ UNCHANGED <<due, open, ring, held, out, waits, listed>>

Defer(q, c) ==
  /\ c \in due[q]
  /\ waits' = waits \cup {c}
  /\ UNCHANGED <<fresh, due, open, ring, held, out, listed>>

Finish(c) ==
  /\ waits' = waits \ {c}
  /\ UNCHANGED <<fresh, due, open, ring, held, out, listed>>

Announce(q, c) ==
  /\ c \in due[q] \cap waits
  /\ listed' = listed \cup {c}
  /\ UNCHANGED <<fresh, due, open, ring, held, out, waits>>

(* A result enters its queue; the oldest one makes room if the queue is full. *)
Put(q, c) ==
  /\ q \in open
  /\ c \in due[q]
  /\ due' = [due EXCEPT ![q] = @ \ {c}]
  /\ ring' = [ring EXCEPT ![q] = Append(IF Len(@) >= QueueSize THEN Tail(@) ELSE @, c)]
  /\ UNCHANGED <<fresh, open, held, out, waits, listed>>

(* A result whose queue does not exist is dropped. *)
Drop(q, c) ==
  /\ q \notin open
  /\ c \in due[q]
  /\ due' = [due EXCEPT ![q] = @ \ {c}]
  /\ UNCHANGED <<fresh, open, ring, held, out, waits, listed>>

(* A poll takes h and leaves b: all that is in the queue, nothing in h waits *)
(* and everything in b was announced.  What is left is turned round.         *)
Take(p, h, b) ==
  LET q == PollerQueue[p] IN
  /\ q \in open
  /\ held[p] = <<>>
  /\ ToSet(h) \cup ToSet(b) = ToSet(ring[q])
  /\ ToSet(h) \cap ToSet(b) = {}
  /\ ToSet(h) \cap waits = {}
  /\ ToSet(b) \subseteq listed
  /\ held' = [held EXCEPT ![p] = h]
  /\ ring' = [ring EXCEPT ![q] = Reverse(b)]
  /\ UNCHANGED <<fresh, due, open, out, waits, listed>>

(* The poll answers what it took. *)
Answer(p) ==
  /\ out' = [out EXCEPT ![PollerQueue[p]] = @ \o held[p]]
  /\ held' = [held EXCEPT ![p] = <<>>]
  /\ listed' = listed \ ToSet(held[p])
  /\ UNCHANGED <<fresh, due, open, ring, waits>>

Create(q) ==
  /\ open' = open \cup {q}
  /\ UNCHANGED <<fresh, due, ring, held, out, waits, listed>>

(* A queue goes with what is in it; a poll that is under way may get away    *)
(* with some of the results that do not wait.                                *)
Destroy(q) ==
  /\ q \in open
  /\ open' = open \ {q}
  /\ ring' = [ring EXCEPT ![q] = <<>>]
  /\ \/ UNCHANGED held
     \/ \E p \in Pollers : \E h \in Parts(ring[q]) :
          /\ PollerQueue[p] = q /\ held[p] = <<>>
          /\ ToSet(h) \cap waits = {}
          /\ held' = [held EXCEPT ![p] = h]
  /\ UNCHANGED <<fresh, due, out, waits, listed>>

FifoNext ==
  \/ \E q \in Queues, c \in Cmds :
       Ask(q, c) \/ Defer(q, c) \/ Announce(q, c) \/ Put(q, c) \/ Drop(q, c)
  \/ \E c \in Cmds : AskNone(c) \/ Finish(c)
  \/ \E q \in Queues : Create(q) \/ Destroy(q)
  \/ \E p \in Pollers :
       \/ \E h, b \in Parts(ring[PollerQueue[p]]) : Take(p, h, b)
       \/ Answer(p)

FifoSpec == FifoInit /\ [][FifoNext]_fifoVars
=============================================================================
