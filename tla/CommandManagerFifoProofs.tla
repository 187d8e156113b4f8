---------------------- MODULE CommandManagerFifoProofs ----------------------
(* CommandManager implements ResultFifo, for every number of commands,      *)
(* queues, callers and polls, every assignment of polls to queues, every    *)
(* queue size and every kind of command.                                    *)
EXTENDS CommandManagerFifo, CommandManagerProofs

(* A poll that refers to a destroyed map node never finds its node again,    *)
(* also when the queue is created once more.                                 *)
NodesGone ==
  \A p \in Pollers :
    /\ pgen[p] <= gen[PollerQueue[p]]
    /\ ppc[p] \in {"pop", "popping"} /\ PollerQueue[p] \notin queues
         => pgen[p] < gen[PollerQueue[p]]

(* A poll has results only between popping and answering, and has put back   *)
(* what it refused before it answers.                                        *)
PollsEmpty ==
  \A p \in Pollers : /\ ppc[p] \in {"idle", "pop"} => res[p] = <<>>
                     /\ ppc[p] # "popping" => kept[p] = <<>>

(* The lock of a queue has one holder. *)
OnePopper ==
  \A p, r \in Pollers : Moving(p) /\ Moving(r) /\ PollerQueue[p] = PollerQueue[r] => p = r

(* A queue that does not exist has no results; what a poll refused was       *)
(* announced as pending; the worker runs what was asked for and emplaces     *)
(* what is wanted, so that is what queues and polls have; and nothing waits  *)
(* before it was asked for.                                                  *)
GoneEmpty == \A q \in Queues : q \notin queues => results[q] = <<>>
KeptListed == \A p \in Pollers : \A i \in 1..Len(kept[p]) : kept[p][i] \in pending_commands
UserWorks == /\ wpc \in Busy => cmd[wcmd].type = CommandType.USER
             /\ wpc = "emplace" => ~cmd[wcmd].discard
WantedOnly == \A c \in Cmds : fate[c] \in {"queued", "popping"} => ~cmd[c].discard
UnaskedIdle == \A c \in Cmds : fate[c] = "unused" => ~pending[c]

(* A pop has looked at what it sorted into res and pred_false, and each of   *)
(* the two is in the order in which it looked.                               *)
Ordered(t, s) ==
  \A i, j \in 1..Len(t), k, l \in 1..Len(s) : t[i] = s[k] /\ t[j] = s[l] => (i < j <=> k < l)
Sorted(p) ==
  LET s == looked[PollerQueue[p]] IN
  /\ Len(s) = Len(res[p]) + Len(kept[p])
  /\ ToSet(s) = ToSet(res[p]) \cup ToSet(kept[p])
  /\ Ordered(res[p], s)
  /\ Ordered(kept[p], s)
LookInv ==
  /\ looked \in [Queues -> Seq(Cmds)]
  /\ \A q \in Queues : ~Locked(q) => looked[q] = <<>>
  /\ \A p \in Pollers : Moving(p) => Sorted(p)

FInv == /\ NodesGone /\ PollsEmpty /\ OnePopper /\ GoneEmpty /\ KeptListed
        /\ UserWorks /\ WantedOnly /\ UnaskedIdle /\ LookInv

-----------------------------------------------------------------------------
(* Sequences *)

(* Reversal, element by element. *)
LEMMA ReverseOf ==
  ASSUME NEW S, NEW s \in Seq(S)
  PROVE  /\ Reverse(s) \in Seq(S) /\ Len(Reverse(s)) = Len(s)
         /\ \A i \in 1..Len(s) : Reverse(s)[i] = s[Len(s) - i + 1]
BY ReverseType DEF Reverse

(* The reverse of an empty list of results is empty. *)
LEMMA ReverseEmpty == Reverse(<<>>) = <<>>
<1>1. \A s \in Seq({}) : Reverse(s) \in Seq({}) /\ Len(Reverse(s)) = Len(s)
  BY ReverseOf
<1>2. <<>> \in Seq({}) /\ Len(<<>>) = 0
  OBVIOUS
<1>3. Reverse(<<>>) \in Seq({}) /\ Len(Reverse(<<>>)) = 0
  BY <1>1, <1>2
<1> QED
  BY <1>3, EmptySeq

(* RingBuffer::pop and push_back on the vector: a result moves from one end  *)
(* to the other.                                                             *)
LEMMA LastMoves ==
  ASSUME NEW S, NEW s \in Seq(S), NEW r \in Seq(S), s # <<>>
  PROVE  Front(s) \o Reverse(Append(r, s[Len(s)])) = s \o Reverse(r)
<1> DEFINE n == Len(s)
           m == Len(r)
           e == s[n]
           a == Front(s)
           b == Reverse(Append(r, e))
           c == Reverse(r)
<1>1. n \in Nat \ {0} /\ m \in Nat /\ e \in S
  OBVIOUS
<1>2. a \in Seq(S) /\ Len(a) = n - 1 /\ \A i \in 1..n - 1 : a[i] = s[i]
  BY FrontType
<1>3. /\ Append(r, e) \in Seq(S) /\ Len(Append(r, e)) = m + 1
      /\ Append(r, e)[m + 1] = e /\ \A i \in 1..m : Append(r, e)[i] = r[i]
  BY <1>1
<1>4. /\ b \in Seq(S) /\ Len(b) = m + 1
      /\ \A i \in 1..m + 1 : b[i] = Append(r, e)[m + 1 - i + 1]
  <2>1. PICK w \in Seq(S) : w = Append(r, e)
    BY <1>3
  <2>2. Len(w) = m + 1
    BY <1>3, <2>1
  <2>3. /\ Reverse(w) \in Seq(S) /\ Len(Reverse(w)) = Len(w)
        /\ \A i \in 1..Len(w) : Reverse(w)[i] = w[Len(w) - i + 1]
    BY ReverseOf
  <2> QED
    BY <2>1, <2>2, <2>3
<1>5. c \in Seq(S) /\ Len(c) = m /\ \A i \in 1..m : c[i] = r[m - i + 1]
  BY ReverseOf
<1>d. n = Len(s) /\ m = Len(r) /\ e = s[n]
  OBVIOUS
<1> HIDE DEF n, m, e, a, b, c
<1>6. b[1] = e
  BY <1>1, <1>3, <1>4
<1>7. ASSUME NEW i \in 1..m PROVE b[i + 1] = c[i]
  <2>1. i + 1 \in 1..m + 1 /\ m + 1 - (i + 1) + 1 = m - i + 1 /\ m - i + 1 \in 1..m
    BY <1>1
  <2> QED
    BY <1>3, <1>4, <1>5, <2>1
<1>8. /\ a \o b \in Seq(S) /\ Len(a \o b) = n + m
      /\ \A i \in 1..n + m : (a \o b)[i] = IF i <= n - 1 THEN a[i] ELSE b[i - (n - 1)]
  <2>1. /\ a \o b \in Seq(S) /\ Len(a \o b) = Len(a) + Len(b)
        /\ \A i \in 1..Len(a) + Len(b) : (a \o b)[i] = IF i <= Len(a) THEN a[i] ELSE b[i - Len(a)]
    BY <1>2, <1>4, ConcatProperties
  <2>2. Len(a) = n - 1 /\ Len(a) + Len(b) = n + m
    BY <1>1, <1>2, <1>4
  <2> QED
    BY <2>1, <2>2
<1>9. /\ s \o c \in Seq(S) /\ Len(s \o c) = n + m
      /\ \A i \in 1..n + m : (s \o c)[i] = IF i <= n THEN s[i] ELSE c[i - n]
  <2>1. /\ s \o c \in Seq(S) /\ Len(s \o c) = Len(s) + Len(c)
        /\ \A i \in 1..Len(s) + Len(c) : (s \o c)[i] = IF i <= Len(s) THEN s[i] ELSE c[i - Len(s)]
    BY <1>5, ConcatProperties
  <2> QED
    BY <1>5, <1>d, <2>1
<1>10. ASSUME NEW i \in 1..n + m PROVE (a \o b)[i] = (s \o c)[i]
  <2>1. CASE i <= n - 1
    BY <1>1, <1>2, <1>8, <1>9, <2>1
  <2>2. CASE i = n
    <3>0. ~(i <= n - 1) /\ i - (n - 1) = 1
      BY <1>1, <2>2
    <3>1. (a \o b)[i] = b[1]
      BY <1>8, <3>0
    <3> QED
      BY <1>1, <1>6, <1>9, <1>d, <2>2, <3>1
  <2>3. CASE i > n
    <3>1. i - n \in 1..m /\ i - (n - 1) = (i - n) + 1
      BY <1>1, <2>3
    <3>2. ~(i <= n - 1) /\ ~(i <= n)
      BY <1>1, <2>3
    <3>3. (a \o b)[i] = b[i - (n - 1)]
      BY <1>8, <3>2
    <3>4. (s \o c)[i] = c[i - n]
      BY <1>9, <3>2
    <3> QED
      BY <1>7, <3>1, <3>3, <3>4
  <2>4. i \in Nat
    BY <1>1
  <2>5. i <= n - 1 \/ i = n \/ i > n
    BY <1>1, <2>4
  <2> QED
    BY <2>1, <2>2, <2>3, <2>5
<1>11. a \o b = s \o c
  BY <1>8, <1>9, <1>10, SeqEqual
<1> QED
  BY <1>11 DEF a, b, c, e, n

(* The elements of a concatenation and of a reversal. *)
LEMMA SetOfConcat ==
  ASSUME NEW S, NEW a \in Seq(S), NEW b \in Seq(S)
  PROVE  ToSet(a \o b) = ToSet(a) \cup ToSet(b)
<1>1. /\ Len(a) \in Nat /\ Len(b) \in Nat /\ DOMAIN a = 1..Len(a) /\ DOMAIN b = 1..Len(b)
  OBVIOUS
<1>2. /\ DOMAIN (a \o b) = 1..Len(a) + Len(b)
      /\ \A i \in 1..Len(a) : (a \o b)[i] = a[i]
      /\ \A i \in 1..Len(b) : (a \o b)[Len(a) + i] = b[i]
      /\ \A i \in 1..Len(a) + Len(b) : (a \o b)[i] = IF i <= Len(a) THEN a[i] ELSE b[i - Len(a)]
  <2>1. a \o b \in Seq(S) /\ Len(a \o b) = Len(a) + Len(b)
    BY ConcatProperties
  <2>2. \A i \in 1..Len(a) + Len(b) : (a \o b)[i] = IF i <= Len(a) THEN a[i] ELSE b[i - Len(a)]
    BY ConcatProperties
  <2>3. \A i \in 1..Len(b) : Len(a) + i \in 1..Len(a) + Len(b) /\ ~(Len(a) + i <= Len(a))
                               /\ Len(a) + i - Len(a) = i
    BY <1>1
  <2> QED
    BY <1>1, <2>1, <2>2, <2>3
<1>3. ASSUME NEW x \in ToSet(a \o b) PROVE x \in ToSet(a) \cup ToSet(b)
  <2>1. PICK i \in 1..Len(a) + Len(b) : x = (a \o b)[i]
    BY <1>2, <1>3 DEF ToSet
  <2>2. CASE i <= Len(a)
    BY <1>1, <1>2, <2>1, <2>2 DEF ToSet
  <2>3. CASE ~(i <= Len(a))
    <3>1. i - Len(a) \in 1..Len(b) /\ x = b[i - Len(a)]
      BY <1>1, <1>2, <2>1, <2>3
    <3> QED
      BY <1>1, <3>1 DEF ToSet
  <2> QED
    BY <2>2, <2>3
<1>4. ASSUME NEW x \in ToSet(a) PROVE x \in ToSet(a \o b)
  <2>1. PICK i \in 1..Len(a) : x = a[i]
    BY <1>1, <1>4 DEF ToSet
  <2>2. i \in 1..Len(a) + Len(b)
    BY <1>1
  <2> QED
    BY <1>2, <2>1, <2>2 DEF ToSet
<1>5. ASSUME NEW x \in ToSet(b) PROVE x \in ToSet(a \o b)
  <2>1. PICK i \in 1..Len(b) : x = b[i]
    BY <1>1, <1>5 DEF ToSet
  <2>2. Len(a) + i \in 1..Len(a) + Len(b)
    BY <1>1
  <2> QED
    BY <1>2, <2>1, <2>2 DEF ToSet
<1> QED
  BY <1>3, <1>4, <1>5

(* Reversing a list of results keeps its elements. *)
LEMMA SetOfReverse ==
  ASSUME NEW S, NEW s \in Seq(S)
  PROVE  ToSet(Reverse(s)) = ToSet(s)
<1>1. /\ DOMAIN s = 1..Len(s) /\ Len(s) \in Nat /\ DOMAIN Reverse(s) = 1..Len(s)
      /\ \A i \in 1..Len(s) : Reverse(s)[i] = s[Len(s) - i + 1]
  BY ReverseOf DEF Reverse
<1>2. \A i \in 1..Len(s) : Len(s) - i + 1 \in 1..Len(s) /\ Len(s) - (Len(s) - i + 1) + 1 = i
  BY <1>1
<1>3. ASSUME NEW x \in ToSet(Reverse(s)) PROVE x \in ToSet(s)
  BY <1>1, <1>2, <1>3 DEF ToSet
<1>4. ASSUME NEW x \in ToSet(s) PROVE x \in ToSet(Reverse(s))
  <2>1. PICK i \in 1..Len(s) : x = s[i]
    BY <1>1, <1>4 DEF ToSet
  <2>2. PICK j \in 1..Len(s) : j = Len(s) - i + 1 /\ Len(s) - j + 1 = i
    BY <1>2
  <2>3. Reverse(s)[j] = x
    BY <1>1, <2>1, <2>2
  <2> QED
    BY <1>1, <2>3 DEF ToSet
<1> QED
  BY <1>3, <1>4

(* Putting the element that was looked at last behind both sequences. *)
LEMMA OrderedAppend ==
  ASSUME NEW S, NEW t \in Seq(S), NEW s \in Seq(S), NEW e \in S, Ordered(t, s),
         \A i \in 1..Len(t) : t[i] # e, \A i \in 1..Len(s) : s[i] # e
  PROVE  Ordered(Append(t, e), Append(s, e)) /\ Ordered(t, Append(s, e))
<1>1. PICK m \in Nat, n \in Nat : m = Len(t) /\ n = Len(s)
  OBVIOUS
<1>0. Append(t, e) \in Seq(S) /\ Append(s, e) \in Seq(S)
  OBVIOUS
<1>a. PICK u \in Seq(S) : u = Append(t, e)
  BY <1>0
<1>b. PICK v \in Seq(S) : v = Append(s, e)
  BY <1>0
<1>2. u = Append(t, e) /\ v = Append(s, e)
  BY <1>a, <1>b
<1>3. /\ Len(u) = m + 1 /\ u[m + 1] = e /\ \A i \in 1..m : u[i] = t[i]
      /\ Len(v) = n + 1 /\ v[n + 1] = e /\ \A i \in 1..n : v[i] = s[i]
  BY <1>1, <1>2
<1>4. /\ \A i \in 1..m + 1 : i \in 1..m \/ i = m + 1
      /\ \A i \in 1..n + 1 : i \in 1..n \/ i = n + 1
  <2>1. \A w \in Nat : \A i \in 1..w + 1 : i \in 1..w \/ i = w + 1
    OBVIOUS
  <2> QED
    BY <2>1
<1>5. ASSUME NEW i \in 1..m + 1, NEW j \in 1..m + 1, NEW k \in 1..n + 1, NEW l \in 1..n + 1,
             u[i] = v[k], u[j] = v[l]
      PROVE  i < j <=> k < l
  <2>1. (i = m + 1 <=> k = n + 1) /\ (j = m + 1 <=> l = n + 1)
    BY <1>1, <1>3, <1>4, <1>5
  <2>2. CASE i = m + 1
    BY <1>1, <2>1, <2>2
  <2>3. CASE j = m + 1 /\ i # m + 1
    BY <1>1, <2>1, <2>3
  <2>4. CASE i # m + 1 /\ j # m + 1
    <3>1. i \in 1..m /\ j \in 1..m /\ k \in 1..n /\ l \in 1..n
      BY <1>4, <2>1, <2>4
    <3>2. t[i] = s[k] /\ t[j] = s[l]
      BY <1>3, <1>5, <3>1
    <3> QED
      BY <1>1, <3>1, <3>2 DEF Ordered
  <2> QED
    BY <2>2, <2>3, <2>4
<1>6. Ordered(u, v)
  BY <1>3, <1>5 DEF Ordered
<1>7. ASSUME NEW i \in 1..m, NEW j \in 1..m, NEW k \in 1..n + 1, NEW l \in 1..n + 1,
             t[i] = v[k], t[j] = v[l]
      PROVE  i < j <=> k < l
  <2>1. k \in 1..n /\ l \in 1..n
    BY <1>1, <1>3, <1>4, <1>7
  <2>2. t[i] = s[k] /\ t[j] = s[l]
    BY <1>3, <1>7, <2>1
  <2> QED
    BY <1>1, <2>1, <2>2 DEF Ordered
<1>8. Ordered(t, v)
  BY <1>1, <1>3, <1>7 DEF Ordered
<1> QED
  BY <1>2, <1>6, <1>8

(* Turning both sequences round. *)
LEMMA OrderedReverse ==
  ASSUME NEW S, NEW t \in Seq(S), NEW s \in Seq(S), Ordered(t, s)
  PROVE  Ordered(Reverse(t), Reverse(s))
<1>1. PICK m \in Nat, n \in Nat : m = Len(t) /\ n = Len(s)
  OBVIOUS
<1>2. PICK u, v : u = Reverse(t) /\ v = Reverse(s)
  OBVIOUS
<1>3. /\ Len(u) = m /\ \A i \in 1..m : u[i] = t[m - i + 1]
      /\ Len(v) = n /\ \A i \in 1..n : v[i] = s[n - i + 1]
  BY <1>1, <1>2, ReverseOf
<1>4. ASSUME NEW i \in 1..m, NEW j \in 1..m, NEW k \in 1..n, NEW l \in 1..n,
             u[i] = v[k], u[j] = v[l]
      PROVE  i < j <=> k < l
  <2>a. PICK a \in 1..m : a = m - i + 1
    OBVIOUS
  <2>b. PICK b \in 1..m : b = m - j + 1
    OBVIOUS
  <2>c. PICK c \in 1..n : c = n - k + 1
    OBVIOUS
  <2>d. PICK d \in 1..n : d = n - l + 1
    OBVIOUS
  <2>1. a = m - i + 1 /\ b = m - j + 1 /\ c = n - k + 1 /\ d = n - l + 1
    BY <2>a, <2>b, <2>c, <2>d
  <2>2. t[a] = s[c] /\ t[b] = s[d]
    BY <1>3, <1>4, <2>1
  <2>3. b < a <=> d < c
    BY <1>1, <2>2 DEF Ordered
  <2> QED
    BY <1>1, <2>1, <2>3
<1>5. Ordered(u, v)
  BY <1>3, <1>4 DEF Ordered
<1> QED
  BY <1>2, <1>5

(* Elements of another queue's making in front change nothing. *)
LEMMA OrderedBehind ==
  ASSUME NEW S, NEW t \in Seq(S), NEW s \in Seq(S), NEW a \in Seq(S), Ordered(t, s),
         Apart(t, a)
  PROVE  Ordered(t, a \o s)
<1>1. PICK m \in Nat, n \in Nat, h \in Nat : m = Len(t) /\ n = Len(s) /\ h = Len(a)
  OBVIOUS
<1>2. PICK v : v = a \o s
  OBVIOUS
<1>3. Len(v) = h + n /\ \A i \in 1..h + n : v[i] = IF i <= h THEN a[i] ELSE s[i - h]
  BY <1>1, <1>2, ConcatProperties
<1>4. ASSUME NEW i \in 1..m, NEW k \in 1..h + n, t[i] = v[k]
      PROVE  k - h \in 1..n /\ t[i] = s[k - h]
  <2>1. CASE k <= h
    <3>1. k \in 1..h /\ t[i] = a[k]
      BY <1>1, <1>3, <1>4, <2>1
    <3> QED
      BY <1>1, <3>1 DEF Apart
  <2>2. CASE ~(k <= h)
    BY <1>1, <1>3, <1>4, <2>2
  <2> QED
    BY <2>1, <2>2
<1>5. ASSUME NEW i \in 1..m, NEW j \in 1..m, NEW k \in 1..h + n, NEW l \in 1..h + n,
             t[i] = v[k], t[j] = v[l]
      PROVE  i < j <=> k < l
  <2>1. k - h \in 1..n /\ t[i] = s[k - h] /\ l - h \in 1..n /\ t[j] = s[l - h]
    BY <1>4, <1>5
  <2>2. PICK x \in 1..n, y \in 1..n : x = k - h /\ y = l - h
    BY <2>1
  <2>3. i < j <=> x < y
    BY <1>1, <2>1, <2>2 DEF Ordered
  <2> QED
    BY <1>1, <2>2, <2>3
<1>6. Ordered(t, v)
  BY <1>1, <1>3, <1>5 DEF Ordered
<1> QED
  BY <1>2, <1>6

(* Two reversals cancel out. *)
LEMMA ReverseTwice ==
  ASSUME NEW S, NEW s \in Seq(S)
  PROVE  Reverse(Reverse(s)) = s
<1>1. PICK u \in Seq(S) : u = Reverse(s)
  BY ReverseOf
<1>2. Len(u) = Len(s) /\ \A i \in 1..Len(s) : u[i] = s[Len(s) - i + 1]
  BY <1>1, ReverseOf
<1>3. PICK v \in Seq(S) : v = Reverse(u)
  BY ReverseOf
<1>4. Len(v) = Len(u) /\ \A i \in 1..Len(u) : v[i] = u[Len(u) - i + 1]
  BY <1>3, ReverseOf
<1>5. ASSUME NEW i \in 1..Len(s) PROVE v[i] = s[i]
  <2>0. PICK n \in Nat : n = Len(s)
    OBVIOUS
  <2>a. i \in 1..n
    BY <2>0
  <2>b. n - i + 1 \in 1..n /\ n - (n - i + 1) + 1 = i
    BY <2>a
  <2>1. PICK j \in 1..n : j = n - i + 1
    BY <2>b
  <2>2. n - j + 1 = i
    BY <2>b, <2>1
  <2>3. v[i] = u[j]
    BY <1>2, <1>4, <2>0, <2>1, <2>a
  <2>4. u[j] = s[n - j + 1]
    BY <1>2, <2>0
  <2> QED
    BY <2>2, <2>3, <2>4
<1>6. v = s
  BY <1>2, <1>4, <1>5, SeqEqual
<1> QED
  BY <1>1, <1>3, <1>6

(* The operators of ResultFifo are these. *)
LEMMA FifoOperators ==
  ASSUME NEW S, NEW s \in Seq(S), NEW t \in Seq(S)
  PROVE  /\ Fifo!ToSet(s) = ToSet(s)
         /\ Fifo!Reverse(s) = Reverse(s)
         /\ ToSet(t) \subseteq ToSet(s) /\ Len(t) <= Len(s) /\ Ordered(t, s)
              => t \in Fifo!Parts(s)
<1>1. Fifo!ToSet(s) = ToSet(s)
  BY DEF Fifo!ToSet, ToSet
<1>2. Fifo!Reverse(s) = Reverse(s)
  BY DEF Fifo!Reverse, Reverse
<1>3. ASSUME ToSet(t) \subseteq ToSet(s), Len(t) <= Len(s), Ordered(t, s)
      PROVE  t \in Fifo!Parts(s)
  <2>1. /\ DOMAIN t = 1..Len(t) /\ DOMAIN s = 1..Len(s) /\ Len(t) \in 0..Len(s)
    BY <1>3
  <2>2. t \in [1..Len(t) -> ToSet(s)]
    BY <1>3, <2>1 DEF ToSet
  <2>3. t \in Fifo!SeqOf(ToSet(s), Len(s))
    BY <2>1, <2>2 DEF Fifo!SeqOf
  <2>4. Fifo!SameOrder(t, s)
    BY <1>3, <2>1 DEF Fifo!SameOrder, Ordered
  <2> QED
    BY <1>1, <2>3, <2>4 DEF Fifo!Parts
<1> QED
  BY <1>1, <1>2, <1>3

-----------------------------------------------------------------------------
(* Steps that leave the queues and the polls alone *)

(* The lock of a queue is held by a poll that is moving results. *)
LEMMA LockedBy ==
  \A q \in Queues : Locked(q) <=> \E p \in Pollers : PollerQueue[p] = q /\ Moving(p)
BY DEF Locked, Moving

(* Results do not come into a queue or a poll from elsewhere. *)
LEMMA WantedStays ==
  ASSUME FInv,
         \A c \in Cmds : fate'[c] \in {"queued", "popping"} =>
           \/ fate[c] \in {"queued", "popping"} /\ cmd'[c] = cmd[c]
           \/ ~cmd'[c].discard
  PROVE  WantedOnly'
BY DEF FInv, WantedOnly

(* Nothing is looked at, and the invariants on queues and polls stay. *)
LEMMA LookFrame ==
  ASSUME FInv, Looks, UNCHANGED <<results, res, kept, ppc, pgen, queues, gen>>
  PROVE  /\ looked' = looked
         /\ NodesGone' /\ PollsEmpty' /\ OnePopper' /\ GoneEmpty' /\ LookInv'
<1>1. /\ \A p \in Pollers : (Moving(p)' <=> Moving(p)) /\ (SameNode(p)' <=> SameNode(p))
      /\ \A q \in Queues : (Locked(q)' <=> Locked(q))
  BY DEF Moving, SameNode, Locked
<1>2. looked \in [Queues -> Seq(Cmds)] /\ \A q \in Queues : ~Locked(q) => looked[q] = <<>>
  BY DEF FInv, LookInv
<1>3. ASSUME NEW q \in Queues PROVE looked'[q] = looked[q]
  BY <1>1, <1>2 DEF Looks
<1>4. looked' = looked
  <2>1. DOMAIN looked' = Queues /\ DOMAIN looked = Queues
        /\ looked' = [q \in Queues |-> looked'[q]] /\ looked = [q \in Queues |-> looked[q]]
    BY <1>2 DEF Looks
  <2> QED
    BY <1>3, <2>1
<1>5. NodesGone' /\ PollsEmpty' /\ OnePopper' /\ GoneEmpty'
  BY <1>1 DEF FInv, NodesGone, PollsEmpty, OnePopper, GoneEmpty
<1>6. LookInv'
  BY <1>1, <1>2, <1>4 DEF FInv, LookInv, Sorted
<1> QED
  BY <1>4, <1>5, <1>6

(* The rings and what the polls have taken stay. *)
LEMMA MapFrame ==
  ASSUME UNCHANGED <<results, res, ppc, pgen, queues, gen, looked>>
  PROVE  /\ [q \in Queues |-> Ring(q)]' = [q \in Queues |-> Ring(q)]
         /\ [p \in Pollers |-> Taken(p)]' = [p \in Pollers |-> Taken(p)]
BY DEF Ring, Taken, Moving, SameNode

(* make_command and make_builtin_command: a result is asked for, or none. *)
LEMMA MakeStep ==
  ASSUME IInv, FInv, Looks, NEW r, Make(command_counter + 1, r),
         r.type = CommandType.USER => r.queue_id \in Queues
  PROVE  FInv' /\ Fifo!FifoNext
<1> USE DEF queueVars, gameVars, pollVars
<1>1. PICK n \in Cmds : n = command_counter + 1
  BY ConstantsAssumption DEF IInv, TypeInv, TypeOK, CmdTypes, Make, Cmds
<1>2. /\ fate[n] = "unused" /\ ~pending[n] /\ n \notin pending_commands
  <2>1. n > command_counter
    BY <1>1 DEF IInv, TypeInv, TypeOK, CmdTypes
  <2>2. fate[n] = "unused"
    BY <2>1 DEF IInv, WorkerOwns
  <2> QED
    BY <2>2 DEF IInv, PendingInv, FInv, UnaskedIdle
<1>3. /\ fate' = [fate EXCEPT ![n] = "work"]
      /\ cmd' = [cmd EXCEPT ![n] = r]
      /\ UNCHANGED <<pending, wpc, wcmd, pending_commands, results, res, kept, log, ppc, pgen,
                     queues, gen>>
  BY <1>1 DEF Make
<1>4. /\ fate'[n] = "work" /\ cmd'[n] = r
      /\ \A c \in Cmds : c # n => fate'[c] = fate[c] /\ cmd'[c] = cmd[c]
  BY <1>3 DEF IInv, TypeInv, TypeOK, CmdTypes, HistTypes
<1>5. /\ looked' = looked
      /\ NodesGone' /\ PollsEmpty' /\ OnePopper' /\ GoneEmpty' /\ LookInv'
  BY <1>3, LookFrame
<1>6. KeptListed' /\ UnaskedIdle'
  BY <1>3, <1>4 DEF FInv, KeptListed, UnaskedIdle
<1>7. UserWorks'
  <2>1. wpc \in Busy => wcmd \in Cmds /\ wcmd # n
    <3>1. wpc \in Busy => wcmd \in 1..command_counter
      BY DEF IInv, TypeInv, WorkerInv
    <3>2. command_counter \in 0..MaxCommands /\ MaxCommands \in Nat
      BY ConstantsAssumption DEF IInv, TypeInv, TypeOK, CmdTypes
    <3> QED
      BY <1>1, <3>1, <3>2 DEF Cmds
  <2> QED
    BY <1>3, <1>4, <2>1 DEF FInv, UserWorks, Busy
<1>w. WantedOnly'
  BY <1>4, WantedStays
<1>8. FInv'
  BY <1>5, <1>6, <1>7, <1>w DEF FInv
<1>9. /\ [q \in Queues |-> Ring(q)]' = [q \in Queues |-> Ring(q)]
      /\ [p \in Pollers |-> Taken(p)]' = [p \in Pollers |-> Taken(p)]
      /\ queues' = queues /\ log' = log
  BY <1>3, <1>5, MapFrame
<1>10. Unasked' = Unasked \ {n} /\ n \in Unasked
  BY <1>2, <1>4 DEF Unasked
<1>11. Waits' = Waits
  BY <1>2, <1>3, <1>4, Zenon DEF Waits
<1>12. Announced' = Announced
  <2>1. pending_commands \subseteq Cmds
    BY DEF IInv, TypeInv, TypeOK, QueueTypes
  <2>2. \A c \in pending_commands : cmd'[c] = cmd[c]
    BY <1>2, <1>4, <2>1
  <2> QED
    BY <1>3, <2>2, Zenon DEF Announced
<1>13. CASE r.type = CommandType.USER /\ ~r.discard
  <2>1. PICK x \in Queues : x = r.queue_id
    BY <1>13
  <2>2. Due(x)' = Due(x) \cup {n}
    BY <1>2, <1>4, <1>13, <2>1 DEF Due
  <2>3. \A q \in Queues : q # x => Due(q)' = Due(q)
    BY <1>2, <1>4, <2>1 DEF Due
  <2>4. [q \in Queues |-> Due(q)]' = [[q \in Queues |-> Due(q)] EXCEPT ![x] = @ \cup {n}]
    BY <2>2, <2>3
  <2>5. Fifo!Ask(x, n)
    BY <1>9, <1>10, <1>11, <1>12, <2>4 DEF Fifo!Ask
  <2>6. Fifo!FifoNext
    BY <2>5 DEF Fifo!FifoNext
  <2> QED
    BY <1>8, <2>6
<1>14. CASE ~(r.type = CommandType.USER /\ ~r.discard)
  <2>1. \A q \in Queues : Due(q)' = Due(q)
    BY <1>2, <1>4, <1>14 DEF Due
  <2>2. [q \in Queues |-> Due(q)]' = [q \in Queues |-> Due(q)]
    BY <2>1
  <2>3. Fifo!AskNone(n)
    BY <1>9, <1>10, <1>11, <1>12, <2>2 DEF Fifo!AskNone
  <2>4. Fifo!FifoNext
    BY <2>3 DEF Fifo!FifoNext
  <2> QED
    BY <1>8, <2>4
<1> QED
  BY <1>13, <1>14

(* Steps that only concern one command's code or data, or nothing at all. *)
LEMMA IdleStep ==
  ASSUME IInv, FInv, Looks,
         UNCHANGED <<fate, cmd, pending, pending_commands, results, res, kept, log, ppc, pgen,
                     queues, gen>>,
         wpc' \in Busy => wpc \in Busy /\ wcmd' = wcmd, wpc' = "emplace" => wpc = "emplace"
  PROVE  FInv' /\ UNCHANGED Fifo!fifoVars
<1>1. /\ looked' = looked
      /\ NodesGone' /\ PollsEmpty' /\ OnePopper' /\ GoneEmpty' /\ LookInv'
  BY LookFrame
<1>2. KeptListed' /\ UnaskedIdle' /\ UserWorks'
  <2>1. KeptListed' /\ UnaskedIdle'
    BY DEF FInv, KeptListed, UnaskedIdle
  <2>2. UserWorks'
    BY DEF FInv, UserWorks, Busy
  <2> QED
    BY <2>1, <2>2
<1>3. /\ [q \in Queues |-> Ring(q)]' = [q \in Queues |-> Ring(q)]
      /\ [p \in Pollers |-> Taken(p)]' = [p \in Pollers |-> Taken(p)]
  BY <1>1, MapFrame
<1>4. Unasked' = Unasked /\ Waits' = Waits /\ Announced' = Announced
      /\ [q \in Queues |-> Due(q)]' = [q \in Queues |-> Due(q)]
  BY DEF Unasked, Waits, Announced, Due
<1>5. WantedOnly'
  BY WantedStays
<1> QED
  BY <1>1, <1>2, <1>3, <1>4, <1>5 DEF FInv, Fifo!fifoVars

(* The pending flag of a command the worker runs, or cleared by the game loop. *)
LEMMA FlagStep ==
  ASSUME IInv, FInv, Looks, NEW c \in Cmds, NEW v \in BOOLEAN,
         pending' = [pending EXCEPT ![c] = v],
         v => fate[c] = "running" /\ cmd[c].type = CommandType.USER /\ cmd[c].queue_id \in Queues,
         UNCHANGED <<fate, cmd, wcmd, pending_commands, results, res, kept, log, ppc, pgen,
                     queues, gen>>,
         wpc' \in Busy => wpc \in Busy, wpc' = "emplace" => wpc = "emplace"
  PROVE  FInv' /\ [Fifo!FifoNext]_(Fifo!fifoVars)
<1>1. /\ looked' = looked
      /\ NodesGone' /\ PollsEmpty' /\ OnePopper' /\ GoneEmpty' /\ LookInv'
  BY LookFrame
<1>2. /\ (pending'[c] <=> v) /\ \A d \in Cmds : d # c => (pending'[d] <=> pending[d])
  BY DEF IInv, TypeInv, TypeOK, CmdTypes
<1>3. KeptListed' /\ UnaskedIdle' /\ UserWorks'
  <2>1. KeptListed' /\ UserWorks'
    BY DEF FInv, KeptListed, UserWorks
  <2>2. ASSUME NEW d \in Cmds, fate'[d] = "unused" PROVE ~pending'[d]
    <3>1. ~pending[d] /\ fate[d] = "unused"
      BY <2>2 DEF FInv, UnaskedIdle
    <3> QED
      BY <1>2, <3>1
  <2> QED
    BY <2>1, <2>2 DEF UnaskedIdle
<1>w. WantedOnly'
  BY WantedStays
<1>4. FInv'
  BY <1>1, <1>3, <1>w DEF FInv
<1>5. /\ [q \in Queues |-> Ring(q)]' = [q \in Queues |-> Ring(q)]
      /\ [p \in Pollers |-> Taken(p)]' = [p \in Pollers |-> Taken(p)]
  BY <1>1, MapFrame
<1>6. Unasked' = Unasked /\ Announced' = Announced
      /\ [q \in Queues |-> Due(q)]' = [q \in Queues |-> Due(q)]
  BY DEF Unasked, Announced, Due
<1>7. CASE v /\ ~cmd[c].discard
  <2>1. Waits' = Waits \cup {c}
    BY <1>2, <1>7, Zenon DEF Waits
  <2>2. PICK x \in Queues : x = cmd[c].queue_id
    BY <1>7
  <2>3. c \in Due(x)
    BY <1>7, <2>2 DEF Due
  <2>4. Fifo!Defer(x, c)
    BY <1>5, <1>6, <2>1, <2>3 DEF Fifo!Defer
  <2>5. Fifo!FifoNext
    BY <2>4 DEF Fifo!FifoNext
  <2> QED
    BY <1>4, <2>5
<1>8. CASE ~(v /\ ~cmd[c].discard)
  <2>1. Waits' = Waits \ {c}
    <3>1. ASSUME NEW d \in Cmds PROVE d \in Waits' <=> d \in Waits /\ d # c
      BY <1>2, <1>8, <3>1, Zenon DEF Waits
    <3>2. Waits' \subseteq Cmds /\ Waits \subseteq Cmds
      BY DEF Waits
    <3> QED
      BY <3>1, <3>2
  <2>2. Fifo!Finish(c)
    BY <1>5, <1>6, <2>1 DEF Fifo!Finish
  <2>3. Fifo!FifoNext
    BY <2>2 DEF Fifo!FifoNext
  <2> QED
    BY <1>4, <2>3
<1> QED
  BY <1>7, <1>8

-----------------------------------------------------------------------------
(* The worker *)

(* What every worker step has: the command it holds was asked for. *)
LEMMA WorkerHolds ==
  ASSUME IInv, FInv, wpc \in Busy
  PROVE  /\ wcmd \in Cmds /\ fate[wcmd] = "running" /\ cmd[wcmd].type = CommandType.USER
         /\ cmd[wcmd].queue_id \in Queues
<1>1. wcmd \in 1..command_counter /\ command_counter \in 0..MaxCommands /\ MaxCommands \in Nat
  BY ConstantsAssumption DEF IInv, TypeInv, TypeOK, CmdTypes, WorkerInv
<1>2. wcmd \in Cmds
  BY <1>1 DEF Cmds
<1> QED
  BY <1>2 DEF IInv, WorkerOwns, TypeInv, WorkerInv, FInv, UserWorks

(* A command changes its place outside the queues and the polls. *)
LEMMA PlaceStep ==
  ASSUME IInv, FInv, Looks, NEW c \in Cmds, NEW f \in Fates \ {"unused", "queued", "popping"},
         fate' = [fate EXCEPT ![c] = f], fate[c] # "unused",
         UNCHANGED <<cmd, pending, pending_commands, results, res, kept, log, ppc, pgen,
                     queues, gen>>,
         wpc' \in Busy => cmd[wcmd'].type = CommandType.USER, wpc' # "emplace"
  PROVE  /\ FInv' /\ Unasked' = Unasked /\ Waits' = Waits /\ Announced' = Announced
         /\ [q \in Queues |-> Ring(q)]' = [q \in Queues |-> Ring(q)]
         /\ [p \in Pollers |-> Taken(p)]' = [p \in Pollers |-> Taken(p)]
         /\ fate'[c] = f /\ \A d \in Cmds : d # c => fate'[d] = fate[d]
<1>1. /\ looked' = looked
      /\ NodesGone' /\ PollsEmpty' /\ OnePopper' /\ GoneEmpty' /\ LookInv'
  BY LookFrame
<1>2. fate'[c] = f /\ \A d \in Cmds : d # c => fate'[d] = fate[d]
  BY DEF IInv, TypeInv, TypeOK, HistTypes
<1>3. KeptListed' /\ UserWorks'
  BY DEF FInv, KeptListed, UserWorks
<1>4. UnaskedIdle'
  BY <1>2 DEF FInv, UnaskedIdle
<1>5. /\ [q \in Queues |-> Ring(q)]' = [q \in Queues |-> Ring(q)]
      /\ [p \in Pollers |-> Taken(p)]' = [p \in Pollers |-> Taken(p)]
  BY <1>1, MapFrame
<1>6. Unasked' = Unasked
  BY <1>2 DEF Unasked
<1>7. Waits' = Waits /\ Announced' = Announced
  BY DEF Waits, Announced
<1>8. WantedOnly'
  BY <1>2, WantedStays
<1> QED
  BY <1>1, <1>2, <1>3, <1>4, <1>5, <1>6, <1>7, <1>8 DEF FInv

(* emplace_user_command starts, or SHUTDOWN ends the worker: no result is    *)
(* concerned.                                                                *)
LEMMA TakeStep ==
  ASSUME IInv, FInv, Looks, NEW c \in Cmds, WorkerRuns(c) \/ WorkerShutsDown(c)
  PROVE  FInv' /\ UNCHANGED Fifo!fifoVars
<1> USE DEF queueVars, gameVars, pollVars
<1>1. c \in work_queue /\ fate[c] = "work"
  BY DEF WorkerRuns, WorkerShutsDown, WorkerTakes, IsTop, IInv, WorkerOwns
<1>2. UNCHANGED <<cmd, pending, pending_commands, results, res, kept, log, ppc, pgen,
                  queues, gen>>
  BY DEF WorkerRuns, WorkerShutsDown, WorkerTakes
<1>3. PICK f \in {"running", "done"} :
        /\ fate' = [fate EXCEPT ![c] = f]
        /\ f = "done" => cmd[c].type # CommandType.USER
        /\ wpc' \in Busy => cmd[wcmd'].type = CommandType.USER
        /\ wpc' # "emplace"
  <2>1. CASE WorkerRuns(c)
    BY <2>1 DEF WorkerRuns, WorkerTakes
  <2>2. CASE WorkerShutsDown(c)
    BY <2>2 DEF WorkerShutsDown, WorkerTakes, Busy, Inactive, CommandType
  <2> QED
    BY <2>1, <2>2
<1>4. f \in Fates \ {"unused", "queued", "popping"}
  BY DEF Fates
<1>5. /\ FInv' /\ Unasked' = Unasked /\ Waits' = Waits /\ Announced' = Announced
      /\ [q \in Queues |-> Ring(q)]' = [q \in Queues |-> Ring(q)]
      /\ [p \in Pollers |-> Taken(p)]' = [p \in Pollers |-> Taken(p)]
      /\ fate'[c] = f /\ \A d \in Cmds : d # c => fate'[d] = fate[d]
  BY <1>1, <1>2, <1>3, <1>4, PlaceStep
<1>6. \A q \in Queues : Due(q)' = Due(q)
  BY <1>1, <1>2, <1>3, <1>5 DEF Due
<1>7. [q \in Queues |-> Due(q)]' = [q \in Queues |-> Due(q)]
  BY <1>6
<1> QED
  BY <1>2, <1>5, <1>7 DEF Fifo!fifoVars

(* "queue not found, result discarded". *)
LEMMA DropStep ==
  ASSUME IInv, FInv, Looks, EmplaceNoQueue
  PROVE  FInv' /\ [Fifo!FifoNext]_(Fifo!fifoVars)
<1> USE DEF cmdVars, queueVars, gameVars, pollVars
<1>1. wpc \in Busy
  BY DEF EmplaceNoQueue, Busy
<1>2. PICK c \in Cmds, x \in Queues : c = wcmd /\ x = cmd[wcmd].queue_id
  BY <1>1, WorkerHolds
<1>3. fate[c] = "running" /\ cmd[c].type = CommandType.USER
  BY <1>1, <1>2, WorkerHolds
<1>4. /\ UNCHANGED <<cmd, pending, pending_commands, results, res, kept, log, ppc, pgen,
                     queues, gen>>
      /\ x \notin queues /\ fate' = [fate EXCEPT ![c] = "noqueue"]
      /\ wpc' \notin Busy /\ wpc' # "emplace"
  BY <1>2 DEF EmplaceNoQueue, Busy
<1>5. "noqueue" \in Fates \ {"unused", "queued", "popping"}
  BY DEF Fates, Lost
<1>6. /\ FInv' /\ Unasked' = Unasked /\ Waits' = Waits /\ Announced' = Announced
      /\ [q \in Queues |-> Ring(q)]' = [q \in Queues |-> Ring(q)]
      /\ [p \in Pollers |-> Taken(p)]' = [p \in Pollers |-> Taken(p)]
      /\ fate'[c] = "noqueue" /\ \A d \in Cmds : d # c => fate'[d] = fate[d]
  BY <1>3, <1>4, <1>5, PlaceStep
<1>7. CASE ~cmd[c].discard
  <2>1. Due(x)' = Due(x) \ {c} /\ \A q \in Queues : q # x => Due(q)' = Due(q)
    BY <1>2, <1>4, <1>6 DEF Due
  <2>2. [q \in Queues |-> Due(q)]' = [[q \in Queues |-> Due(q)] EXCEPT ![x] = @ \ {c}]
    BY <2>1
  <2>3. c \in Due(x)
    BY <1>2, <1>3, <1>7 DEF Due
  <2>4. Fifo!Drop(x, c)
    BY <1>4, <1>6, <2>2, <2>3 DEF Fifo!Drop
  <2>5. Fifo!FifoNext
    BY <2>4 DEF Fifo!FifoNext
  <2> QED
    BY <1>6, <2>5
<1>8. CASE cmd[c].discard
  <2>1. \A q \in Queues : Due(q)' = Due(q)
    BY <1>4, <1>6, <1>8 DEF Due
  <2>2. [q \in Queues |-> Due(q)]' = [q \in Queues |-> Due(q)]
    BY <2>1
  <2> QED
    BY <1>4, <1>6, <2>2 DEF Fifo!fifoVars
<1> QED
  BY <1>7, <1>8

(* The pending check: the id of a pending result is announced. *)
LEMMA CheckStep ==
  ASSUME IInv, FInv, Looks, CheckPending
  PROVE  FInv' /\ [Fifo!FifoNext]_(Fifo!fifoVars)
<1> USE DEF cmdVars, queueVars, gameVars, pollVars
<1>1. wpc \in Busy
  BY DEF CheckPending, Busy
<1>2. PICK c \in Cmds, x \in Queues : c = wcmd /\ x = cmd[wcmd].queue_id
  BY <1>1, WorkerHolds
<1>3. fate[c] = "running" /\ cmd[c].type = CommandType.USER
  BY <1>1, <1>2, WorkerHolds
<1>4. /\ UNCHANGED <<cmd, pending, results, res, kept, log, ppc, pgen, queues, gen>>
      /\ pending_commands' = IF pending[c] THEN pending_commands \cup {c} ELSE pending_commands
  BY <1>2 DEF CheckPending, NotedPending
<1>5. /\ looked' = looked
      /\ NodesGone' /\ PollsEmpty' /\ OnePopper' /\ GoneEmpty' /\ LookInv'
  BY <1>4, LookFrame
<1>6. /\ [q \in Queues |-> Ring(q)]' = [q \in Queues |-> Ring(q)]
      /\ [p \in Pollers |-> Taken(p)]' = [p \in Pollers |-> Taken(p)]
  BY <1>4, <1>5, MapFrame
<1>7. KeptListed'
  BY <1>4 DEF FInv, KeptListed
<1>8. Waits' = Waits
  BY <1>4 DEF Waits
<1>9. CASE cmd[c].discard
  <2>1. fate' = [fate EXCEPT ![c] = "discarded"] /\ wpc' \notin Busy
    BY <1>2, <1>9 DEF CheckPending, Busy
  <2>2. fate'[c] = "discarded" /\ \A d \in Cmds : d # c => fate'[d] = fate[d]
    BY <2>1 DEF IInv, TypeInv, TypeOK, HistTypes
  <2>3. UserWorks' /\ UnaskedIdle'
    BY <1>4, <2>1, <2>2 DEF UserWorks, FInv, UnaskedIdle, Busy
  <2>w. WantedOnly'
    BY <1>4, <2>2, WantedStays
  <2>4. Unasked' = Unasked /\ \A q \in Queues : Due(q)' = Due(q)
    BY <1>3, <1>4, <1>9, <2>2 DEF Unasked, Due
  <2>5. Announced' = Announced
    BY <1>4, <1>9 DEF Announced
  <2>6. [q \in Queues |-> Due(q)]' = [q \in Queues |-> Due(q)]
    BY <2>4
  <2> QED
    BY <1>4, <1>5, <1>6, <1>7, <1>8, <2>3, <2>4, <2>5, <2>6, <2>w DEF FInv, Fifo!fifoVars
<1>10. CASE ~cmd[c].discard
  <2>1. fate' = fate /\ wcmd' = wcmd
    BY <1>2, <1>10 DEF CheckPending
  <2>2. UserWorks' /\ UnaskedIdle'
    BY <1>1, <1>2, <1>4, <1>10, <2>1 DEF UserWorks, FInv, UnaskedIdle
  <2>3. Unasked' = Unasked /\ [q \in Queues |-> Due(q)]' = [q \in Queues |-> Due(q)]
    BY <1>4, <2>1 DEF Unasked, Due
  <2>w. WantedOnly'
    BY <1>4, <2>1, WantedStays
  <2>4. FInv'
    BY <1>5, <1>7, <2>2, <2>w DEF FInv
  <2>5. CASE pending[c]
    <3>1. Announced' = Announced \cup {c}
      BY <1>4, <1>10, <2>5 DEF Announced
    <3>2. c \in Due(x) /\ c \in Waits
      <4>1. c \in Due(x)
        BY <1>2, <1>3, <1>10 DEF Due
      <4>2. c \in Waits
        BY <1>10, <2>5, Zenon DEF Waits
      <4> QED
        BY <4>1, <4>2
    <3>3. Fifo!Announce(x, c)
      BY <1>4, <1>6, <1>8, <2>3, <3>1, <3>2 DEF Fifo!Announce
    <3>4. Fifo!FifoNext
      BY <3>3 DEF Fifo!FifoNext
    <3> QED
      BY <2>4, <3>4
  <2>6. CASE ~pending[c]
    <3>1. Announced' = Announced
      BY <1>4, <2>6 DEF Announced
    <3> QED
      BY <1>4, <1>6, <1>8, <2>3, <2>4, <3>1 DEF Fifo!fifoVars
  <2> QED
    BY <2>5, <2>6
<1> QED
  BY <1>9, <1>10

(* results_queue_.at(queue_id)->emplace(cmd): no pop is under way, so the    *)
(* ring is the queue, and a full one drops its oldest result.                *)
LEMMA PutStep ==
  ASSUME IInv, FInv, Looks, EmplaceResult
  PROVE  FInv' /\ Fifo!FifoNext
<1> USE DEF cmdVars, queueVars, gameVars, pollVars
<1>t. /\ QueueTypes /\ results \in [Queues -> Seq(Cmds)] /\ looked \in [Queues -> Seq(Cmds)]
      /\ fate \in [Cmds -> Fates]
  BY DEF IInv, TypeInv, TypeOK, QueueTypes, HistTypes, FInv, LookInv
<1>1. wpc \in Busy
  BY DEF EmplaceResult, Busy
<1>2. PICK c \in Cmds, x \in Queues : c = wcmd /\ x = cmd[wcmd].queue_id
  BY <1>1, WorkerHolds
<1>3. fate[c] = "running" /\ cmd[c].type = CommandType.USER /\ ~cmd[c].discard
  BY <1>1, <1>2, WorkerHolds DEF EmplaceResult, FInv, UserWorks
<1>4. /\ UNCHANGED <<cmd, pending, pending_commands, res, kept, log, ppc, pgen, queues, gen>>
      /\ x \in queues /\ ~Locked(x) /\ wpc' \notin Busy /\ wpc' # "emplace"
      /\ results' = [results EXCEPT ![x] = RingEmplace(@, c)]
  BY <1>2 DEF EmplaceResult, Busy
<1>5. /\ fate'[c] = "queued"
      /\ \A d \in Cmds : d # c => fate'[d] = fate[d] \/ (fate[d] = "queued" /\ fate'[d] = "evicted")
  <2>1. fate' = [d \in Cmds |-> IF d = c THEN "queued"
                   ELSE IF RingEvicts(results[x]) /\ d = Head(results[x]) THEN "evicted"
                   ELSE fate[d]]
    BY <1>2 DEF EmplaceResult
  <2>2. RingEvicts(results[x]) => fate[Head(results[x])] = "queued"
    <3>1. results[x] \in Seq(Cmds) /\ QueueOwns
      BY <1>t DEF IInv
    <3>2. RingEvicts(results[x]) => 1 \in 1..Len(results[x]) /\ Head(results[x]) = results[x][1]
      BY <3>1, ConstantsAssumption DEF RingEvicts
    <3> QED
      BY <3>1, <3>2 DEF QueueOwns
  <2>3. ASSUME NEW d \in Cmds, d # c
        PROVE  fate'[d] = fate[d] \/ (fate[d] = "queued" /\ fate'[d] = "evicted")
    <3>0. fate'[d] = IF RingEvicts(results[x]) /\ d = Head(results[x]) THEN "evicted" ELSE fate[d]
      BY <2>1, <2>3, Zenon
    <3>1. CASE RingEvicts(results[x]) /\ d = Head(results[x])
      BY <2>2, <3>0, <3>1
    <3>2. CASE ~(RingEvicts(results[x]) /\ d = Head(results[x]))
      <4>1. fate'[d] = fate[d]
        BY <2>1, <2>3, <3>2, Zenon
      <4> QED
        BY <4>1
    <3> QED
      BY <3>1, <3>2
  <2> QED
    BY <2>1, <2>3
<1>6. /\ results'[x] = RingEmplace(results[x], c)
      /\ \A q \in Queues : q # x => results'[q] = results[q]
  BY <1>t, <1>4
<1>7. /\ \A p \in Pollers : (Moving(p)' <=> Moving(p)) /\ (SameNode(p)' <=> SameNode(p))
      /\ \A q \in Queues : (Locked(q)' <=> Locked(q))
  BY <1>4 DEF Moving, SameNode, Locked
<1>8. looked' = looked /\ looked[x] = <<>>
  <2>1. \A q \in Queues : ~Locked(q) => looked[q] = <<>>
    BY DEF FInv, LookInv
  <2>2. ASSUME NEW q \in Queues PROVE looked'[q] = looked[q]
    BY <1>4, <1>6, <1>7, <2>1 DEF Looks
  <2>3. looked' = [q \in Queues |-> looked'[q]] /\ looked = [q \in Queues |-> looked[q]]
    BY <1>t DEF Looks
  <2> QED
    BY <1>4, <2>1, <2>2, <2>3
<1>9. NodesGone' /\ PollsEmpty' /\ OnePopper' /\ KeptListed'
  BY <1>4, <1>7 DEF FInv, NodesGone, PollsEmpty, OnePopper, KeptListed
<1>10. GoneEmpty'
  BY <1>4, <1>6 DEF FInv, GoneEmpty
<1>11. UserWorks' /\ UnaskedIdle'
  BY <1>4, <1>5 DEF UserWorks, FInv, UnaskedIdle
<1>12. LookInv'
  BY <1>4, <1>7, <1>8 DEF FInv, LookInv, Sorted
<1>w. WantedOnly'
  BY <1>3, <1>4, <1>5, WantedStays
<1>13. FInv'
  BY <1>9, <1>10, <1>11, <1>12, <1>w DEF FInv
<1>14. Ring(x) = results[x] /\ Ring(x)' = RingEmplace(results[x], c)
  <2>1. results[x] \in Seq(Cmds) /\ results'[x] \in Seq(Cmds)
    <3>1. results[x] \in Seq(Cmds)
      BY <1>t
    <3>2. RingEvicts(results[x]) => results[x] # <<>>
      BY <3>1, ConstantsAssumption DEF RingEvicts
    <3>3. (IF RingEvicts(results[x]) THEN Tail(results[x]) ELSE results[x]) \in Seq(Cmds)
      BY <3>1, <3>2
    <3> QED
      BY <1>6, <3>1, <3>3 DEF RingEmplace
  <2>2. \A s \in Seq(Cmds) : s \o <<>> = s
    BY ConcatEmptySeq
  <2>3. Ring(x) = results[x] \o <<>> /\ Ring(x)' = results'[x] \o <<>>
    BY <1>8, ReverseEmpty DEF Ring
  <2> QED
    BY <1>6, <2>1, <2>2, <2>3
<1>15. \A q \in Queues : q # x => Ring(q)' = Ring(q)
  BY <1>6, <1>8 DEF Ring
<1>16. [q \in Queues |-> Ring(q)]' = [[q \in Queues |-> Ring(q)] EXCEPT
          ![x] = Append(IF Len(@) >= QueueSize THEN Tail(@) ELSE @, c)]
  <2>1. Ring(x)' = Append(IF Len(Ring(x)) >= QueueSize THEN Tail(Ring(x)) ELSE Ring(x), c)
    BY <1>14 DEF RingEmplace, RingEvicts
  <2> QED
    BY <1>15, <2>1
<1>17. [p \in Pollers |-> Taken(p)]' = [p \in Pollers |-> Taken(p)]
  BY <1>4, <1>7 DEF Taken
<1>18. Unasked' = Unasked
  <2>1. \A d \in Cmds : fate'[d] = "unused" <=> fate[d] = "unused"
    BY <1>3, <1>5
  <2> QED
    BY <2>1 DEF Unasked
<1>19. Waits' = Waits /\ Announced' = Announced
  BY <1>4 DEF Waits, Announced
<1>20. [q \in Queues |-> Due(q)]' = [[q \in Queues |-> Due(q)] EXCEPT ![x] = @ \ {c}]
  <2>1. \A d \in Cmds : fate'[d] \in {"work", "running"} <=> fate[d] \in {"work", "running"} /\ d # c
    BY <1>5
  <2>2. Due(x)' = Due(x) \ {c} /\ \A q \in Queues : q # x => Due(q)' = Due(q)
    BY <1>2, <1>4, <2>1 DEF Due
  <2> QED
    BY <2>2
<1>21. c \in Due(x)
  BY <1>2, <1>3 DEF Due
<1>22. Fifo!Put(x, c)
  BY <1>4, <1>16, <1>17, <1>18, <1>19, <1>20, <1>21 DEF Fifo!Put
<1> QED
  BY <1>13, <1>22 DEF Fifo!FifoNext

(* CREATE_QUEUE.  A poll that refers to a destroyed node does not find it    *)
(* again.                                                                    *)
LEMMA CreateStep ==
  ASSUME IInv, FInv, Looks, NEW c \in Cmds, WorkerCreatesQueue(c)
  PROVE  FInv' /\ Fifo!FifoNext
<1> USE DEF cmdVars, queueVars, gameVars, pollVars
<1>t. /\ QueueTypes /\ looked \in [Queues -> Seq(Cmds)] /\ fate \in [Cmds -> Fates] /\ PollTypes
      /\ PollerQueue \in [Pollers -> Queues] /\ gen \in [Queues -> Nat]
  BY ConstantsAssumption DEF IInv, TypeInv, TypeOK, QueueTypes, HistTypes, FInv, LookInv
<1>1. /\ c \in work_queue /\ cmd[c].type = CommandType.CREATE_QUEUE
      /\ UNCHANGED <<cmd, pending, pending_commands, results, res, kept, log, ppc, pgen, gen,
                     wpc, wcmd>>
      /\ queues' = queues \cup {cmd[c].queue_id} /\ fate' = [fate EXCEPT ![c] = "done"]
  BY DEF WorkerCreatesQueue, WorkerTakes, IsTop
<1>2. PICK x \in Queues : x = cmd[c].queue_id
  BY <1>1 DEF IInv, TypeInv, WorkerInv, CommandType
<1>3. fate[c] = "work" /\ fate'[c] = "done" /\ \A d \in Cmds : d # c => fate'[d] = fate[d]
  BY <1>t, <1>1 DEF IInv, WorkerOwns
<1>4. ASSUME NEW p \in Pollers PROVE Moving(p)' <=> Moving(p)
  <2>1. PollerQueue[p] \in Queues /\ gen[PollerQueue[p]] \in Nat /\ pgen[p] \in Nat
    BY <1>t DEF PollTypes
  <2>2. ppc[p] = "popping" /\ PollerQueue[p] \notin queues => pgen[p] # gen[PollerQueue[p]]
    BY <2>1 DEF FInv, NodesGone
  <2> QED
    BY <1>1, <2>2 DEF Moving, SameNode
<1>5. \A q \in Queues : Locked(q)' <=> Locked(q)
  <2>1. \A q \in Queues : Locked(q)' <=> \E p \in Pollers : PollerQueue[p] = q /\ Moving(p)'
    BY DEF Locked, Moving
  <2> QED
    BY <1>4, <2>1, LockedBy
<1>6. looked' = looked
  <2>1. \A q \in Queues : ~Locked(q) => looked[q] = <<>>
    BY DEF FInv, LookInv
  <2>2. ASSUME NEW q \in Queues PROVE looked'[q] = looked[q]
    BY <1>1, <1>5, <2>1 DEF Looks
  <2>3. looked' = [q \in Queues |-> looked'[q]] /\ looked = [q \in Queues |-> looked[q]]
    BY <1>t DEF Looks
  <2> QED
    BY <2>2, <2>3
<1>7. NodesGone' /\ PollsEmpty' /\ KeptListed' /\ GoneEmpty'
  BY <1>1 DEF FInv, NodesGone, PollsEmpty, KeptListed, GoneEmpty
<1>8. OnePopper'
  BY <1>4 DEF FInv, OnePopper
<1>9. UserWorks' /\ UnaskedIdle'
  BY <1>1, <1>3 DEF UserWorks, FInv, UnaskedIdle
<1>10. LookInv'
  BY <1>1, <1>4, <1>5, <1>6 DEF FInv, LookInv, Sorted
<1>w. WantedOnly'
  BY <1>1, <1>3, WantedStays
<1>11. FInv'
  BY <1>7, <1>8, <1>9, <1>10, <1>w DEF FInv
<1>12. [q \in Queues |-> Ring(q)]' = [q \in Queues |-> Ring(q)]
  BY <1>1, <1>6 DEF Ring
<1>13. [p \in Pollers |-> Taken(p)]' = [p \in Pollers |-> Taken(p)]
  BY <1>1, <1>4 DEF Taken
<1>14. Unasked' = Unasked /\ Waits' = Waits /\ Announced' = Announced
  BY <1>1, <1>3 DEF Unasked, Waits, Announced
<1>15. \A q \in Queues : Due(q)' = Due(q)
  BY <1>1, <1>3 DEF Due, CommandType
<1>16. [q \in Queues |-> Due(q)]' = [q \in Queues |-> Due(q)]
  BY <1>15
<1>17. Fifo!Create(x)
  BY <1>1, <1>2, <1>12, <1>13, <1>14, <1>16 DEF Fifo!Create
<1> QED
  BY <1>11, <1>17 DEF Fifo!FifoNext

(* DESTROY_QUEUE: the ring goes; the poll that was emptying it is left with  *)
(* what it had moved to res.                                                 *)
LEMMA DestroyStep ==
  ASSUME IInv, FInv, Looks, NEW c \in Cmds, WorkerDestroysQueue(c)
  PROVE  FInv' /\ [Fifo!FifoNext]_(Fifo!fifoVars)
<1> USE DEF cmdVars, queueVars, gameVars, pollVars
<1>t. /\ results \in [Queues -> Seq(Cmds)] /\ looked \in [Queues -> Seq(Cmds)]
      /\ fate \in [Cmds -> Fates] /\ PollerQueue \in [Pollers -> Queues]
      /\ gen \in [Queues -> Nat] /\ pgen \in [Pollers -> Nat]
      /\ res \in [Pollers -> Seq(Cmds)] /\ kept \in [Pollers -> Seq(Cmds)]
  BY ConstantsAssumption DEF IInv, TypeInv, TypeOK, QueueTypes, PollTypes, HistTypes, FInv, LookInv
<1>1. /\ c \in work_queue /\ cmd[c].type = CommandType.DESTROY_QUEUE
      /\ UNCHANGED <<cmd, pending, pending_commands, res, kept, log, ppc, pgen, wpc, wcmd>>
  BY DEF WorkerDestroysQueue, WorkerTakes, IsTop
<1>2. PICK x \in Queues : x = cmd[c].queue_id
  <2>1. CommandType.DESTROY_QUEUE # CommandType.SHUTDOWN
    BY DEF CommandType
  <2>2. cmd[c].queue_id \in Queues
    BY <1>1, <2>1 DEF IInv, TypeInv, WorkerInv
  <2> QED
    BY <2>2
<1>3. /\ queues' = queues \ {x}
      /\ gen' = IF x \in queues THEN [gen EXCEPT ![x] = @ + 1] ELSE gen
      /\ results' = [results EXCEPT ![x] = <<>>]
      /\ fate' = [d \in Cmds |-> IF d = c THEN "done"
                               ELSE IF d \in ToSet(results[x]) THEN "destroyed" ELSE fate[d]]
  BY <1>2 DEF WorkerDestroysQueue
<1>4. fate[c] = "work" /\ \A d \in ToSet(results[x]) : d \in Cmds => fate[d] = "queued"
  BY <1>1, Places DEF IInv, WorkerOwns
<1>5. /\ fate'[c] = "done"
      /\ \A d \in Cmds : d # c => fate'[d] = fate[d] \/ (fate[d] = "queued" /\ fate'[d] = "destroyed")
  <2>1. fate'[c] = "done"
    BY <1>3
  <2>2. ASSUME NEW d \in Cmds, d # c
        PROVE  fate'[d] = fate[d] \/ (fate[d] = "queued" /\ fate'[d] = "destroyed")
    <3>0. fate'[d] = IF d \in ToSet(results[x]) THEN "destroyed" ELSE fate[d]
      BY <1>3, <2>2, Zenon
    <3>1. CASE d \in ToSet(results[x])
      BY <1>4, <3>0, <3>1
    <3>2. CASE d \notin ToSet(results[x])
      <4>1. fate'[d] = fate[d]
        BY <1>3, <2>2, <3>2, Zenon
      <4> QED
        BY <4>1
    <3> QED
      BY <3>1, <3>2
  <2> QED
    BY <2>1, <2>2
<1>6. /\ results'[x] = <<>>
      /\ \A q \in Queues : q # x => results'[q] = results[q] /\ gen'[q] = gen[q]
      /\ \A q \in Queues : q # x => (q \in queues' <=> q \in queues)
      /\ gen'[x] \in Nat /\ (x \in queues => gen'[x] = gen[x] + 1)
  BY <1>t, <1>3
<1>7. /\ \A p \in Pollers : PollerQueue[p] # x => (Moving(p)' <=> Moving(p))
      /\ \A p \in Pollers : PollerQueue[p] = x => ~Moving(p)'
  BY <1>t, <1>1, <1>3, <1>6 DEF Moving, SameNode
<1>8. ~Locked(x)' /\ \A q \in Queues : q # x => (Locked(q)' <=> Locked(q))
  <2>1. \A q \in Queues : Locked(q)' <=> \E p \in Pollers : PollerQueue[p] = q /\ Moving(p)'
    BY DEF Locked, Moving
  <2> QED
    BY <1>7, <2>1, LockedBy
<1>9. looked'[x] = <<>> /\ \A q \in Queues : q # x => looked'[q] = looked[q]
  <2>1. \A q \in Queues : ~Locked(q) => looked[q] = <<>>
    BY DEF FInv, LookInv
  <2>2. ASSUME NEW q \in Queues, q # x PROVE looked'[q] = looked[q]
    BY <1>6, <1>8, <2>1, <2>2 DEF Looks
  <2> QED
    BY <1>8, <2>2 DEF Looks
<1>10. NodesGone'
  <2> SUFFICES ASSUME NEW p \in Pollers
               PROVE  /\ pgen'[p] <= gen'[PollerQueue[p]]
                      /\ ppc'[p] \in {"pop", "popping"} /\ PollerQueue[p] \notin queues'
                           => pgen'[p] < gen'[PollerQueue[p]]
    BY DEF NodesGone
  <2>1. /\ PollerQueue[p] \in Queues /\ pgen[p] \in Nat /\ gen[PollerQueue[p]] \in Nat
        /\ pgen[p] <= gen[PollerQueue[p]]
        /\ ppc[p] \in {"pop", "popping"} /\ PollerQueue[p] \notin queues
             => pgen[p] < gen[PollerQueue[p]]
    BY <1>t DEF FInv, NodesGone
  <2>2. x \notin queues => gen'[x] = gen[x]
    BY <1>3
  <2> QED
    BY <1>1, <1>6, <2>1, <2>2
<1>11. PollsEmpty' /\ KeptListed' /\ UserWorks'
  BY <1>1 DEF FInv, PollsEmpty, KeptListed, UserWorks
<1>12. UnaskedIdle'
  BY <1>1, <1>4, <1>5 DEF FInv, UnaskedIdle
<1>13. GoneEmpty'
  BY <1>6 DEF FInv, GoneEmpty
<1>14. OnePopper'
  BY <1>7 DEF FInv, OnePopper
<1>15. LookInv'
  <2>1. looked' \in [Queues -> Seq(Cmds)]
    <3>1. \A q \in Queues : looked'[q] \in Seq(Cmds)
      <4>1. ASSUME NEW q \in Queues, q = x PROVE looked'[q] \in Seq(Cmds)
        <5>1. looked'[q] = <<>>
          BY <1>9, <4>1
        <5> QED
          BY <5>1
      <4>2. ASSUME NEW q \in Queues, q # x PROVE looked'[q] \in Seq(Cmds)
        <5>1. looked'[q] = looked[q] /\ looked[q] \in Seq(Cmds)
          BY <1>t, <1>9, <4>2
        <5> QED
          BY <5>1
      <4> QED
        BY <4>1, <4>2
    <3>2. looked' = [q \in Queues |-> looked'[q]]
      BY DEF Looks
    <3> QED
      BY <3>1, <3>2
  <2>2. \A q \in Queues : ~Locked(q)' => looked'[q] = <<>>
    BY DEF Looks
  <2>3. ASSUME NEW p \in Pollers, Moving(p)' PROVE Sorted(p)'
    <3>1. PollerQueue[p] # x /\ Moving(p) /\ PollerQueue[p] \in Queues
      BY <1>t, <1>7, <2>3
    <3>2. looked'[PollerQueue[p]] = looked[PollerQueue[p]]
      BY <1>9, <3>1
    <3> QED
      BY <1>1, <3>1, <3>2 DEF FInv, LookInv, Sorted
  <2> QED
    BY <2>1, <2>2, <2>3 DEF LookInv
<1>w. WantedOnly'
  BY <1>1, <1>5, WantedStays
<1>16. FInv'
  BY <1>10, <1>11, <1>12, <1>13, <1>14, <1>15, <1>w DEF FInv
<1>17. Unasked' = Unasked /\ [q \in Queues |-> Due(q)]' = [q \in Queues |-> Due(q)]
  <2>1. \A d \in Cmds : fate'[d] = "unused" <=> fate[d] = "unused"
    BY <1>4, <1>5
  <2>2. \A d \in Cmds : d # c => (fate'[d] \in {"work", "running"} <=> fate[d] \in {"work", "running"})
    BY <1>5
  <2>3. cmd[c].type # CommandType.USER
    BY <1>1 DEF CommandType
  <2>4. \A q \in Queues : Due(q)' = Due(q)
    BY <1>1, <2>2, <2>3 DEF Due
  <2>5. Unasked' = Unasked
    BY <2>1 DEF Unasked
  <2> QED
    BY <2>4, <2>5
<1>18. Waits' = Waits /\ Announced' = Announced
  BY <1>1 DEF Waits, Announced
<1>19. Ring(x)' = <<>> /\ \A q \in Queues : q # x => Ring(q)' = Ring(q)
  <2>1. Ring(x)' = <<>> \o <<>>
    BY <1>6, <1>9, ReverseEmpty DEF Ring
  <2>2. <<>> \o <<>> = <<>>
    BY ConcatEmptySeq
  <2> QED
    BY <1>6, <1>9, <2>1, <2>2 DEF Ring
<1>20. [q \in Queues |-> Ring(q)]' = [[q \in Queues |-> Ring(q)] EXCEPT ![x] = <<>>]
  BY <1>19
<1>21. CASE x \notin queues
  <2>1. /\ queues' = queues /\ results[x] = <<>> /\ gen' = gen
    BY <1>3, <1>21 DEF FInv, GoneEmpty
  <2>2. \A p \in Pollers : PollerQueue[p] = x => ~Moving(p)
    BY <1>21 DEF Moving, SameNode
  <2>3. \A p \in Pollers : Moving(p)' <=> Moving(p)
    BY <1>7, <2>2
  <2>4. ~Locked(x)
    BY <2>2, LockedBy
  <2>5. looked[x] = <<>>
    BY <2>4 DEF FInv, LookInv
  <2>6. Ring(x) = <<>>
    BY <2>1, <2>5, ReverseEmpty, ConcatEmptySeq DEF Ring
  <2>7. [q \in Queues |-> Ring(q)]' = [q \in Queues |-> Ring(q)]
    BY <1>19, <2>6
  <2>8. [p \in Pollers |-> Taken(p)]' = [p \in Pollers |-> Taken(p)]
    BY <1>1, <2>3 DEF Taken
  <2> QED
    BY <1>1, <1>16, <1>17, <1>18, <2>1, <2>7, <2>8 DEF Fifo!fifoVars
<1>22. CASE x \in queues /\ ~Locked(x)
  <2>1. \A p \in Pollers : Moving(p)' <=> Moving(p)
    BY <1>7, <1>22, LockedBy
  <2>2. [p \in Pollers |-> Taken(p)]' = [p \in Pollers |-> Taken(p)]
    BY <1>1, <2>1 DEF Taken
  <2>3. Fifo!Destroy(x)
    BY <1>1, <1>3, <1>17, <1>18, <1>20, <1>22, <2>2 DEF Fifo!Destroy
  <2> QED
    BY <1>16, <2>3 DEF Fifo!FifoNext
<1>23. CASE x \in queues /\ Locked(x)
  <2>1. PICK p \in Pollers : PollerQueue[p] = x /\ Moving(p)
    BY <1>23, LockedBy
  <2>2. \A r \in Pollers : r # p => (Moving(r)' <=> Moving(r))
    BY <1>7, <2>1 DEF FInv, OnePopper
  <2>3. PICK s \in Seq(Cmds), t \in Seq(Cmds), a \in Seq(Cmds) :
          s = looked[x] /\ t = res[p] /\ a = results[x]
    BY <1>t
  <2>4. /\ Len(s) = Len(t) + Len(kept[p]) /\ Ordered(t, s)
        /\ ToSet(s) = ToSet(t) \cup ToSet(kept[p])
    BY <2>1, <2>3 DEF FInv, LookInv, Sorted
  <2>5. PICK u \in Seq(Cmds), v \in Seq(Cmds) :
          /\ u = Reverse(t) /\ v = Reverse(s) /\ Len(u) = Len(t) /\ Len(v) = Len(s)
          /\ ToSet(u) = ToSet(t) /\ ToSet(v) = ToSet(s)
    BY ReverseOf, SetOfReverse
  <2>6. Ordered(u, v)
    BY <2>4, <2>5, OrderedReverse
  <2>7. Apart(u, a)
    <3>1. \A i \in 1..Len(a) : fate[a[i]] = "queued"
      BY <2>3 DEF IInv, QueueOwns
    <3>2. \A d \in ToSet(u) : d \in Cmds => fate[d] = "popping"
      BY <2>3, <2>5, Places
    <3>3. \A i \in 1..Len(u) : u[i] \in ToSet(u) /\ u[i] \in Cmds
      BY DEF ToSet
    <3> QED
      BY <3>1, <3>2, <3>3 DEF Apart
  <2>8. PICK w \in Seq(Cmds) : w = Ring(x) /\ w = a \o v /\ Len(w) = Len(a) + Len(v)
    <3>1. a \o v \in Seq(Cmds) /\ Len(a \o v) = Len(a) + Len(v)
      BY ConcatProperties
    <3>2. Ring(x) = a \o v
      BY <2>3, <2>5 DEF Ring
    <3> QED
      BY <3>1, <3>2
  <2>9. Ordered(u, w)
    BY <2>6, <2>7, <2>8, OrderedBehind
  <2>10. ToSet(w) = ToSet(a) \cup ToSet(v)
    BY <2>8, SetOfConcat
  <2>11. Len(u) <= Len(w)
    <3>1. Len(t) \in Nat /\ Len(kept[p]) \in Nat /\ Len(a) \in Nat
      BY <1>t
    <3> QED
      BY <2>4, <2>5, <2>8, <3>1
  <2>12. u \in Fifo!Parts(w)
    BY <2>4, <2>5, <2>9, <2>10, <2>11, FifoOperators
  <2>13. Fifo!ToSet(u) \cap Waits = {}
    <3>1. Fifo!ToSet(u) = ToSet(t)
      BY <2>5, FifoOperators
    <3>2. ASSUME NEW d \in ToSet(t), pending[d] PROVE FALSE
      <4>1. PICK i \in 1..Len(t) : t[i] = d
        BY <3>2, InToSet
      <4>2. ~pending[res[p][i]]
        BY <2>3, Zenon DEF IInv, PollerOwns
      <4> QED
        BY <2>3, <3>2, <4>1, <4>2
    <3> QED
      BY <3>1, <3>2 DEF Waits
  <2>14. Taken(p) = <<>> /\ Taken(p)' = u /\ \A r \in Pollers : r # p => Taken(r)' = Taken(r)
    BY <1>1, <1>7, <2>1, <2>2, <2>3, <2>5 DEF Taken
  <2>15. [r \in Pollers |-> Taken(r)]' = [[r \in Pollers |-> Taken(r)] EXCEPT ![p] = u]
    BY <2>14
  <2>16. u \in Fifo!Parts([q \in Queues |-> Ring(q)][x]) /\ [r \in Pollers |-> Taken(r)][p] = <<>>
    BY <2>8, <2>12, <2>14
  <2>17. Fifo!Destroy(x)
    BY <1>1, <1>3, <1>17, <1>18, <1>20, <1>23, <2>1, <2>13, <2>15, <2>16 DEF Fifo!Destroy
  <2> QED
    BY <1>16, <2>17 DEF Fifo!FifoNext
<1> QED
  BY <1>21, <1>22, <1>23

-----------------------------------------------------------------------------
(* The polls *)

(* find, the wait that times out, and the lock: a poll without results. *)
LEMMA BeginStep ==
  ASSUME IInv, FInv, Looks, NEW p \in Pollers, FlushFinds(p) \/ PopTimesOut(p) \/ PopBegins(p)
  PROVE  FInv' /\ UNCHANGED Fifo!fifoVars
<1> USE DEF cmdVars, workerVars, queueVars, gameVars, pollVars, histVars
<1>t. /\ looked \in [Queues -> Seq(Cmds)] /\ ppc \in [Pollers -> {"idle", "pop", "popping", "erase"}]
      /\ pgen \in [Pollers -> Nat] /\ PollerQueue \in [Pollers -> Queues] /\ gen \in [Queues -> Nat]
  BY ConstantsAssumption DEF IInv, TypeInv, TypeOK, QueueTypes, PollTypes, FInv, LookInv
<1>1. PICK x \in Queues : x = PollerQueue[p]
  BY <1>t
<1>2. /\ UNCHANGED <<cmd, pending, pending_commands, results, res, kept, log, wpc, wcmd,
                     queues, gen, fate>>
      /\ ppc[p] \in {"idle", "pop"}
  BY DEF FlushFinds, PopTimesOut, PopBegins
<1>3. res[p] = <<>> /\ kept[p] = <<>>
  BY <1>2 DEF FInv, PollsEmpty
<1>4. \A r \in Pollers : r # p => ppc'[r] = ppc[r] /\ pgen'[r] = pgen[r]
  BY <1>t DEF FlushFinds, PopTimesOut, PopBegins
<1>5. \A r \in Pollers : r # p => (Moving(r)' <=> Moving(r))
  BY <1>2, <1>4 DEF Moving, SameNode
<1>6. ~Moving(p)
  BY <1>2 DEF Moving
<1>7. Moving(p)' => ~Locked(x)
  BY <1>t, <1>1 DEF FlushFinds, PopTimesOut, PopBegins, Moving
<1>8. \A q \in Queues : Locked(q)' <=> \E r \in Pollers : PollerQueue[r] = q /\ Moving(r)'
  BY DEF Locked, Moving
<1>9. looked' = looked
  <2>1. \A q \in Queues : ~Locked(q) => looked[q] = <<>>
    BY DEF FInv, LookInv
  <2>2. ASSUME NEW q \in Queues PROVE ~Locked(q)' => looked[q] = <<>>
    <3>1. CASE q = x /\ Moving(p)'
      BY <1>1, <1>8, <3>1
    <3>2. CASE ~(q = x /\ Moving(p)')
      BY <1>1, <1>5, <1>6, <1>8, <2>1, <3>2, LockedBy
    <3> QED
      BY <3>1, <3>2
  <2>3. ASSUME NEW q \in Queues PROVE looked'[q] = looked[q]
    BY <1>2, <2>2 DEF Looks
  <2>4. looked' = [q \in Queues |-> looked'[q]] /\ looked = [q \in Queues |-> looked[q]]
    BY <1>t DEF Looks
  <2> QED
    BY <2>3, <2>4
<1>10. NodesGone'
  <2>1. \/ ppc'[p] = "pop" /\ pgen'[p] = gen[x] /\ x \in queues
        \/ ppc'[p] = "idle" /\ pgen'[p] = 0
        \/ ppc'[p] = "popping" /\ ppc[p] = "pop" /\ pgen'[p] = pgen[p]
    BY <1>t, <1>1 DEF FlushFinds, PopTimesOut, PopBegins
  <2>2. gen[x] \in Nat /\ pgen[p] \in Nat
    BY <1>t
  <2>3. /\ pgen'[p] <= gen'[x]
        /\ ppc'[p] \in {"pop", "popping"} /\ x \notin queues' => pgen'[p] < gen'[x]
    <3>1. /\ pgen[p] <= gen[x]
          /\ ppc[p] \in {"pop", "popping"} /\ x \notin queues => pgen[p] < gen[x]
      BY <1>1 DEF FInv, NodesGone
    <3> QED
      BY <1>2, <2>1, <2>2, <3>1
  <2> QED
    BY <1>1, <1>2, <1>4, <2>3 DEF FInv, NodesGone
<1>11. PollsEmpty' /\ KeptListed' /\ UserWorks' /\ UnaskedIdle' /\ GoneEmpty'
  <2>1. PollsEmpty'
    BY <1>2, <1>3, <1>4 DEF FInv, PollsEmpty
  <2>2. KeptListed' /\ UserWorks' /\ UnaskedIdle' /\ GoneEmpty'
    BY <1>2 DEF FInv, KeptListed, UserWorks, UnaskedIdle, GoneEmpty
  <2> QED
    BY <2>1, <2>2
<1>12. OnePopper'
  <2>1. Moving(p)' => \A r \in Pollers : PollerQueue[r] = x => ~Moving(r)
    BY <1>7, LockedBy
  <2> QED
    BY <1>1, <1>5, <2>1 DEF FInv, OnePopper
<1>13. LookInv'
  <2>1. looked' \in [Queues -> Seq(Cmds)]
    BY <1>t, <1>9
  <2>2. \A q \in Queues : ~Locked(q)' => looked'[q] = <<>>
    BY DEF Looks
  <2>3. ASSUME NEW r \in Pollers, r # p, Moving(r)' PROVE Sorted(r)'
    <3>1. Sorted(r)
      BY <1>5, <2>3 DEF FInv, LookInv
    <3> QED
      BY <1>2, <1>9, <3>1 DEF Sorted
  <2>4. ASSUME Moving(p)' PROVE Sorted(p)'
    <3>1. looked[x] = <<>>
      BY <1>7, <2>4 DEF FInv, LookInv
    <3>2. looked'[PollerQueue[p]] = <<>> /\ res'[p] = <<>> /\ kept'[p] = <<>>
      BY <1>1, <1>2, <1>3, <1>9, <3>1
    <3>3. Ordered(<<>>, <<>>) /\ ToSet(<<>>) = {} /\ Len(<<>>) = 0
      BY DEF Ordered, ToSet
    <3>4. 0 = 0 + 0 /\ {} = {} \cup {}
      OBVIOUS
    <3> QED
      BY <3>2, <3>3, <3>4 DEF Sorted
  <2> QED
    BY <2>1, <2>2, <2>3, <2>4 DEF LookInv
<1>w. WantedOnly'
  BY <1>2, WantedStays
<1>14. FInv'
  BY <1>10, <1>11, <1>12, <1>13, <1>w DEF FInv
<1>15. [q \in Queues |-> Ring(q)]' = [q \in Queues |-> Ring(q)]
  BY <1>2, <1>9 DEF Ring
<1>16. [r \in Pollers |-> Taken(r)]' = [r \in Pollers |-> Taken(r)]
  <2>1. Taken(p)' = Taken(p)
    BY <1>2, <1>3, ReverseEmpty DEF Taken
  <2>2. \A r \in Pollers : r # p => Taken(r)' = Taken(r)
    BY <1>2, <1>5 DEF Taken
  <2> QED
    BY <2>1, <2>2
<1>17. Unasked' = Unasked /\ Waits' = Waits /\ Announced' = Announced
       /\ [q \in Queues |-> Due(q)]' = [q \in Queues |-> Due(q)]
  BY <1>2 DEF Unasked, Waits, Announced, Due
<1> QED
  BY <1>2, <1>14, <1>15, <1>16, <1>17 DEF Fifo!fifoVars

(* One turn of the pop's loop: the last result changes hands and the ring    *)
(* stays what it was.                                                        *)
LEMMA LookStep ==
  ASSUME IInv, FInv, Looks, NEW p \in Pollers, PopTakes(p)
  PROVE  FInv' /\ UNCHANGED Fifo!fifoVars
<1> USE DEF cmdVars, workerVars, queueVars, gameVars, pollVars, histVars
<1>t. /\ looked \in [Queues -> Seq(Cmds)] /\ results \in [Queues -> Seq(Cmds)]
      /\ res \in [Pollers -> Seq(Cmds)] /\ kept \in [Pollers -> Seq(Cmds)]
      /\ PollerQueue \in [Pollers -> Queues] /\ fate \in [Cmds -> Fates]
  BY ConstantsAssumption DEF IInv, TypeInv, TypeOK, QueueTypes, PollTypes, HistTypes, FInv, LookInv
<1>1. PICK x \in Queues : x = PollerQueue[p]
  BY <1>t
<1>2. PICK a \in Seq(Cmds), s \in Seq(Cmds), t \in Seq(Cmds), k \in Seq(Cmds) :
        a = results[x] /\ s = looked[x] /\ t = res[p] /\ k = kept[p]
  BY <1>t
<1>3. Moving(p) /\ Len(a) > 0 /\ a # <<>>
  BY <1>1, <1>2 DEF PopTakes, Moving
<1>4. PICK c \in Cmds : c = a[Len(a)]
  BY <1>3
<1>5. /\ UNCHANGED <<cmd, pending, pending_commands, log, wpc, wcmd, queues, gen, ppc, pgen>>
      /\ results' = [results EXCEPT ![x] = Front(@)]
      /\ fate' = [fate EXCEPT ![c] = "popping"]
      /\ res' = IF pending[c] THEN res ELSE [res EXCEPT ![p] = Append(@, c)]
      /\ kept' = IF pending[c] THEN [kept EXCEPT ![p] = Append(@, c)] ELSE kept
  BY <1>1, <1>2, <1>4 DEF PopTakes, Keeps
<1>6. fate[c] = "queued" /\ fate'[c] = "popping" /\ \A d \in Cmds : d # c => fate'[d] = fate[d]
  <2>1. Len(a) \in 1..Len(a)
    BY <1>3
  <2>2. fate[c] = "queued"
    BY <1>2, <1>4, <2>1 DEF IInv, QueueOwns
  <2> QED
    BY <1>t, <1>5, <2>2
<1>7. /\ results'[x] = Front(a) /\ results'[x] # results[x]
      /\ \A q \in Queues : q # x => results'[q] = results[q]
  <2>1. results'[x] = Front(a) /\ \A q \in Queues : q # x => results'[q] = results[q]
    BY <1>t, <1>2, <1>5
  <2>2. Len(Front(a)) = Len(a) - 1
    BY <1>3, FrontType
  <2>3. Front(a) # a
    BY <1>3, <2>2
  <2> QED
    BY <1>2, <2>1, <2>3
<1>8. /\ \A r \in Pollers : Moving(r)' <=> Moving(r)
      /\ \A q \in Queues : Locked(q)' <=> Locked(q)
  BY <1>5 DEF Moving, SameNode, Locked
<1>9. Locked(x)' /\ Locked(x)
  BY <1>1, <1>3, <1>8, LockedBy
<1>10. looked'[x] = Append(s, c) /\ \A q \in Queues : q # x => looked'[q] = looked[q]
  <2>1. \A q \in Queues : ~Locked(q) => looked[q] = <<>>
    BY DEF FInv, LookInv
  <2>2. looked'[x] = Append(looked[x], Last(results[x]))
    BY <1>7, <1>9 DEF Looks
  <2>3. Last(results[x]) = c
    BY <1>2, <1>4 DEF Last
  <2>4. ASSUME NEW q \in Queues, q # x PROVE looked'[q] = looked[q]
    BY <1>7, <1>8, <2>1, <2>4 DEF Looks
  <2> QED
    BY <1>2, <2>2, <2>3, <2>4
<1>11. \A r \in Pollers : r # p => res'[r] = res[r] /\ kept'[r] = kept[r]
  BY <1>t, <1>5
<1>12. NodesGone' /\ OnePopper' /\ UserWorks'
  BY <1>5, <1>8 DEF FInv, NodesGone, OnePopper, UserWorks
<1>13. PollsEmpty'
  <2>1. ppc[p] = "popping"
    BY <1>3 DEF Moving
  <2> QED
    BY <1>5, <1>11, <2>1 DEF FInv, PollsEmpty
<1>14. GoneEmpty'
  <2>1. x \in queues
    BY <1>1, <1>3 DEF Moving, SameNode
  <2> QED
    BY <1>5, <1>7, <2>1 DEF FInv, GoneEmpty
<1>15. UnaskedIdle'
  BY <1>5, <1>6 DEF FInv, UnaskedIdle
<1>16. pending[c] => c \in pending_commands
  BY <1>6 DEF IInv, PendingInv
<1>17. KeptListed'
  <2>1. ASSUME NEW i \in 1..Len(kept'[p]) PROVE kept'[p][i] \in pending_commands
    <3>1. CASE ~pending[c]
      <4>1. kept'[p] = kept[p]
        BY <1>5, <3>1
      <4> QED
        BY <2>1, <4>1 DEF FInv, KeptListed
    <3>2. CASE pending[c]
      <4>1. kept'[p] = Append(k, c)
        BY <1>t, <1>2, <1>5, <3>2
      <4>2. i \in 1..Len(k) + 1 /\ Len(k) \in Nat
        BY <2>1, <4>1
      <4>3. CASE i = Len(k) + 1
        BY <1>16, <3>2, <4>1, <4>3
      <4>4. CASE i # Len(k) + 1
        <5>1. i \in 1..Len(k) /\ kept'[p][i] = k[i]
          BY <4>1, <4>2, <4>4
        <5> QED
          BY <1>2, <5>1 DEF FInv, KeptListed
      <4> QED
        BY <4>3, <4>4
    <3> QED
      BY <3>1, <3>2
  <2>2. ASSUME NEW r \in Pollers, r # p, NEW i \in 1..Len(kept'[r])
        PROVE  kept'[r][i] \in pending_commands
    BY <1>11, <2>2 DEF FInv, KeptListed
  <2> QED
    BY <1>5, <2>1, <2>2 DEF KeptListed
<1>18. Sorted(p)'
  <2>1. /\ Len(s) = Len(t) + Len(k) /\ ToSet(s) = ToSet(t) \cup ToSet(k)
        /\ Ordered(t, s) /\ Ordered(k, s)
    BY <1>1, <1>2, <1>3 DEF FInv, LookInv, Sorted
  <2>2. c \notin ToSet(t) /\ c \notin ToSet(k) /\ c \notin ToSet(s)
    BY <1>2, <1>6, <2>1, Places
  <2>3. /\ \A i \in 1..Len(t) : t[i] # c
        /\ \A i \in 1..Len(k) : k[i] # c
        /\ \A i \in 1..Len(s) : s[i] # c
    BY <2>2, InToSet
  <2>4. /\ Ordered(Append(t, c), Append(s, c)) /\ Ordered(t, Append(s, c))
        /\ Ordered(Append(k, c), Append(s, c)) /\ Ordered(k, Append(s, c))
    BY <2>1, <2>3, OrderedAppend
  <2>5. /\ ToSet(Append(s, c)) = ToSet(s) \cup {c} /\ ToSet(Append(t, c)) = ToSet(t) \cup {c}
        /\ ToSet(Append(k, c)) = ToSet(k) \cup {c}
    BY SetOfSequence
  <2>6. /\ Len(Append(s, c)) = Len(s) + 1 /\ Len(Append(t, c)) = Len(t) + 1
        /\ Len(Append(k, c)) = Len(k) + 1
        /\ Len(s) \in Nat /\ Len(t) \in Nat /\ Len(k) \in Nat
    OBVIOUS
  <2>7. looked'[PollerQueue[p]] = Append(s, c)
    BY <1>1, <1>10
  <2>8. CASE pending[c]
    <3>1. res'[p] = t /\ kept'[p] = Append(k, c)
      BY <1>t, <1>2, <1>5, <2>8
    <3>2. Len(s) + 1 = Len(t) + (Len(k) + 1)
      BY <2>1, <2>6
    <3>3. ToSet(s) \cup {c} = ToSet(t) \cup (ToSet(k) \cup {c})
      BY <2>1
    <3> QED
      BY <2>4, <2>5, <2>6, <2>7, <3>1, <3>2, <3>3 DEF Sorted
  <2>9. CASE ~pending[c]
    <3>1. res'[p] = Append(t, c) /\ kept'[p] = k
      BY <1>t, <1>2, <1>5, <2>9
    <3>2. Len(s) + 1 = (Len(t) + 1) + Len(k)
      BY <2>1, <2>6
    <3>3. ToSet(s) \cup {c} = (ToSet(t) \cup {c}) \cup ToSet(k)
      BY <2>1
    <3> QED
      BY <2>4, <2>5, <2>6, <2>7, <3>1, <3>2, <3>3 DEF Sorted
  <2> QED
    BY <2>8, <2>9
<1>19. LookInv'
  <2>1. looked' \in [Queues -> Seq(Cmds)]
    <3>1. Append(s, c) \in Seq(Cmds)
      OBVIOUS
    <3>2. \A q \in Queues : q # x => looked[q] \in Seq(Cmds)
      BY <1>t
    <3>3. \A q \in Queues : looked'[q] \in Seq(Cmds)
      BY <1>10, <3>1, <3>2
    <3>4. looked' = [q \in Queues |-> looked'[q]]
      BY DEF Looks
    <3> QED
      BY <3>3, <3>4
  <2>2. \A q \in Queues : ~Locked(q)' => looked'[q] = <<>>
    BY DEF Looks
  <2>3. ASSUME NEW r \in Pollers, r # p, Moving(r)' PROVE Sorted(r)'
    <3>1. Moving(r) /\ PollerQueue[r] # x /\ PollerQueue[r] \in Queues
      BY <1>t, <1>1, <1>3, <1>8, <2>3 DEF FInv, OnePopper
    <3>2. Sorted(r)
      BY <3>1 DEF FInv, LookInv
    <3>3. looked'[PollerQueue[r]] = looked[PollerQueue[r]]
      BY <1>10, <3>1
    <3> QED
      BY <1>11, <2>3, <3>2, <3>3 DEF Sorted
  <2> QED
    BY <1>18, <2>1, <2>2, <2>3 DEF LookInv
<1>w. WantedOnly'
  BY <1>5, <1>6, WantedStays
<1>20. FInv'
  BY <1>12, <1>13, <1>14, <1>15, <1>17, <1>19, <1>w DEF FInv
<1>21. [q \in Queues |-> Ring(q)]' = [q \in Queues |-> Ring(q)]
  <2>1. Front(a) \o Reverse(Append(s, a[Len(a)])) = a \o Reverse(s)
    BY <1>3, LastMoves
  <2>2. Ring(x)' = Ring(x)
    BY <1>2, <1>4, <1>7, <1>10, <2>1 DEF Ring
  <2>3. \A q \in Queues : q # x => Ring(q)' = Ring(q)
    BY <1>7, <1>10 DEF Ring
  <2> QED
    BY <2>2, <2>3
<1>22. [r \in Pollers |-> Taken(r)]' = [r \in Pollers |-> Taken(r)]
  <2>1. Taken(p)' = Taken(p)
    BY <1>3, <1>8 DEF Taken
  <2>2. \A r \in Pollers : r # p => Taken(r)' = Taken(r)
    BY <1>8, <1>11 DEF Taken
  <2> QED
    BY <2>1, <2>2
<1>23. Unasked' = Unasked /\ Waits' = Waits /\ Announced' = Announced
       /\ [q \in Queues |-> Due(q)]' = [q \in Queues |-> Due(q)]
  <2>1. Unasked' = Unasked
    BY <1>6 DEF Unasked
  <2>2. Waits' = Waits /\ Announced' = Announced
    BY <1>5 DEF Waits, Announced
  <2>3. \A d \in Cmds : fate'[d] \in {"work", "running"} <=> fate[d] \in {"work", "running"}
    BY <1>6
  <2>4. \A q \in Queues : Due(q)' = Due(q)
    BY <1>5, <2>3 DEF Due
  <2> QED
    BY <2>1, <2>2, <2>4
<1> QED
  BY <1>5, <1>20, <1>21, <1>22, <1>23 DEF Fifo!fifoVars

(* The end of the pop: to the outside, this is when the poll takes place. *)
LEMMA PopStep ==
  ASSUME IInv, FInv, Looks, NEW p \in Pollers, PopEnds(p)
  PROVE  FInv' /\ Fifo!FifoNext
<1> USE DEF cmdVars, workerVars, queueVars, gameVars, pollVars, histVars
<1>t. /\ looked \in [Queues -> Seq(Cmds)] /\ results \in [Queues -> Seq(Cmds)]
      /\ res \in [Pollers -> Seq(Cmds)] /\ kept \in [Pollers -> Seq(Cmds)]
      /\ PollerQueue \in [Pollers -> Queues] /\ fate \in [Cmds -> Fates]
      /\ ppc \in [Pollers -> {"idle", "pop", "popping", "erase"}] /\ pgen \in [Pollers -> Nat]
      /\ gen \in [Queues -> Nat]
  BY ConstantsAssumption DEF IInv, TypeInv, TypeOK, QueueTypes, PollTypes, HistTypes, FInv, LookInv
<1>1. PICK x \in Queues : x = PollerQueue[p]
  BY <1>t
<1>2. PICK s \in Seq(Cmds), t \in Seq(Cmds), k \in Seq(Cmds) :
        s = looked[x] /\ t = res[p] /\ k = kept[p]
  BY <1>t
<1>3. Moving(p) /\ results[x] = <<>> /\ x \in queues
  BY <1>1 DEF PopEnds, Moving, SameNode
<1>4. /\ UNCHANGED <<cmd, pending, pending_commands, log, wpc, wcmd, queues, gen, res>>
      /\ results' = [results EXCEPT ![x] = k]
      /\ fate' = [c \in Cmds |-> IF c \in ToSet(k) THEN "queued" ELSE fate[c]]
      /\ kept' = [kept EXCEPT ![p] = <<>>]
      /\ ppc' = [ppc EXCEPT ![p] = "erase"]
      /\ pgen' = [pgen EXCEPT ![p] = 0]
  BY <1>1, <1>2 DEF PopEnds, PutsBack
<1>5. \A c \in Cmds : fate'[c] = fate[c] \/ (fate[c] = "popping" /\ fate'[c] = "queued")
  <2>1. \A c \in ToSet(k) : c \in Cmds => fate[c] = "popping"
    BY <1>2, Places
  <2>2. ASSUME NEW c \in Cmds
        PROVE  fate'[c] = fate[c] \/ (fate[c] = "popping" /\ fate'[c] = "queued")
    <3>1. CASE c \in ToSet(k)
      <4>1. fate'[c] = "queued"
        BY <1>4, <3>1
      <4> QED
        BY <2>1, <3>1, <4>1
    <3>2. CASE c \notin ToSet(k)
      <4>1. fate'[c] = fate[c]
        BY <1>4, <3>2, Zenon
      <4> QED
        BY <4>1
    <3> QED
      BY <3>1, <3>2
  <2> QED
    BY <2>2
<1>6. /\ results'[x] = k /\ \A q \in Queues : q # x => results'[q] = results[q]
      /\ kept'[p] = <<>> /\ \A r \in Pollers : r # p => kept'[r] = kept[r]
      /\ ppc'[p] = "erase" /\ \A r \in Pollers : r # p => ppc'[r] = ppc[r]
      /\ pgen'[p] = 0 /\ \A r \in Pollers : r # p => pgen'[r] = pgen[r]
  BY <1>t, <1>4
<1>7. ~Moving(p)' /\ \A r \in Pollers : r # p => (Moving(r)' <=> Moving(r))
  BY <1>4, <1>6 DEF Moving, SameNode
<1>8. ~Locked(x)' /\ \A q \in Queues : q # x => (Locked(q)' <=> Locked(q))
  <2>1. \A q \in Queues : Locked(q)' <=> \E r \in Pollers : PollerQueue[r] = q /\ Moving(r)'
    BY DEF Locked, Moving
  <2>2. \A r \in Pollers : r # p /\ PollerQueue[r] = x => ~Moving(r)
    BY <1>1, <1>3 DEF FInv, OnePopper
  <2> QED
    BY <1>1, <1>7, <2>1, <2>2, LockedBy
<1>9. looked'[x] = <<>> /\ \A q \in Queues : q # x => looked'[q] = looked[q]
  <2>1. \A q \in Queues : ~Locked(q) => looked[q] = <<>>
    BY DEF FInv, LookInv
  <2>2. ASSUME NEW q \in Queues, q # x PROVE looked'[q] = looked[q]
    BY <1>6, <1>8, <2>1, <2>2 DEF Looks
  <2> QED
    BY <1>8, <2>2 DEF Looks
<1>10. NodesGone'
  <2>1. gen[x] \in Nat
    BY <1>t
  <2> QED
    BY <1>1, <1>4, <1>6, <2>1 DEF FInv, NodesGone
<1>11. PollsEmpty' /\ KeptListed' /\ UserWorks'
  <2>1. PollsEmpty'
    BY <1>4, <1>6 DEF FInv, PollsEmpty
  <2>2. KeptListed'
    <3>1. Len(kept'[p]) = 0
      BY <1>6
    <3>2. \A r \in Pollers : r # p => \A i \in 1..Len(kept'[r]) : kept'[r][i] \in pending_commands'
      BY <1>4, <1>6 DEF FInv, KeptListed
    <3>3. \A i \in 1..Len(kept'[p]) : kept'[p][i] \in pending_commands'
      BY <3>1
    <3> QED
      BY <3>2, <3>3 DEF KeptListed
  <2>3. UserWorks'
    BY <1>4 DEF FInv, UserWorks
  <2> QED
    BY <2>1, <2>2, <2>3
<1>12. UnaskedIdle'
  BY <1>4, <1>5 DEF FInv, UnaskedIdle
<1>13. GoneEmpty'
  BY <1>3, <1>4, <1>6 DEF FInv, GoneEmpty
<1>14. OnePopper'
  BY <1>7 DEF FInv, OnePopper
<1>15. LookInv'
  <2>1. looked' \in [Queues -> Seq(Cmds)]
    <3>0. <<>> \in Seq(Cmds)
      OBVIOUS
    <3>1. \A q \in Queues : q # x => looked[q] \in Seq(Cmds)
      BY <1>t
    <3>2. \A q \in Queues : looked'[q] \in Seq(Cmds)
      BY <1>9, <3>0, <3>1
    <3>3. looked' = [q \in Queues |-> looked'[q]]
      BY DEF Looks
    <3> QED
      BY <3>2, <3>3
  <2>2. \A q \in Queues : ~Locked(q)' => looked'[q] = <<>>
    BY DEF Looks
  <2>3. ASSUME NEW r \in Pollers, Moving(r)' PROVE Sorted(r)'
    <3>1. r # p /\ Moving(r)
      BY <1>7, <2>3
    <3>2. PollerQueue[r] # x /\ PollerQueue[r] \in Queues
      BY <1>t, <1>1, <1>3, <3>1 DEF FInv, OnePopper
    <3>3. looked'[PollerQueue[r]] = looked[PollerQueue[r]] /\ kept'[r] = kept[r] /\ res'[r] = res[r]
      BY <1>4, <1>6, <1>9, <3>1, <3>2
    <3> QED
      BY <3>1, <3>3 DEF FInv, LookInv, Sorted
  <2> QED
    BY <2>1, <2>2, <2>3 DEF LookInv
<1>w. WantedOnly'
  BY <1>4, <1>5, WantedStays
<1>16. FInv'
  BY <1>10, <1>11, <1>12, <1>13, <1>14, <1>15, <1>w DEF FInv
<1>17. Unasked' = Unasked /\ Waits' = Waits /\ Announced' = Announced
       /\ [q \in Queues |-> Due(q)]' = [q \in Queues |-> Due(q)]
  <2>1. \A d \in Cmds : fate'[d] = "unused" <=> fate[d] = "unused"
    BY <1>5
  <2>2. \A d \in Cmds : fate'[d] \in {"work", "running"} <=> fate[d] \in {"work", "running"}
    BY <1>5
  <2>3. \A q \in Queues : Due(q)' = Due(q)
    BY <1>4, <2>2 DEF Due
  <2>4. Unasked' = Unasked
    BY <2>1 DEF Unasked
  <2>5. Waits' = Waits /\ Announced' = Announced
    BY <1>4 DEF Waits, Announced
  <2> QED
    BY <2>3, <2>4, <2>5
<1>18. /\ Len(s) = Len(t) + Len(k) /\ Ordered(t, s) /\ Ordered(k, s)
       /\ ToSet(s) = ToSet(t) \cup ToSet(k)
  BY <1>1, <1>2, <1>3 DEF FInv, LookInv, Sorted
<1>19. PICK u \in Seq(Cmds), v \in Seq(Cmds), b \in Seq(Cmds) :
         /\ u = Reverse(t) /\ v = Reverse(s) /\ b = Reverse(k)
         /\ Len(u) = Len(t) /\ Len(v) = Len(s) /\ Len(b) = Len(k)
         /\ ToSet(u) = ToSet(t) /\ ToSet(v) = ToSet(s) /\ ToSet(b) = ToSet(k)
  BY ReverseOf, SetOfReverse
<1>20. Ordered(u, v) /\ Ordered(b, v)
  BY <1>18, <1>19, OrderedReverse
<1>21. Ring(x) = v
  <2>1. Ring(x) = <<>> \o v
    BY <1>2, <1>3, <1>19 DEF Ring
  <2> QED
    BY <2>1, ConcatEmptySeq
<1>22. Len(u) <= Len(v) /\ Len(b) <= Len(v)
  <2>1. Len(t) \in Nat /\ Len(k) \in Nat
    OBVIOUS
  <2> QED
    BY <1>18, <1>19, <2>1
<1>23. u \in Fifo!Parts(v) /\ b \in Fifo!Parts(v)
  BY <1>18, <1>19, <1>20, <1>22, FifoOperators
<1>24. Fifo!ToSet(u) = ToSet(t) /\ Fifo!ToSet(b) = ToSet(k) /\ Fifo!ToSet(v) = ToSet(s)
  BY <1>19, FifoOperators
<1>25. ToSet(t) \cap ToSet(k) = {}
  <2>1. Apart(t, k)
    BY <1>2 DEF IInv, PollerOwns
  <2>2. ASSUME NEW d \in ToSet(t), d \in ToSet(k) PROVE FALSE
    <3>1. PICK i \in 1..Len(t) : t[i] = d
      BY <2>2, InToSet
    <3>2. PICK j \in 1..Len(k) : k[j] = d
      BY <2>2, InToSet
    <3> QED
      BY <2>1, <3>1, <3>2 DEF Apart
  <2> QED
    BY <2>2
<1>26. ToSet(t) \cap Waits = {}
  <2>1. ASSUME NEW d \in ToSet(t), pending[d] PROVE FALSE
    <3>1. PICK i \in 1..Len(t) : t[i] = d
      BY <2>1, InToSet
    <3>2. ~pending[res[p][i]]
      BY <1>2, Zenon DEF IInv, PollerOwns
    <3> QED
      BY <1>2, <2>1, <3>1, <3>2
  <2> QED
    BY <2>1 DEF Waits
<1>27. ToSet(k) \subseteq Announced
  <2>1. ASSUME NEW d \in ToSet(k) PROVE d \in pending_commands /\ d \in Cmds
    <3>1. PICK i \in 1..Len(k) : k[i] = d
      BY <2>1, InToSet
    <3> QED
      BY <1>2, <3>1 DEF FInv, KeptListed
  <2>2. ASSUME NEW d \in ToSet(k) PROVE ~cmd[d].discard
    <3>1. d \in Cmds /\ fate[d] = "popping"
      BY <1>2, <2>1, <2>2, Places
    <3> QED
      BY <3>1 DEF FInv, WantedOnly
  <2> QED
    BY <2>1, <2>2 DEF Announced
<1>28. /\ Taken(p) = <<>> /\ Taken(p)' = u
       /\ \A r \in Pollers : r # p => Taken(r)' = Taken(r)
  BY <1>2, <1>3, <1>4, <1>7, <1>19 DEF Taken
<1>29. [r \in Pollers |-> Taken(r)]' = [[r \in Pollers |-> Taken(r)] EXCEPT ![p] = u]
  BY <1>28
<1>30. Ring(x)' = k /\ k = Reverse(b)
  <2>1. Ring(x)' = k \o <<>>
    BY <1>6, <1>9, ReverseEmpty DEF Ring
  <2>2. Reverse(Reverse(k)) = k
    BY ReverseTwice
  <2> QED
    BY <1>19, <2>1, <2>2, ConcatEmptySeq
<1>31. Fifo!Reverse(b) = k
  BY <1>30, FifoOperators
<1>32. [q \in Queues |-> Ring(q)]' = [[q \in Queues |-> Ring(q)] EXCEPT ![x] = Fifo!Reverse(b)]
  <2>1. \A q \in Queues : q # x => Ring(q)' = Ring(q)
    BY <1>6, <1>9 DEF Ring
  <2> QED
    BY <1>30, <1>31, <2>1
<1>33. Fifo!Take(p, u, b)
  <2>1. [q \in Queues |-> Ring(q)][x] = v /\ [r \in Pollers |-> Taken(r)][p] = <<>>
    BY <1>21, <1>28
  <2>2. Fifo!ToSet(u) \cup Fifo!ToSet(b) = Fifo!ToSet(v)
    BY <1>18, <1>24
  <2>3. Fifo!ToSet(u) \cap Fifo!ToSet(b) = {} /\ Fifo!ToSet(u) \cap Waits = {}
    BY <1>24, <1>25, <1>26
  <2>4. Fifo!ToSet(b) \subseteq Announced
    BY <1>24, <1>27
  <2> QED
    BY <1>1, <1>3, <1>4, <1>17, <1>29, <1>32, <2>1, <2>2, <2>3, <2>4 DEF Fifo!Take
<1>34. u \in Fifo!Parts([q \in Queues |-> Ring(q)][PollerQueue[p]])
       /\ b \in Fifo!Parts([q \in Queues |-> Ring(q)][PollerQueue[p]])
  BY <1>1, <1>21, <1>23
<1> QED
  BY <1>16, <1>33, <1>34 DEF Fifo!FifoNext

(* The queue was destroyed under the pop: what it had refused is lost with   *)
(* the queue, what it had moved to res is kept.                              *)
LEMMA FreedStep ==
  ASSUME IInv, FInv, Looks, NEW p \in Pollers, NEW dies, PopUsesFreed(p, dies)
  PROVE  FInv' /\ UNCHANGED Fifo!fifoVars
<1> USE DEF cmdVars, workerVars, queueVars, gameVars, pollVars, histVars
<1>t. /\ looked \in [Queues -> Seq(Cmds)] /\ kept \in [Pollers -> Seq(Cmds)]
      /\ PollerQueue \in [Pollers -> Queues] /\ fate \in [Cmds -> Fates]
      /\ ppc \in [Pollers -> {"idle", "pop", "popping", "erase"}] /\ pgen \in [Pollers -> Nat]
      /\ gen \in [Queues -> Nat]
  BY ConstantsAssumption DEF IInv, TypeInv, TypeOK, QueueTypes, PollTypes, HistTypes, FInv, LookInv
<1>1. /\ UNCHANGED <<cmd, pending, pending_commands, log, wpc, wcmd, queues, gen, res, results>>
      /\ fate' = [c \in Cmds |-> IF c \in ToSet(kept[p]) THEN "destroyed" ELSE fate[c]]
      /\ kept' = [kept EXCEPT ![p] = <<>>]
      /\ ppc' = [ppc EXCEPT ![p] = "erase"]
      /\ pgen' = [pgen EXCEPT ![p] = 0]
      /\ ~Moving(p)
  BY DEF PopUsesFreed, Moving
<1>2. \A c \in Cmds : fate'[c] = fate[c] \/ (fate[c] = "popping" /\ fate'[c] = "destroyed")
  <2>1. \A c \in ToSet(kept[p]) : c \in Cmds => fate[c] = "popping"
    BY Places
  <2>2. ASSUME NEW c \in Cmds
        PROVE  fate'[c] = fate[c] \/ (fate[c] = "popping" /\ fate'[c] = "destroyed")
    <3>1. CASE c \in ToSet(kept[p])
      <4>1. fate'[c] = "destroyed"
        BY <1>1, <3>1
      <4> QED
        BY <2>1, <3>1, <4>1
    <3>2. CASE c \notin ToSet(kept[p])
      <4>1. fate'[c] = fate[c]
        BY <1>1, <3>2, Zenon
      <4> QED
        BY <4>1
    <3> QED
      BY <3>1, <3>2
  <2> QED
    BY <2>2
<1>3. /\ kept'[p] = <<>> /\ \A r \in Pollers : r # p => kept'[r] = kept[r]
      /\ ppc'[p] = "erase" /\ \A r \in Pollers : r # p => ppc'[r] = ppc[r]
      /\ pgen'[p] = 0 /\ \A r \in Pollers : r # p => pgen'[r] = pgen[r]
  BY <1>t, <1>1
<1>4. ~Moving(p)' /\ \A r \in Pollers : Moving(r)' <=> Moving(r)
  BY <1>1, <1>3 DEF Moving, SameNode
<1>5. \A q \in Queues : Locked(q)' <=> Locked(q)
  <2>1. \A q \in Queues : Locked(q)' <=> \E r \in Pollers : PollerQueue[r] = q /\ Moving(r)'
    BY DEF Locked, Moving
  <2> QED
    BY <1>4, <2>1, LockedBy
<1>6. looked' = looked
  <2>1. \A q \in Queues : ~Locked(q) => looked[q] = <<>>
    BY DEF FInv, LookInv
  <2>2. ASSUME NEW q \in Queues PROVE looked'[q] = looked[q]
    BY <1>1, <1>5, <2>1 DEF Looks
  <2>3. looked' = [q \in Queues |-> looked'[q]] /\ looked = [q \in Queues |-> looked[q]]
    BY <1>t DEF Looks
  <2> QED
    BY <2>2, <2>3
<1>7. NodesGone'
  <2>1. gen[PollerQueue[p]] \in Nat
    BY <1>t
  <2> QED
    BY <1>1, <1>3, <2>1 DEF FInv, NodesGone
<1>8. PollsEmpty'
  BY <1>1, <1>3 DEF FInv, PollsEmpty
<1>9. KeptListed'
  <2>1. Len(kept'[p]) = 0
    BY <1>3
  <2>2. \A r \in Pollers : r # p => \A i \in 1..Len(kept'[r]) : kept'[r][i] \in pending_commands'
    BY <1>1, <1>3 DEF FInv, KeptListed
  <2>3. \A i \in 1..Len(kept'[p]) : kept'[p][i] \in pending_commands'
    BY <2>1
  <2> QED
    BY <2>2, <2>3 DEF KeptListed
<1>10. UserWorks' /\ GoneEmpty'
  BY <1>1 DEF FInv, UserWorks, GoneEmpty
<1>11. UnaskedIdle' /\ WantedOnly'
  <2>1. UnaskedIdle'
    BY <1>1, <1>2 DEF FInv, UnaskedIdle
  <2>2. WantedOnly'
    BY <1>1, <1>2, WantedStays
  <2> QED
    BY <2>1, <2>2
<1>12. OnePopper'
  BY <1>4 DEF FInv, OnePopper
<1>13. LookInv'
  <2>1. ASSUME NEW r \in Pollers, Moving(r)' PROVE Sorted(r)'
    <3>1. r # p /\ Moving(r)
      BY <1>4, <2>1
    <3>2. kept'[r] = kept[r] /\ res'[r] = res[r]
      BY <1>1, <1>3, <3>1
    <3> QED
      BY <1>6, <3>1, <3>2 DEF FInv, LookInv, Sorted
  <2> QED
    BY <1>5, <1>6, <2>1 DEF FInv, LookInv
<1>14. FInv'
  BY <1>7, <1>8, <1>9, <1>10, <1>11, <1>12, <1>13 DEF FInv
<1>15. [q \in Queues |-> Ring(q)]' = [q \in Queues |-> Ring(q)]
       /\ [r \in Pollers |-> Taken(r)]' = [r \in Pollers |-> Taken(r)]
  BY <1>1, <1>4, <1>6 DEF Ring, Taken
<1>16. Unasked' = Unasked /\ Waits' = Waits /\ Announced' = Announced
       /\ [q \in Queues |-> Due(q)]' = [q \in Queues |-> Due(q)]
  <2>1. \A d \in Cmds : fate'[d] = "unused" <=> fate[d] = "unused"
    BY <1>2
  <2>2. \A d \in Cmds : fate'[d] \in {"work", "running"} <=> fate[d] \in {"work", "running"}
    BY <1>2
  <2>3. \A q \in Queues : Due(q)' = Due(q)
    BY <1>1, <2>2 DEF Due
  <2>4. Unasked' = Unasked
    BY <2>1 DEF Unasked
  <2>5. Waits' = Waits /\ Announced' = Announced
    BY <1>1 DEF Waits, Announced
  <2> QED
    BY <2>3, <2>4, <2>5
<1> QED
  BY <1>1, <1>14, <1>15, <1>16 DEF Fifo!fifoVars

(* flush_results returns: the poll answers what it took. *)
LEMMA AnswerStep ==
  ASSUME IInv, FInv, Looks, NEW p \in Pollers, FlushReturns(p)
  PROVE  FInv' /\ Fifo!FifoNext
<1> USE DEF cmdVars, workerVars, queueVars, gameVars, pollVars, histVars
<1>t. /\ looked \in [Queues -> Seq(Cmds)] /\ res \in [Pollers -> Seq(Cmds)]
      /\ kept \in [Pollers -> Seq(Cmds)]
      /\ PollerQueue \in [Pollers -> Queues] /\ fate \in [Cmds -> Fates]
      /\ ppc \in [Pollers -> {"idle", "pop", "popping", "erase"}]
      /\ log \in [Queues -> Seq(Cmds)]
  BY ConstantsAssumption DEF IInv, TypeInv, TypeOK, QueueTypes, PollTypes, HistTypes, FInv, LookInv
<1>1. PICK x \in Queues : x = PollerQueue[p]
  BY <1>t
<1>2. PICK t \in Seq(Cmds) : t = res[p]
  BY <1>t
<1>3. /\ UNCHANGED <<cmd, pending, wpc, wcmd, queues, gen, results, pgen, kept>>
      /\ ppc[p] = "erase"
      /\ pending_commands' = {c \in pending_commands : c \notin ToSet(t)}
      /\ log' = [log EXCEPT ![x] = @ \o Reverse(t)]
      /\ fate' = [c \in Cmds |-> IF c \in ToSet(t) THEN "delivered" ELSE fate[c]]
      /\ res' = [res EXCEPT ![p] = <<>>]
      /\ ppc' = [ppc EXCEPT ![p] = "idle"]
  BY <1>1, <1>2 DEF FlushReturns, ErasesPopped, Answer
<1>4. \A c \in Cmds : fate'[c] = fate[c] \/ (fate[c] = "popping" /\ fate'[c] = "delivered")
  <2>1. \A c \in ToSet(t) : c \in Cmds => fate[c] = "popping"
    BY <1>2, Places
  <2>2. ASSUME NEW c \in Cmds
        PROVE  fate'[c] = fate[c] \/ (fate[c] = "popping" /\ fate'[c] = "delivered")
    <3>1. CASE c \in ToSet(t)
      <4>1. fate'[c] = "delivered"
        BY <1>3, <3>1
      <4> QED
        BY <2>1, <3>1, <4>1
    <3>2. CASE c \notin ToSet(t)
      <4>1. fate'[c] = fate[c]
        BY <1>3, <3>2, Zenon
      <4> QED
        BY <4>1
    <3> QED
      BY <3>1, <3>2
  <2> QED
    BY <2>2
<1>5. /\ res'[p] = <<>> /\ \A r \in Pollers : r # p => res'[r] = res[r]
      /\ ppc'[p] = "idle" /\ \A r \in Pollers : r # p => ppc'[r] = ppc[r]
  BY <1>t, <1>3
<1>6. ~Moving(p) /\ ~Moving(p)' /\ \A r \in Pollers : Moving(r)' <=> Moving(r)
  BY <1>3, <1>5 DEF Moving, SameNode
<1>7. \A q \in Queues : Locked(q)' <=> Locked(q)
  <2>1. \A q \in Queues : Locked(q)' <=> \E r \in Pollers : PollerQueue[r] = q /\ Moving(r)'
    BY DEF Locked, Moving
  <2> QED
    BY <1>6, <2>1, LockedBy
<1>8. looked' = looked
  <2>1. \A q \in Queues : ~Locked(q) => looked[q] = <<>>
    BY DEF FInv, LookInv
  <2>2. ASSUME NEW q \in Queues PROVE looked'[q] = looked[q]
    BY <1>3, <1>7, <2>1 DEF Looks
  <2>3. looked' = [q \in Queues |-> looked'[q]] /\ looked = [q \in Queues |-> looked[q]]
    BY <1>t DEF Looks
  <2> QED
    BY <2>2, <2>3
<1>9. NodesGone'
  BY <1>3, <1>5 DEF FInv, NodesGone
<1>10. PollsEmpty'
  <2>1. kept[p] = <<>>
    BY <1>3 DEF FInv, PollsEmpty
  <2> QED
    BY <1>3, <1>5, <2>1 DEF FInv, PollsEmpty
<1>11. KeptListed'
  <2>1. ASSUME NEW r \in Pollers, NEW i \in 1..Len(kept[r]) PROVE kept[r][i] \in pending_commands'
    <3>1. kept[r][i] \in pending_commands
      BY DEF FInv, KeptListed
    <3>2. Apart(t, kept[r])
      <4>1. CASE r = p
        BY <1>2, <4>1 DEF IInv, PollerOwns
      <4>2. CASE r # p
        BY <1>2, <4>2 DEF IInv, PollersApart
      <4> QED
        BY <4>1, <4>2
    <3>3. kept[r][i] \notin ToSet(t)
      BY <3>2, InToSet DEF Apart
    <3> QED
      BY <1>3, <3>1, <3>3
  <2> QED
    BY <1>3, <2>1 DEF KeptListed
<1>12. UserWorks' /\ GoneEmpty'
  BY <1>3 DEF FInv, UserWorks, GoneEmpty
<1>13. UnaskedIdle' /\ WantedOnly'
  <2>1. UnaskedIdle'
    BY <1>3, <1>4 DEF FInv, UnaskedIdle
  <2>2. WantedOnly'
    BY <1>3, <1>4, WantedStays
  <2> QED
    BY <2>1, <2>2
<1>14. OnePopper'
  BY <1>6 DEF FInv, OnePopper
<1>15. LookInv'
  <2>1. ASSUME NEW r \in Pollers, Moving(r)' PROVE Sorted(r)'
    <3>1. r # p /\ Moving(r)
      BY <1>6, <2>1
    <3>2. kept'[r] = kept[r] /\ res'[r] = res[r]
      BY <1>3, <1>5, <3>1
    <3> QED
      BY <1>8, <3>1, <3>2 DEF FInv, LookInv, Sorted
  <2> QED
    BY <1>7, <1>8, <2>1 DEF FInv, LookInv
<1>16. FInv'
  BY <1>9, <1>10, <1>11, <1>12, <1>13, <1>14, <1>15 DEF FInv
<1>17. [q \in Queues |-> Ring(q)]' = [q \in Queues |-> Ring(q)]
  BY <1>3, <1>8 DEF Ring
<1>18. Taken(p) = Reverse(t) /\ Taken(p)' = <<>> /\ \A r \in Pollers : r # p => Taken(r)' = Taken(r)
  BY <1>2, <1>5, <1>6, ReverseEmpty DEF Taken
<1>19. [r \in Pollers |-> Taken(r)]' = [[r \in Pollers |-> Taken(r)] EXCEPT ![p] = <<>>]
  BY <1>18
<1>20. Unasked' = Unasked /\ Waits' = Waits
       /\ [q \in Queues |-> Due(q)]' = [q \in Queues |-> Due(q)]
  <2>1. \A d \in Cmds : fate'[d] = "unused" <=> fate[d] = "unused"
    BY <1>4
  <2>2. \A d \in Cmds : fate'[d] \in {"work", "running"} <=> fate[d] \in {"work", "running"}
    BY <1>4
  <2>3. \A q \in Queues : Due(q)' = Due(q)
    BY <1>3, <2>2 DEF Due
  <2>4. Unasked' = Unasked
    BY <2>1 DEF Unasked
  <2>5. Waits' = Waits
    BY <1>3 DEF Waits
  <2> QED
    BY <2>3, <2>4, <2>5
<1>21. Announced' = Announced \ Fifo!ToSet(Reverse(t))
  <2>1. PICK u \in Seq(Cmds) : u = Reverse(t) /\ ToSet(u) = ToSet(t)
    BY ReverseOf, SetOfReverse
  <2>2. Fifo!ToSet(u) = ToSet(t)
    BY <2>1, FifoOperators
  <2>3. Announced' = Announced \ ToSet(t)
    BY <1>3 DEF Announced
  <2> QED
    BY <2>1, <2>2, <2>3
<1>22. Fifo!Answer(p)
  <2>1. [r \in Pollers |-> Taken(r)][p] = Reverse(t)
    BY <1>18
  <2> QED
    BY <1>1, <1>3, <1>17, <1>19, <1>20, <1>21, <2>1 DEF Fifo!Answer
<1> QED
  BY <1>16, <1>22 DEF Fifo!FifoNext

-----------------------------------------------------------------------------
(* Every step of the command manager is one of the abstract queues, or none. *)
LEMMA FifoStep ==
  ASSUME IInv, FInv, [LookNext]_<<vars, looked>>
  PROVE  FInv' /\ [Fifo!FifoNext]_(Fifo!fifoVars)
<1> USE DEF cmdVars, workerVars, queueVars, gameVars, pollVars, callVars, histVars
<1>1. CASE UNCHANGED <<vars, looked>>
  <2>1. /\ UNCHANGED <<fate, cmd, pending, pending_commands, results, res, kept, log, ppc, pgen,
                       queues, gen, wpc, wcmd, looked>>
    BY <1>1 DEF vars
  <2>2. FInv'
    BY <2>1 DEF FInv, NodesGone, PollsEmpty, OnePopper, GoneEmpty, KeptListed, UserWorks, WantedOnly,
         UnaskedIdle, LookInv, Sorted, Locked, Moving, SameNode
  <2>3. [q \in Queues |-> Ring(q)]' = [q \in Queues |-> Ring(q)]
        /\ [r \in Pollers |-> Taken(r)]' = [r \in Pollers |-> Taken(r)]
    BY <2>1, MapFrame
  <2>4. Unasked' = Unasked /\ Waits' = Waits /\ Announced' = Announced
        /\ [q \in Queues |-> Due(q)]' = [q \in Queues |-> Due(q)]
    BY <2>1 DEF Unasked, Waits, Announced, Due
  <2> QED
    BY <2>1, <2>2, <2>3, <2>4 DEF Fifo!fifoVars
<1>2. CASE LookNext
  <2>0. Looks
    BY <1>2 DEF LookNext
  <2>1. ASSUME Submitter PROVE FInv' /\ [Fifo!FifoNext]_(Fifo!fifoVars)
    <3>1. CASE SubmitUnknown
      <4>1. UNCHANGED <<fate, cmd, pending, pending_commands, results, res, kept, log, ppc, pgen,
                        queues, gen, wpc, wcmd>>
        BY <3>1 DEF SubmitUnknown
      <4> QED
        BY <2>0, <4>1, IdleStep
    <3>2. ASSUME NEW q \in Queues, NEW k \in Kinds \ {Unknown}, NEW d \in Discards, Submit(q, k, d)
          PROVE  FInv' /\ Fifo!FifoNext
      <4>1. PICK r : /\ r = [type |-> CommandType.USER, queue_id |-> q, kind |-> k, discard |-> d]
                     /\ Make(command_counter + 1, r)
        BY <3>2 DEF Submit
      <4>2. r.queue_id \in Queues
        BY <4>1
      <4> QED
        BY <2>0, <4>1, <4>2, MakeStep
    <3> QED
      BY <2>1, <3>1, <3>2 DEF Submitter
  <2>2. ASSUME NEW k \in Callers, Caller(k) PROVE FInv' /\ [Fifo!FifoNext]_(Fifo!fifoVars)
    <3>1. CASE BuiltinReturns(k)
      <4>1. UNCHANGED <<fate, cmd, pending, pending_commands, results, res, kept, log, ppc, pgen,
                        queues, gen, wpc, wcmd>>
        BY <3>1 DEF BuiltinReturns
      <4> QED
        BY <2>0, <4>1, IdleStep
    <3>2. ASSUME NEW q \in Queues, NEW t \in {CommandType.CREATE_QUEUE, CommandType.DESTROY_QUEUE},
                 ExecuteBuiltin(k, t, q)
          PROVE  FInv' /\ Fifo!FifoNext
      <4>1. PICK r : /\ r = [type |-> t, queue_id |-> q, kind |-> "plain", discard |-> FALSE]
                     /\ Make(command_counter + 1, r)
        BY <3>2 DEF ExecuteBuiltin
      <4>2. r.queue_id \in Queues
        BY <4>1
      <4> QED
        BY <2>0, <4>1, <4>2, MakeStep
    <3> QED
      BY <2>2, <3>1, <3>2 DEF Caller
  <2>3. ASSUME Owner PROVE FInv' /\ [Fifo!FifoNext]_(Fifo!fifoVars)
    <3>1. CASE ShutdownJoins
      <4>1. UNCHANGED <<fate, cmd, pending, pending_commands, results, res, kept, log, ppc, pgen,
                        queues, gen, wpc, wcmd>>
        BY <3>1 DEF ShutdownJoins
      <4> QED
        BY <2>0, <4>1, IdleStep
    <3>2. CASE Shutdown
      <4>1. PICK r : /\ r = [type |-> CommandType.SHUTDOWN, queue_id |-> 0, kind |-> "plain",
                             discard |-> FALSE]
                     /\ Make(command_counter + 1, r)
        BY <3>2 DEF Shutdown
      <4>2. r.type # CommandType.USER
        BY <4>1 DEF CommandType
      <4> QED
        BY <2>0, <4>1, <4>2, MakeStep
    <3> QED
      BY <2>3, <3>1, <3>2 DEF Owner
  <2>4. ASSUME Worker PROVE FInv' /\ [Fifo!FifoNext]_(Fifo!fifoVars)
    <3>1. ASSUME HandlerReturns \/ SaveCommandResult \/ StoreResultCode
          PROVE  FInv' /\ UNCHANGED Fifo!fifoVars
      <4>1. /\ UNCHANGED <<fate, cmd, pending, pending_commands, results, res, kept, log, ppc, pgen,
                           queues, gen, wcmd>>
            /\ wpc \in Busy /\ wpc' # "emplace"
        BY <3>1 DEF HandlerReturns, SaveCommandResult, StoreResultCode, Busy
      <4> QED
        BY <2>0, <4>1, IdleStep
    <3>2. ASSUME HandlerDefers \/ HandlerThrows
          PROVE  FInv' /\ [Fifo!FifoNext]_(Fifo!fifoVars)
      <4>1. /\ UNCHANGED <<fate, cmd, pending_commands, results, res, kept, log, ppc, pgen,
                           queues, gen, wcmd>>
            /\ wpc \in Busy /\ wpc' # "emplace"
        BY <3>2 DEF HandlerDefers, HandlerThrows, Busy
      <4>2. PICK c \in Cmds : c = wcmd
        BY <4>1, WorkerHolds
      <4>3. PICK v \in BOOLEAN : pending' = [pending EXCEPT ![c] = v]
        BY <3>2, <4>2 DEF HandlerDefers, HandlerThrows
      <4>4. fate[c] = "running" /\ cmd[c].type = CommandType.USER /\ cmd[c].queue_id \in Queues
        BY <4>1, <4>2, WorkerHolds
      <4> QED
        BY <2>0, <4>1, <4>3, <4>4, FlagStep
    <3> QED
      BY <2>0, <2>4, <3>1, <3>2, TakeStep, CreateStep, DestroyStep, CheckStep, PutStep, DropStep
      DEF Worker
  <2>5. ASSUME GameLoop PROVE FInv' /\ [Fifo!FifoNext]_(Fifo!fifoVars)
    <3>1. CASE GameClearsPending
      <4>1. UNCHANGED <<fate, cmd, pending_commands, results, res, kept, log, ppc, pgen,
                        queues, gen, wcmd, wpc>>
        BY <3>1 DEF GameClearsPending
      <4>2. PICK c \in Cmds : pending' = [pending EXCEPT ![c] = FALSE]
        <5>1. game_work \in Seq(Cmds) /\ game_work # <<>>
          BY <3>1 DEF IInv, TypeInv, TypeOK, GameTypes, GameClearsPending
        <5>2. Head(game_work) \in Cmds
          BY <5>1
        <5> QED
          BY <3>1, <5>2 DEF GameClearsPending, ClearedPending
      <4> QED
        BY <2>0, <4>1, <4>2, FlagStep
    <3>2. CASE ~GameClearsPending
      <4>1. UNCHANGED <<fate, cmd, pending, pending_commands, results, res, kept, log, ppc, pgen,
                        queues, gen, wpc, wcmd>>
        BY <2>5, <3>2 DEF GameLoop, GameExecutes, GameUsesFreed
      <4> QED
        BY <2>0, <4>1, IdleStep
    <3> QED
      BY <3>1, <3>2
  <2>6. ASSUME NEW p \in Pollers, Poller(p) PROVE FInv' /\ [Fifo!FifoNext]_(Fifo!fifoVars)
    BY <2>0, <2>6, BeginStep, LookStep, PopStep, FreedStep, AnswerStep DEF Poller
  <2> QED
    BY <1>2, <2>1, <2>2, <2>3, <2>4, <2>5, <2>6 DEF LookNext, Next
<1> QED
  BY <1>1, <1>2

(* The initial state of the command manager is one of the queues'. *)
LEMMA FifoStart == ASSUME LookInit PROVE Fifo!FifoInit /\ FInv
<1>1. PollerQueue \in [Pollers -> Queues] /\ InitialQueues \subseteq Queues
  BY ConstantsAssumption
<1>2. Init /\ looked = [q \in Queues |-> <<>>]
  BY DEF LookInit
<1>3. /\ \A p \in Pollers : ~Moving(p) /\ res[p] = <<>> /\ kept[p] = <<>>
      /\ \A c \in Cmds : fate[c] = "unused" /\ ~pending[c]
      /\ \A q \in Queues : results[q] = <<>> /\ looked[q] = <<>>
      /\ pending_commands = {} /\ queues \subseteq Queues /\ log = [q \in Queues |-> <<>>]
  BY <1>1, <1>2 DEF Init, Moving
<1>4. FInv
  <2>1. NodesGone
    BY <1>1, <1>2 DEF NodesGone, Init
  <2>2. PollsEmpty /\ OnePopper /\ GoneEmpty
    BY <1>3 DEF PollsEmpty, OnePopper, GoneEmpty
  <2>3. KeptListed
    <3>1. \A p \in Pollers : Len(kept[p]) = 0
      BY <1>3
    <3> QED
      BY <3>1 DEF KeptListed
  <2>4. UserWorks /\ WantedOnly /\ UnaskedIdle
    BY <1>2, <1>3 DEF UserWorks, WantedOnly, UnaskedIdle, Init, Busy
  <2>5. LookInv
    BY <1>2, <1>3 DEF LookInv
  <2> QED
    BY <2>1, <2>2, <2>3, <2>4, <2>5 DEF FInv
<1>5. Unasked = Cmds /\ Waits = {} /\ Announced = {}
  BY <1>3 DEF Unasked, Waits, Announced
<1>6. [q \in Queues |-> Due(q)] = [q \in Queues |-> {}]
  <2>1. \A q \in Queues : Due(q) = {}
    BY <1>3 DEF Due
  <2> QED
    BY <2>1
<1>7. [q \in Queues |-> Ring(q)] = [q \in Queues |-> <<>>]
  <2>1. \A q \in Queues : Ring(q) = <<>>
    BY <1>3, ReverseEmpty, ConcatEmptySeq DEF Ring
  <2> QED
    BY <2>1
<1>8. [p \in Pollers |-> Taken(p)] = [p \in Pollers |-> <<>>]
  <2>1. \A p \in Pollers : Taken(p) = <<>>
    BY <1>3, ReverseEmpty DEF Taken
  <2> QED
    BY <2>1
<1> QED
  BY <1>3, <1>4, <1>5, <1>6, <1>7, <1>8 DEF Fifo!FifoInit

(* Polls are atomic steps of the abstract queues: each takes every result    *)
(* the game loop owes nothing, in the order of the queue, answers it once,   *)
(* and puts the pending ones back; a wanted result is lost only by eviction  *)
(* from the full ring, with its queue, or because it has no queue.  No       *)
(* hypothesis on the number of polls or on the commands.                     *)
THEOREM PollsInOrder == LookSpec => ImplementsFifo
<1>1. LookInit => Fifo!FifoInit /\ FInv /\ IInv
  BY FifoStart, OwnerInit DEF LookInit
<1>2. [LookNext]_<<vars, looked>> => [Next]_vars
  BY DEF LookNext
<1>3. IInv /\ [Next]_vars => IInv'
  BY OwnerNext
<1>4. IInv /\ FInv /\ [LookNext]_<<vars, looked>> => FInv' /\ [Fifo!FifoNext]_(Fifo!fifoVars)
  BY FifoStep
<1> QED
  BY <1>1, <1>2, <1>3, <1>4, PTL DEF LookSpec, ImplementsFifo, Fifo!FifoSpec

=============================================================================
