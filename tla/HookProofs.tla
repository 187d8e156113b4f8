----------------------------- MODULE HookProofs -----------------------------
(* Theorems about Hook for every number of threads, callbacks, visits and   *)
(* counter values.                                                          *)
EXTENDS Hook, FiniteSetTheorems, SequenceTheorems, TLAPS

Callback == [name : Callbacks, calls : Nat]

Stopped == {"patch", "install", "uninstall", "drain"}
OwnerAt == Stopped \cup {"new", "patch_running", "install_sleep", "live", "cleared",
                         "uninstall_sleep", "unhooked", "drain_sleep", "resumed", "done"}

HookTypes ==
  /\ manual \in BOOLEAN /\ crashed \in BOOLEAN
  /\ code \in {"original", "trampoline"} /\ detour \in {"live", "freed"}
  /\ callbacks \in Seq(Callback) /\ added \subseteq Callbacks
  /\ mu \in Threads \cup {Nobody}
  /\ count_enter \in 0..Modulus - 1 /\ count_exit \in 0..Modulus - 1
  /\ tpc \in [Threads -> TargetRegion \cup InDetour \cup {"out"}]
  /\ i \in [Threads -> Nat] /\ off \in [Threads -> Nat]
  /\ sus \in [All -> Nat]
  /\ dpc \in OwnerAt
  /\ seen \in [Threads -> Seq(Callbacks)] /\ invoked \in [Threads -> Seq(Callbacks)]
  /\ shrunk \in [Threads -> BOOLEAN]

(* What the position of the owner says about the rest. *)
OwnerKnows ==
  /\ dpc \in {"patch", "patch_running"} => manual
  /\ dpc # "done" => detour = "live"

(* How often a thread is suspended.  One in no_suspend_ can be left with one *)
(* suspension by each use of patch_code_safe.                                *)
SuspendedAsOften ==
  /\ \A t \in Threads : sus[t] = IF dpc \in Stopped THEN 1 ELSE 0
  /\ \A t \in NoSuspend :
       /\ sus[t] <= IF dpc = "drain" THEN 2 ELSE 1
       /\ dpc \in {"new", "patch", "patch_running", "install_sleep", "uninstall_sleep"}
            => sus[t] = 0

(* mu_ belongs to the thread that goes through the callbacks. *)
LockHeld ==
  \A t \in Threads : /\ tpc[t] = "cb" => mu = t
                     /\ mu = t /\ detour = "live" => tpc[t] = "cb"

(* A callback is registered once. *)
RegisteredOnce ==
  /\ \A k, l \in 1..Len(callbacks) : callbacks[k].name = callbacks[l].name => k = l
  /\ \A k \in 1..Len(callbacks) : callbacks[k].name \in added

(* A thread outside Hook::call has no locals of it. *)
Outside(t) ==
  i[t] = 0 /\ off[t] = 0 /\ seen[t] = <<>> /\ invoked[t] = <<>> /\ ~shrunk[t]

(* The loop invariant of Hook::call: the callbacks behind the current        *)
(* position are registered and not yet invoked, and as long as none was      *)
(* removed, those before it have been, in order.                             *)
Looping(t) ==
  /\ off[t] <= i[t]
  /\ IsInjective(invoked[t])
  /\ ToSet(invoked[t]) \subseteq ToSet(seen[t])
  /\ \A k \in 1..Len(callbacks) :
       /\ callbacks[k].name \in ToSet(seen[t])
       /\ k > i[t] - off[t] => callbacks[k].name \notin ToSet(invoked[t])
  /\ ~shrunk[t] =>
       /\ off[t] = 0 /\ i[t] <= Len(callbacks)
       /\ seen[t] = Names(callbacks)
       /\ invoked[t] = SubSeq(seen[t], 1, i[t])

Left(t) ==
  /\ IsInjective(invoked[t])
  /\ ~shrunk[t] => invoked[t] = seen[t]
  /\ ToSet(invoked[t]) \subseteq ToSet(seen[t])

CallInOrder(t) ==
  /\ tpc[t] \notin {"cb", "leave"} /\ detour = "live" => Outside(t)
  /\ tpc[t] = "cb" => Looping(t)
  /\ tpc[t] = "leave" => Left(t)
CallsInOrder == \A t \in Threads : CallInOrder(t)

(* As long as the detour is there, the counters differ by the number of      *)
(* threads between the two increments, as far as unsigned numbers can tell.  *)
Calling == {t \in Threads : tpc[t] \in InCall}
CountersDiffer ==
  detour = "live" =>
    \/ count_enter = count_exit + Cardinality(Calling)
    \/ count_enter + Modulus = count_exit + Cardinality(Calling)

HInv ==
  /\ HookTypes /\ OwnerKnows /\ SuspendedAsOften /\ RegionIntact
  /\ LockHeld /\ RegisteredOnce /\ CallsInOrder /\ CountersDiffer


-----------------------------------------------------------------------------
(* Operators *)

(* There are more values of a counter than threads. *)
LEMMA SomeCounts == Modulus \in Nat /\ Modulus > 0 /\ Cardinality(Threads) \in Nat
BY HookAssumption, FS_CardinalityType

(* An unsigned counter wraps to 0. *)
LEMMA Wraps ==
  ASSUME NEW x \in 0..Modulus - 1
  PROVE  (x + 1) % Modulus = IF x + 1 = Modulus THEN 0 ELSE x + 1
<1>1. Modulus \in Nat /\ Modulus > 0
  BY SomeCounts
<1>2. CASE x + 1 = Modulus
  <2>1. Modulus % Modulus = 0
    BY <1>1
  <2> QED
    BY <1>1, <1>2, <2>1
<1>3. CASE x + 1 < Modulus
  BY <1>1, <1>3
<1> QED
  BY <1>1, <1>2, <1>3

(* vector::erase of one element: those behind it move up. *)
LEMMA RemoveAtProperties ==
  ASSUME NEW S, NEW s \in Seq(S), NEW k \in 1..Len(s)
  PROVE  /\ RemoveAt(s, k) \in Seq(S)
         /\ Len(RemoveAt(s, k)) = Len(s) - 1
         /\ \A j \in 1..Len(s) - 1 : RemoveAt(s, k)[j] = IF j < k THEN s[j] ELSE s[j + 1]
<1> DEFINE a == SubSeq(s, 1, k - 1)
           b == SubSeq(s, k + 1, Len(s))
<1>1. a \in Seq(S) /\ Len(a) = k - 1 /\ \A j \in 1..k - 1 : a[j] = s[j]
  OBVIOUS
<1>2. b \in Seq(S) /\ Len(b) = Len(s) - k /\ \A j \in 1..Len(s) - k : b[j] = s[k + j]
  OBVIOUS
<1> HIDE DEF a, b
<1>3. /\ a \o b \in Seq(S) /\ Len(a \o b) = Len(s) - 1
      /\ \A j \in 1..Len(s) - 1 : (a \o b)[j] = IF j <= k - 1 THEN a[j] ELSE b[j - (k - 1)]
  <2>1. k - 1 \in Nat /\ Len(s) - k \in Nat /\ k - 1 + (Len(s) - k) = Len(s) - 1
    OBVIOUS
  <2>2. /\ a \o b \in Seq(S) /\ Len(a \o b) = Len(a) + Len(b)
        /\ \A j \in 1..Len(a) + Len(b) : (a \o b)[j] = IF j <= Len(a) THEN a[j] ELSE b[j - Len(a)]
    BY <1>1, <1>2, ConcatProperties
  <2>3. Len(a) = k - 1 /\ Len(a) + Len(b) = Len(s) - 1
    BY <1>1, <1>2, <2>1
  <2> QED
    BY <2>2, <2>3
<1>4. ASSUME NEW j \in 1..Len(s) - 1
      PROVE  (a \o b)[j] = IF j < k THEN s[j] ELSE s[j + 1]
  <2>1. CASE j < k
    BY <1>1, <1>3, <2>1
  <2>2. CASE ~(j < k)
    <3>1. j - (k - 1) \in 1..Len(s) - k /\ k + (j - (k - 1)) = j + 1
      BY <2>2
    <3> QED
      BY <1>2, <1>3, <2>2, <3>1
  <2> QED
    BY <2>1, <2>2
<1> QED
  BY <1>3, <1>4 DEF RemoveAt, a, b


(* A callback's position in the loop of Hook::call is one of callbacks_. *)
LEMMA LoopPosition ==
  ASSUME HInv, NEW t \in Threads, tpc[t] = "cb", ~LoopEnds(t)
  PROVE  /\ i[t] - off[t] + 1 \in 1..Len(callbacks)
         /\ i[t] < Len(callbacks)
         /\ i[t] - off[t] \in Nat
<1>1. i[t] \in Nat /\ off[t] \in Nat /\ Len(callbacks) \in Nat
  BY DEF HInv, HookTypes
<1>2. off[t] <= i[t]
  BY DEF HInv, CallsInOrder, CallInOrder, Looping
<1> QED
  BY <1>1, <1>2 DEF LoopEnds

-----------------------------------------------------------------------------
(* Types *)

LEMMA HookInit == Init => HInv
<1> SUFFICES ASSUME Init PROVE HInv
  OBVIOUS
<1>1. HookTypes
  <2>1. shrunk \in [Threads -> BOOLEAN]
    BY DEF Init
  <2>2. count_enter \in 0..Modulus - 1 /\ count_exit \in 0..Modulus - 1
    BY SomeCounts DEF Init
  <2>3. manual \in BOOLEAN /\ crashed \in BOOLEAN
    BY HookAssumption DEF Init
  <2> QED
    BY <2>1, <2>2, <2>3 DEF Init, HookTypes, OwnerAt, TargetRegion, InDetour, All
<1>2. OwnerKnows /\ SuspendedAsOften /\ RegionIntact
  BY DEF Init, OwnerKnows, SuspendedAsOften, RegionIntact, Stopped, All
<1>3. LockHeld /\ RegisteredOnce /\ CallsInOrder
  BY HookAssumption DEF Init, LockHeld, RegisteredOnce, CallsInOrder, CallInOrder, Outside
<1>4. Calling = {}
  BY DEF Init, Calling, InCall
<1>5. CountersDiffer
  BY <1>4, FS_EmptySet DEF Init, CountersDiffer
<1> QED
  BY <1>1, <1>2, <1>3, <1>5 DEF HInv

(* SuspendThread and ResumeThread keep a count. *)
LEMMA SuspendTypes ==
  ASSUME sus \in [All -> Nat], NEW ts
  PROVE  Suspended(ts) \in [All -> Nat] /\ Resumed(ts) \in [All -> Nat]
BY DEF Suspended, Resumed

(* Every action keeps the types. *)
LEMMA TypesNext ==
  ASSUME HInv, [Next]_vars
  PROVE  HookTypes'
<1> USE DEF threadVars, historyVars
<1>t. HookTypes
  BY DEF HInv
<1>1. ASSUME NEW t \in Threads, Reach(t)
      PROVE  HookTypes'
  BY <1>t, <1>1 DEF Reach, Moves, HookTypes, TargetRegion, InDetour, InCall
<1>2. ASSUME NEW t \in Threads, LeaveTarget(t)
      PROVE  HookTypes'
  BY <1>t, <1>2 DEF LeaveTarget, Moves, HookTypes, TargetRegion, InDetour, InCall
<1>3. ASSUME NEW t \in Threads, RunCopy(t)
      PROVE  HookTypes'
  BY <1>t, <1>3 DEF RunCopy, Moves, HookTypes, TargetRegion, InDetour, InCall
<1>4. ASSUME NEW t \in Threads, CountEnter(t)
      PROVE  HookTypes'
  <2>1. count_enter' \in 0..Modulus - 1
    BY <1>t, <1>4, Wraps, SomeCounts DEF CountEnter, HookTypes
  <2> QED
    BY <1>t, <1>4, <2>1 DEF CountEnter, Moves, HookTypes, TargetRegion, InDetour, InCall
<1>5. ASSUME NEW t \in Threads, CallLocks(t)
      PROVE  HookTypes'
  <2>1. Names(callbacks) \in Seq(Callbacks)
    <3>1. ASSUME NEW k \in 1..Len(callbacks) PROVE callbacks[k].name \in Callbacks
      <4>1. callbacks[k] \in Callback
        BY <1>t DEF HookTypes
      <4> QED
        BY <4>1 DEF Callback
    <3> QED
      BY <1>t, <3>1 DEF HookTypes, Names
  <2> QED
    BY <1>t, <1>5, <2>1 DEF CallLocks, Moves, HookTypes, TargetRegion, InDetour, InCall
<1>6. ASSUME NEW t \in Threads, CallReturns(t)
      PROVE  HookTypes'
  BY <1>t, <1>6 DEF CallReturns, Moves, HookTypes, TargetRegion, InDetour, InCall
<1>7. ASSUME NEW t \in Threads, CountExit(t)
      PROVE  HookTypes'
  <2>1. count_exit' \in 0..Modulus - 1
    BY <1>t, <1>7, Wraps, SomeCounts DEF CountExit, Counted, HookTypes
  <2>2. tpc' \in [Threads -> TargetRegion \cup InDetour \cup {"out"}]
    BY <1>t, <1>7 DEF CountExit, Moves, HookTypes, TargetRegion, InDetour, InCall
  <2>3. i' \in [Threads -> Nat] /\ off' \in [Threads -> Nat]
    BY <1>t, <1>7 DEF CountExit, HookTypes
  <2>4. seen' \in [Threads -> Seq(Callbacks)] /\ invoked' \in [Threads -> Seq(Callbacks)]
    BY <1>t, <1>7 DEF CountExit, HookTypes
  <2>5. shrunk' \in [Threads -> BOOLEAN]
    BY <1>t, <1>7 DEF CountExit, HookTypes
  <2> QED
    BY <1>t, <1>7, <2>1, <2>2, <2>3, <2>4, <2>5 DEF CountExit, HookTypes
<1>8. ASSUME NEW t \in Threads, Return(t)
      PROVE  HookTypes'
  BY <1>t, <1>8 DEF Return, Moves, HookTypes, TargetRegion, InDetour, InCall
<1>9. ASSUME NEW t \in Threads, RunsTorn(t)
      PROVE  HookTypes'
  BY <1>t, <1>9 DEF RunsTorn, Moves, HookTypes, TargetRegion, InDetour, InCall
<1>10. ASSUME NEW t \in Threads, NEW dies \in BOOLEAN, RunsFreed(t, dies)
      PROVE  HookTypes'
  BY <1>t, <1>10 DEF RunsFreed, Moves, HookTypes, TargetRegion, InDetour, InCall
<1>11. ASSUME NEW t \in Threads, CallInvokes(t)
       PROVE  HookTypes'
  <2> DEFINE ix == i[t] - off[t] + 1
             c == callbacks[ix].name
  <2>1. ix \in 1..Len(callbacks)
    BY <1>11, LoopPosition DEF CallInvokes
  <2>2. c \in Callbacks /\ callbacks[ix] \in Callback /\ callbacks[ix].calls + 1 \in Nat
    <3>1. callbacks[ix] \in Callback
      BY <1>t, <2>1 DEF HookTypes
    <3> QED
      BY <3>1 DEF Callback
  <2>3. RemoveAt(callbacks, ix) \in Seq(Callback)
    BY <1>t, <2>1, RemoveAtProperties DEF HookTypes
  <2>4. [callbacks EXCEPT ![ix].calls = callbacks[ix].calls + 1] \in Seq(Callback)
    <3> DEFINE r == [callbacks[ix] EXCEPT !.calls = callbacks[ix].calls + 1]
    <3>1. r \in Callback
      BY <2>2 DEF Callback
    <3>2. [callbacks EXCEPT ![ix].calls = callbacks[ix].calls + 1] = [callbacks EXCEPT ![ix] = r]
      OBVIOUS
    <3> HIDE DEF r
    <3>3. [callbacks EXCEPT ![ix] = r] \in Seq(Callback)
      BY <1>t, <2>1, <3>1 DEF HookTypes
    <3> QED
      BY <3>2, <3>3
  <2>5. /\ callbacks' = RemoveAt(callbacks, ix)
             \/ callbacks' = [callbacks EXCEPT ![ix].calls = callbacks[ix].calls + 1]
        /\ off' = off \/ off' = [off EXCEPT ![t] = @ + 1]
        /\ shrunk' = shrunk \/ shrunk' = [shrunk EXCEPT ![t] = TRUE]
        /\ i' = [i EXCEPT ![t] = @ + 1]
        /\ invoked' = [invoked EXCEPT ![t] = Append(@, c)]
        /\ UNCHANGED <<manual, code, detour, mu, count_enter, count_exit, tpc, sus, dpc, added,
                       crashed, seen>>
    BY <1>11 DEF CallInvokes
  <2> HIDE DEF ix, c
  <2>6. callbacks' \in Seq(Callback)
    BY <2>3, <2>4, <2>5
  <2>7. off' \in [Threads -> Nat] /\ i' \in [Threads -> Nat]
    <3>1. [off EXCEPT ![t] = @ + 1] \in [Threads -> Nat]
      BY <1>t DEF HookTypes
    <3>2. [i EXCEPT ![t] = @ + 1] \in [Threads -> Nat]
      BY <1>t DEF HookTypes
    <3> QED
      BY <1>t, <2>5, <3>1, <3>2 DEF HookTypes
  <2>8. shrunk' \in [Threads -> BOOLEAN]
    <3>1. [shrunk EXCEPT ![t] = TRUE] \in [Threads -> BOOLEAN]
      BY <1>t DEF HookTypes
    <3> QED
      BY <1>t, <2>5, <3>1 DEF HookTypes
  <2>9. invoked' \in [Threads -> Seq(Callbacks)]
    BY <1>t, <2>2, <2>5 DEF HookTypes
  <2> QED
    BY <1>t, <2>5, <2>6, <2>7, <2>8, <2>9 DEF HookTypes
<1>12. ASSUME NEW t \in Threads, NEW k \in 1..Cardinality(Callbacks), NEW dies \in BOOLEAN,
              RemoveCallback(t, k, dies)
       PROVE  HookTypes'
  <2>1. callbacks' \in Seq(Callback)
    BY <1>t, <1>12, RemoveAtProperties DEF RemoveCallback, HookTypes
  <2> QED
    BY <1>t, <1>12, <2>1 DEF RemoveCallback, HookTypes
<1>13. ASSUME NEW c \in Callbacks, AddCallback(c)
       PROVE  HookTypes'
  <2>1. [name |-> c, calls |-> 0] \in Callback
    BY DEF Callback
  <2> QED
    BY <1>t, <1>13, <2>1 DEF AddCallback, Owner, HookTypes, OwnerAt, Stopped
<1>14. ASSUME Installs
       PROVE  HookTypes'
  <2>1. sus' \in [All -> Nat]
    BY <1>t, <1>14, SuspendTypes DEF Installs, CreateHooksSuspends, PatchManual, SafeSuspends,
       SafeResumes, SafePauses, SafePatches, HookTypes
  <2>2. /\ code' \in {"original", "trampoline"}
        /\ dpc' \in OwnerAt
    BY <1>t, <1>14 DEF Installs, CreateHooksSuspends, PatchManual, SafeSuspends, SafeResumes,
       SafePauses, SafePatches, Owner, HookTypes, OwnerAt, Stopped
  <2>3. UNCHANGED <<manual, detour, callbacks, mu, added, count_enter, count_exit, tpc, i, off, crashed, seen, invoked, shrunk>>
    BY <1>14 DEF Installs, CreateHooksSuspends, PatchManual, SafeSuspends, SafeResumes,
       SafePauses, SafePatches, Owner
  <2> QED
    BY <1>t, <2>1, <2>2, <2>3 DEF HookTypes
<1>15. ASSUME Destructs
       PROVE  HookTypes'
  <2>1. sus' \in [All -> Nat]
    BY <1>t, <1>15, SuspendTypes DEF Destructs, DestructorClears, DestructorSuspends, DrainResumes,
       DrainPauses, DestructorResumes, DestructorFrees, HookTypes
  <2>2. /\ dpc' \in OwnerAt
        /\ detour' \in {"live", "freed"}
        /\ callbacks' = callbacks \/ callbacks' = <<>>
    BY <1>t, <1>15 DEF Destructs, DestructorClears, DestructorSuspends, DrainResumes, DrainPauses,
       DestructorResumes, DestructorFrees, Owner, HookTypes, OwnerAt, Stopped
  <2>3. UNCHANGED <<manual, code, mu, added, count_enter, count_exit, tpc, i, off, crashed, seen, invoked, shrunk>>
    BY <1>15 DEF Destructs, DestructorClears, DestructorSuspends, DrainResumes, DrainPauses,
       DestructorResumes, DestructorFrees, Owner
  <2>4. callbacks' \in Seq(Callback)
    <3>1. callbacks \in Seq(Callback) /\ <<>> \in Seq(Callback)
      BY <1>t DEF HookTypes
    <3> QED
      BY <2>2, <3>1
  <2> QED
    BY <1>t, <2>1, <2>2, <2>3, <2>4 DEF HookTypes
<1>16. CASE UNCHANGED vars
  BY <1>t, <1>16 DEF vars, HookTypes
<1> QED
  BY <1>1, <1>2, <1>3, <1>4, <1>5, <1>6, <1>7, <1>8, <1>9, <1>10, <1>11, <1>12, <1>13, <1>14, <1>15, <1>16 DEF Next, Thread, Rests


-----------------------------------------------------------------------------
(* The owner and the target region *)

(* A thread leaves the owner's variables and the other threads alone. *)
LEMMA ThreadFrame ==
  ASSUME HookTypes, NEW t \in Threads, Thread(t)
  PROVE  /\ UNCHANGED <<manual, code, detour, sus, dpc, added>>
         /\ \A u \in Threads : u # t =>
              /\ tpc'[u] = tpc[u] /\ i'[u] = i[u] /\ off'[u] = off[u]
              /\ seen'[u] = seen[u] /\ invoked'[u] = invoked[u] /\ shrunk'[u] = shrunk[u]
BY DEF HookTypes, Thread, Reach, LeaveTarget, RunCopy, CountEnter, CallLocks, CallInvokes,
     CallReturns, CountExit, Return, RunsTorn, RunsFreed, Moves, threadVars, historyVars

(* A thread steps into the target region as it finds it. *)
LEMMA ThreadEnters ==
  ASSUME HookTypes, NEW t \in Threads, Thread(t)
  PROVE  /\ tpc'[t] = "orig" => code = "original"
         /\ tpc'[t] = "tramp" => code = "trampoline"
BY DEF HookTypes, Thread, Reach, LeaveTarget, RunCopy, CountEnter, CallLocks, CallInvokes,
     CallReturns, CountExit, Return, RunsTorn, RunsFreed, Moves, threadVars, historyVars

(* Nobody but the owner of the hook moves it, and it suspends and resumes   *)
(* every thread alternately.                                                *)
LEMMA OwnerNext ==
  ASSUME HInv, [Next]_vars
  PROVE  OwnerKnows' /\ SuspendedAsOften' /\ RegionIntact'
<1> USE DEF threadVars, historyVars
<1>t. HookTypes /\ OwnerKnows /\ SuspendedAsOften /\ RegionIntact
  BY DEF HInv
<1>a. \A t \in All : sus[t] \in Nat /\ (t \in Threads => t \notin NoSuspend)
  BY <1>t, HookAssumption DEF HookTypes, All
<1>b. \A t \in Threads : t \in All
  BY DEF All
<1>c. \A t \in NoSuspend : t \in All /\ t \notin Threads
  BY HookAssumption DEF All
<1>1. ASSUME NEW t \in Threads, Thread(t)
      PROVE  OwnerKnows' /\ SuspendedAsOften' /\ RegionIntact'
  <2>1. UNCHANGED <<manual, code, detour, sus, dpc, added>>
    BY <1>t, <1>1, ThreadFrame
  <2>2. OwnerKnows' /\ SuspendedAsOften'
    BY <1>t, <2>1 DEF OwnerKnows, SuspendedAsOften
  <2>3. \A u \in Threads : u # t => tpc'[u] = tpc[u]
    BY <1>t, <1>1, ThreadFrame
  <2>4. RegionIntact'
    BY <1>t, <1>1, <2>1, <2>3, ThreadEnters DEF RegionIntact
  <2> QED
    BY <2>2, <2>4
<1>2. ASSUME NEW s \in BOOLEAN, CreateHooksSuspends(s)
      PROVE  OwnerKnows' /\ SuspendedAsOften' /\ RegionIntact'
  <2>1. OwnerKnows' /\ RegionIntact'
    BY <1>t, <1>2 DEF CreateHooksSuspends, Owner, OwnerKnows, RegionIntact
  <2>2. SuspendedAsOften'
    BY <1>t, <1>a, <1>b, <1>c, <1>2 DEF CreateHooksSuspends, Owner, Suspended, Resumed, SuspendedAsOften, Stopped
  <2> QED
    BY <2>1, <2>2
<1>3. ASSUME PatchManual
      PROVE  OwnerKnows' /\ SuspendedAsOften' /\ RegionIntact'
  <2>1. OwnerKnows' /\ RegionIntact'
    BY <1>t, <1>3 DEF PatchManual, Owner, OwnerKnows, RegionIntact
  <2>2. SuspendedAsOften'
    BY <1>t, <1>a, <1>b, <1>c, <1>3 DEF PatchManual, Owner, Suspended, Resumed, SuspendedAsOften, Stopped
  <2> QED
    BY <2>1, <2>2
<1>4. ASSUME SafeSuspends
      PROVE  OwnerKnows' /\ SuspendedAsOften' /\ RegionIntact'
  <2>1. OwnerKnows' /\ RegionIntact'
    BY <1>t, <1>4 DEF SafeSuspends, Owner, OwnerKnows, RegionIntact
  <2>2. SuspendedAsOften'
    BY <1>t, <1>a, <1>b, <1>c, <1>4 DEF SafeSuspends, Owner, Suspended, Resumed, SuspendedAsOften, Stopped
  <2> QED
    BY <2>1, <2>2
<1>5. ASSUME SafeResumes
      PROVE  OwnerKnows' /\ SuspendedAsOften' /\ RegionIntact'
  <2>1. OwnerKnows' /\ RegionIntact'
    BY <1>t, <1>5 DEF SafeResumes, Owner, OwnerKnows, RegionIntact
  <2>2. SuspendedAsOften'
    BY <1>t, <1>a, <1>b, <1>c, <1>5 DEF SafeResumes, Owner, Suspended, Resumed, SuspendedAsOften, Stopped
  <2> QED
    BY <2>1, <2>2
<1>6. ASSUME SafePauses
      PROVE  OwnerKnows' /\ SuspendedAsOften' /\ RegionIntact'
  <2>1. OwnerKnows' /\ RegionIntact'
    BY <1>t, <1>6 DEF SafePauses, Owner, OwnerKnows, RegionIntact
  <2>2. SuspendedAsOften'
    BY <1>t, <1>a, <1>b, <1>c, <1>6 DEF SafePauses, Owner, Suspended, Resumed, SuspendedAsOften, Stopped
  <2> QED
    BY <2>1, <2>2
<1>7. ASSUME SafePatches
      PROVE  OwnerKnows' /\ SuspendedAsOften' /\ RegionIntact'
  <2>1. OwnerKnows' /\ RegionIntact'
    BY <1>t, <1>7 DEF SafePatches, AtTarget, TargetRegion, Owner, OwnerKnows, RegionIntact
  <2>2. SuspendedAsOften'
    BY <1>t, <1>a, <1>b, <1>c, <1>7 DEF SafePatches, AtTarget, TargetRegion, Owner, Suspended, Resumed, SuspendedAsOften, Stopped
  <2> QED
    BY <2>1, <2>2
<1>8. ASSUME NEW c \in Callbacks, AddCallback(c)
      PROVE  OwnerKnows' /\ SuspendedAsOften' /\ RegionIntact'
  <2>1. OwnerKnows' /\ RegionIntact'
    BY <1>t, <1>8 DEF AddCallback, Owner, OwnerKnows, RegionIntact
  <2>2. SuspendedAsOften'
    BY <1>t, <1>a, <1>b, <1>c, <1>8 DEF AddCallback, Owner, Suspended, Resumed, SuspendedAsOften, Stopped
  <2> QED
    BY <2>1, <2>2
<1>9. ASSUME DestructorClears
      PROVE  OwnerKnows' /\ SuspendedAsOften' /\ RegionIntact'
  <2>1. OwnerKnows' /\ RegionIntact'
    BY <1>t, <1>9 DEF DestructorClears, Owner, OwnerKnows, RegionIntact
  <2>2. SuspendedAsOften'
    BY <1>t, <1>a, <1>b, <1>c, <1>9 DEF DestructorClears, Owner, Suspended, Resumed, SuspendedAsOften, Stopped
  <2> QED
    BY <2>1, <2>2
<1>10. ASSUME DestructorSuspends
      PROVE  OwnerKnows' /\ SuspendedAsOften' /\ RegionIntact'
  <2>1. OwnerKnows' /\ RegionIntact'
    BY <1>t, <1>10 DEF DestructorSuspends, Owner, OwnerKnows, RegionIntact
  <2>2. SuspendedAsOften'
    BY <1>t, <1>a, <1>b, <1>c, <1>10 DEF DestructorSuspends, Owner, Suspended, Resumed, SuspendedAsOften, Stopped
  <2> QED
    BY <2>1, <2>2
<1>11. ASSUME DrainResumes
      PROVE  OwnerKnows' /\ SuspendedAsOften' /\ RegionIntact'
  <2>1. OwnerKnows' /\ RegionIntact'
    BY <1>t, <1>11 DEF DrainResumes, Owner, OwnerKnows, RegionIntact
  <2>2. SuspendedAsOften'
    BY <1>t, <1>a, <1>b, <1>c, <1>11 DEF DrainResumes, Owner, Suspended, Resumed, SuspendedAsOften, Stopped
  <2> QED
    BY <2>1, <2>2
<1>12. ASSUME DrainPauses
      PROVE  OwnerKnows' /\ SuspendedAsOften' /\ RegionIntact'
  <2>1. OwnerKnows' /\ RegionIntact'
    BY <1>t, <1>12 DEF DrainPauses, Owner, OwnerKnows, RegionIntact
  <2>2. SuspendedAsOften'
    BY <1>t, <1>a, <1>b, <1>c, <1>12 DEF DrainPauses, Owner, Suspended, Resumed, SuspendedAsOften, Stopped
  <2> QED
    BY <2>1, <2>2
<1>13. ASSUME DestructorResumes
      PROVE  OwnerKnows' /\ SuspendedAsOften' /\ RegionIntact'
  <2>1. OwnerKnows' /\ RegionIntact'
    BY <1>t, <1>13 DEF DestructorResumes, Owner, OwnerKnows, RegionIntact
  <2>2. SuspendedAsOften'
    BY <1>t, <1>a, <1>b, <1>c, <1>13 DEF DestructorResumes, Owner, Suspended, Resumed, SuspendedAsOften, Stopped
  <2> QED
    BY <2>1, <2>2
<1>14. ASSUME DestructorFrees
      PROVE  OwnerKnows' /\ SuspendedAsOften' /\ RegionIntact'
  <2>1. OwnerKnows' /\ RegionIntact'
    BY <1>t, <1>14 DEF DestructorFrees, Owner, OwnerKnows, RegionIntact
  <2>2. SuspendedAsOften'
    BY <1>t, <1>a, <1>b, <1>c, <1>14 DEF DestructorFrees, Owner, Suspended, Resumed, SuspendedAsOften, Stopped
  <2> QED
    BY <2>1, <2>2
<1>15. ASSUME NEW t \in Threads, NEW k \in 1..Cardinality(Callbacks), NEW dies \in BOOLEAN,
              RemoveCallback(t, k, dies)
       PROVE  OwnerKnows' /\ SuspendedAsOften' /\ RegionIntact'
  BY <1>t, <1>15 DEF RemoveCallback, OwnerKnows, SuspendedAsOften, RegionIntact
<1>16. CASE UNCHANGED vars
  BY <1>t, <1>16 DEF vars, OwnerKnows, SuspendedAsOften, RegionIntact
<1> QED
  BY <1>1, <1>2, <1>3, <1>4, <1>5, <1>6, <1>7, <1>8, <1>9, <1>10, <1>11, <1>12, <1>13, <1>14, <1>15, <1>16 DEF Next, Installs, Destructs, Rests


-----------------------------------------------------------------------------
(* Hook::call *)

(* The owner leaves the threads alone, and clears the callbacks only while   *)
(* no call holds mu_.                                                        *)
LEMMA OwnerFrame ==
  ASSUME Installs \/ Destructs
  PROVE  /\ UNCHANGED <<count_enter, count_exit, tpc, i, off, crashed, seen, invoked, shrunk, mu,
                        added>>
         /\ detour' = detour \/ detour' = "freed"
         /\ callbacks' = callbacks \/ (callbacks' = <<>> /\ mu = Nobody)
BY DEF Installs, Destructs, CreateHooksSuspends, PatchManual, SafeSuspends, SafeResumes, SafePauses,
     SafePatches, DestructorClears, DestructorSuspends, DrainResumes, DrainPauses,
     DestructorResumes, DestructorFrees, Owner, threadVars, historyVars

(* Every step keeps LockHeld: mu_ is held by the one thread inside. *)
LEMMA LockNext ==
  ASSUME HInv, [Next]_vars
  PROVE  LockHeld'
<1>t. HookTypes /\ LockHeld /\ Nobody \notin Threads
  BY HookAssumption DEF HInv
<1>1. ASSUME NEW t \in Threads, CallLocks(t) \/ CallReturns(t)
      PROVE  LockHeld'
  <2>1. /\ detour' = detour
        /\ \A u \in Threads : u # t => tpc'[u] = tpc[u]
        /\ \/ mu = Nobody /\ mu' = t /\ tpc'[t] = "cb"
           \/ tpc[t] = "cb" /\ mu' = Nobody /\ tpc'[t] = "leave"
    BY <1>t, <1>1 DEF CallLocks, CallReturns, Moves, HookTypes
  <2> QED
    BY <1>t, <2>1 DEF LockHeld
<1>2. ASSUME NEW t \in Threads, Thread(t), ~CallLocks(t), ~CallReturns(t)
      PROVE  LockHeld'
  <2>1. /\ mu' = mu /\ detour' = detour
        /\ \A u \in Threads : u # t => tpc'[u] = tpc[u]
        /\ tpc'[t] = "cb" => tpc[t] = "cb"
        /\ tpc[t] = "cb" => tpc'[t] = "cb" \/ detour = "freed"
    BY <1>t, <1>2 DEF HookTypes, Thread, Reach, LeaveTarget, RunCopy, CountEnter, CallInvokes,
         CountExit, Return, RunsTorn, RunsFreed, Moves
  <2> QED
    BY <1>t, <2>1 DEF LockHeld
<1>3. ASSUME Installs \/ Destructs
      PROVE  LockHeld'
  BY <1>t, <1>3, OwnerFrame DEF LockHeld
<1>4. ASSUME NEW c \in Callbacks, AddCallback(c)
      PROVE  LockHeld'
  BY <1>t, <1>4 DEF AddCallback, Owner, threadVars, LockHeld
<1>5. ASSUME NEW t \in Threads, NEW k \in 1..Cardinality(Callbacks), NEW dies \in BOOLEAN,
             RemoveCallback(t, k, dies)
      PROVE  LockHeld'
  BY <1>t, <1>5 DEF RemoveCallback, threadVars, LockHeld
<1>6. CASE UNCHANGED vars
  BY <1>t, <1>6 DEF vars, threadVars, LockHeld
<1> QED
  BY <1>1, <1>2, <1>3, <1>4, <1>5, <1>6 DEF Next, Rests

(* Removing a callback or counting a call registers nothing twice. *)
LEMMA RegisteredNext ==
  ASSUME HInv, [Next]_vars
  PROVE  RegisteredOnce'
<1>t. HookTypes /\ RegisteredOnce
  BY DEF HInv
<1>r. ASSUME NEW k \in 1..Len(callbacks), callbacks' = RemoveAt(callbacks, k), added' = added
      PROVE  RegisteredOnce'
  <2>1. /\ Len(callbacks') = Len(callbacks) - 1
        /\ \A j \in 1..Len(callbacks) - 1 :
             callbacks'[j] = IF j < k THEN callbacks[j] ELSE callbacks[j + 1]
    BY <1>t, <1>r, RemoveAtProperties DEF HookTypes
  <2>2. Len(callbacks) \in Nat
    BY <1>t DEF HookTypes
  <2>3. ASSUME NEW j \in 1..Len(callbacks) - 1
        PROVE  /\ j \in 1..Len(callbacks) /\ j + 1 \in 1..Len(callbacks)
               /\ callbacks'[j].name \in added
    BY <1>t, <2>1, <2>2 DEF RegisteredOnce
  <2>4. ASSUME NEW j \in 1..Len(callbacks) - 1, NEW l \in 1..Len(callbacks) - 1,
               callbacks'[j].name = callbacks'[l].name
        PROVE  j = l
    <3> DEFINE a == IF j < k THEN j ELSE j + 1
               b == IF l < k THEN l ELSE l + 1
    <3>1. a \in 1..Len(callbacks) /\ b \in 1..Len(callbacks)
      BY <2>2
    <3>2. callbacks'[j] = callbacks[a] /\ callbacks'[l] = callbacks[b]
      BY <2>1
    <3>3. a = b
      BY <1>t, <2>4, <3>1, <3>2 DEF RegisteredOnce
    <3> QED
      BY <3>3
  <2> QED
    BY <1>r, <2>1, <2>3, <2>4 DEF RegisteredOnce
<1>1. ASSUME NEW t \in Threads, CallInvokes(t)
      PROVE  RegisteredOnce'
  <2> DEFINE ix == i[t] - off[t] + 1
             n == callbacks[ix].calls + 1
  <2>1. ix \in 1..Len(callbacks)
    BY <1>1, LoopPosition DEF CallInvokes
  <2>2. /\ added' = added
        /\ \/ callbacks' = RemoveAt(callbacks, ix)
           \/ callbacks' = [callbacks EXCEPT ![ix].calls = n]
    BY <1>1 DEF CallInvokes
  <2> HIDE DEF ix, n
  <2>3. ASSUME callbacks' = [callbacks EXCEPT ![ix].calls = n]
        PROVE  RegisteredOnce'
    <3>1. Len(callbacks') = Len(callbacks)
      BY <1>t, <2>1, <2>3 DEF HookTypes
    <3>2. ASSUME NEW k \in 1..Len(callbacks) PROVE callbacks'[k].name = callbacks[k].name
      <4>1. callbacks[k] \in Callback
        BY <1>t DEF HookTypes
      <4> QED
        BY <1>t, <2>1, <2>3, <4>1 DEF HookTypes, Callback
    <3> QED
      BY <1>t, <2>2, <3>1, <3>2 DEF RegisteredOnce
  <2> QED
    BY <1>r, <2>1, <2>2, <2>3
<1>2. ASSUME NEW t \in Threads, Thread(t), ~CallInvokes(t)
      PROVE  RegisteredOnce'
  <2>1. callbacks' = callbacks /\ added' = added
    BY <1>2 DEF Thread, Reach, LeaveTarget, RunCopy, CountEnter, CallLocks, CallReturns,
         CountExit, Return, RunsTorn, RunsFreed
  <2> QED
    BY <1>t, <2>1 DEF RegisteredOnce
<1>3. ASSUME Installs \/ Destructs
      PROVE  RegisteredOnce'
  BY <1>t, <1>3, OwnerFrame DEF RegisteredOnce
<1>4. ASSUME NEW c \in Callbacks, AddCallback(c)
      PROVE  RegisteredOnce'
  <2> DEFINE r == [name |-> c, calls |-> 0]
  <2>1. /\ callbacks' = Append(callbacks, r)
        /\ added' = added \cup {c} /\ c \notin added /\ r.name = c
    BY <1>4 DEF AddCallback
  <2> HIDE DEF r
  <2>2. /\ Len(callbacks') = Len(callbacks) + 1 /\ Len(callbacks) \in Nat
        /\ \A k \in 1..Len(callbacks) : callbacks'[k] = callbacks[k]
        /\ callbacks'[Len(callbacks) + 1] = r
    BY <1>t, <2>1 DEF HookTypes
  <2> QED
    BY <1>t, <2>1, <2>2 DEF RegisteredOnce
<1>5. ASSUME NEW t \in Threads, NEW k \in 1..Cardinality(Callbacks), NEW dies \in BOOLEAN,
             RemoveCallback(t, k, dies)
      PROVE  RegisteredOnce'
  BY <1>r, <1>5 DEF RemoveCallback
<1>6. CASE UNCHANGED vars
  BY <1>t, <1>6 DEF vars, RegisteredOnce
<1> QED
  BY <1>1, <1>2, <1>3, <1>4, <1>5, <1>6 DEF Next, Rests


(* A call that nobody interferes with is where it was. *)
LEMMA CallKept ==
  ASSUME NEW t \in Threads, CallInOrder(t),
         tpc'[t] = tpc[t], i'[t] = i[t], off'[t] = off[t], seen'[t] = seen[t],
         invoked'[t] = invoked[t], shrunk'[t] = shrunk[t],
         detour' = "live" => detour = "live",
         tpc[t] = "cb" => callbacks' = callbacks
  PROVE  CallInOrder(t)'
BY DEF CallInOrder, Outside, Looping, Left, Names

(* Invoking one callback more, which was not invoked before. *)
LEMMA InvokeOne ==
  ASSUME NEW S, NEW s \in Seq(S), NEW e \in S, IsInjective(s), e \notin ToSet(s)
  PROVE  /\ IsInjective(Append(s, e))
         /\ ToSet(Append(s, e)) = ToSet(s) \cup {e}
<1>1. /\ Len(Append(s, e)) = Len(s) + 1 /\ Len(s) \in Nat
      /\ \A k \in 1..Len(s) : Append(s, e)[k] = s[k]
      /\ Append(s, e)[Len(s) + 1] = e
      /\ DOMAIN s = 1..Len(s) /\ DOMAIN Append(s, e) = 1..Len(s) + 1
  OBVIOUS
<1>2. \A k \in 1..Len(s) : s[k] # e
  BY <1>1 DEF ToSet
<1>3. IsInjective(Append(s, e))
  BY <1>1, <1>2 DEF IsInjective
<1>4. ToSet(Append(s, e)) \subseteq ToSet(s) \cup {e}
  BY <1>1 DEF ToSet
<1>5. ToSet(s) \cup {e} \subseteq ToSet(Append(s, e))
  BY <1>1 DEF ToSet
<1> QED
  BY <1>3, <1>4, <1>5

(* The loop invariant of Hook::call is kept by a turn of the loop. *)
LEMMA InvokeKeepsOrder ==
  ASSUME HInv, NEW t \in Threads, CallInvokes(t)
  PROVE  CallInOrder(t)'
<1> DEFINE ix == i[t] - off[t] + 1
           c == callbacks[ix].name
           n == callbacks[ix].calls + 1
           s == invoked[t]
<1>t. HookTypes /\ RegisteredOnce /\ Looping(t)
  BY DEF HInv, CallsInOrder, CallInOrder, CallInvokes
<1>1. ix \in 1..Len(callbacks) /\ i[t] < Len(callbacks)
  BY LoopPosition DEF CallInvokes
<1>2. /\ i[t] \in Nat /\ off[t] \in Nat /\ Len(callbacks) \in Nat /\ s \in Seq(Callbacks)
      /\ callbacks \in Seq(Callback) /\ shrunk[t] \in BOOLEAN /\ seen[t] \in Seq(Callbacks)
  BY <1>t DEF HookTypes
<1>3. c \in Callbacks /\ callbacks[ix] \in Callback
  <2>1. callbacks[ix] \in Callback
    BY <1>1, <1>2
  <2> QED
    BY <2>1 DEF Callback
<1>4. c \in ToSet(seen[t]) /\ c \notin ToSet(s)
  BY <1>t, <1>1, <1>2 DEF Looping
<1>5. /\ tpc'[t] = "cb" /\ i'[t] = i[t] + 1 /\ seen'[t] = seen[t] /\ invoked'[t] = Append(s, c)
      /\ \/ /\ callbacks' = RemoveAt(callbacks, ix) /\ off'[t] = off[t] + 1 /\ shrunk'[t] = TRUE
         \/ /\ callbacks' = [callbacks EXCEPT ![ix].calls = n]
            /\ off'[t] = off[t] /\ shrunk'[t] = shrunk[t]
  BY <1>t DEF CallInvokes, HookTypes
<1>6. ix = i[t] - off[t] + 1
  OBVIOUS
<1>7. c = callbacks[ix].name
  OBVIOUS
<1>8. s = invoked[t]
  OBVIOUS
<1> HIDE DEF ix, c, n, s
<1>9. /\ IsInjective(Append(s, c)) /\ ToSet(Append(s, c)) = ToSet(s) \cup {c}
      /\ off[t] <= i[t] /\ ToSet(s) \subseteq ToSet(seen[t])
  BY <1>t, <1>2, <1>3, <1>4, <1>8, InvokeOne DEF Looping
<1>10. \A k \in 1..Len(callbacks) : k # ix => callbacks[k].name # c
  BY <1>t, <1>1, <1>7 DEF RegisteredOnce
<1>11. \A k \in 1..Len(callbacks) :
         /\ callbacks[k].name \in ToSet(seen[t])
         /\ k > ix => callbacks[k].name \notin ToSet(s) \cup {c}
  <2> SUFFICES ASSUME NEW k \in 1..Len(callbacks)
               PROVE  /\ callbacks[k].name \in ToSet(seen[t])
                      /\ k > ix => callbacks[k].name \notin ToSet(s) \cup {c}
    OBVIOUS
  <2>1. k > ix => k > i[t] - off[t] /\ k # ix
    BY <1>1, <1>2, <1>6
  <2>2. /\ callbacks[k].name \in ToSet(seen[t])
        /\ k > i[t] - off[t] => callbacks[k].name \notin ToSet(s)
    BY <1>t, <1>8 DEF Looping
  <2> QED
    BY <1>10, <2>1, <2>2
<1>12. CASE /\ callbacks' = RemoveAt(callbacks, ix) /\ off'[t] = off[t] + 1 /\ shrunk'[t] = TRUE
  <2>1. /\ Len(callbacks') = Len(callbacks) - 1
        /\ \A j \in 1..Len(callbacks) - 1 :
             callbacks'[j] = IF j < ix THEN callbacks[j] ELSE callbacks[j + 1]
    BY <1>1, <1>2, <1>12, RemoveAtProperties
  <2>2. i'[t] - off'[t] = ix - 1 /\ off'[t] <= i'[t]
    <3>1. i'[t] = i[t] + 1 /\ off'[t] = off[t] + 1
      BY <1>5, <1>12
    <3> QED
      BY <1>2, <1>6, <1>9, <3>1
  <2>3. ASSUME NEW k \in 1..Len(callbacks')
        PROVE  /\ callbacks'[k].name \in ToSet(seen[t])
               /\ k > ix - 1 => callbacks'[k].name \notin ToSet(s) \cup {c}
    <3>1. k \in 1..Len(callbacks) - 1 /\ k \in 1..Len(callbacks) /\ k + 1 \in 1..Len(callbacks)
      BY <1>2, <2>1
    <3>2. CASE k < ix
      BY <1>1, <1>11, <2>1, <3>1, <3>2
    <3>3. CASE ~(k < ix)
      BY <1>1, <1>11, <2>1, <3>1, <3>3
    <3> QED
      BY <3>2, <3>3
  <2>4. Looping(t)'
    <3>1. ToSet(invoked'[t]) = ToSet(s) \cup {c} /\ IsInjective(invoked'[t])
      BY <1>5, <1>9
    <3>2. \A k \in 1..Len(callbacks') :
            /\ callbacks'[k].name \in ToSet(seen'[t])
            /\ k > i'[t] - off'[t] => callbacks'[k].name \notin ToSet(invoked'[t])
      BY <1>5, <2>2, <2>3, <3>1
    <3>3. ToSet(invoked'[t]) \subseteq ToSet(seen'[t])
      BY <1>4, <1>5, <1>9, <3>1
    <3> QED
      BY <1>12, <2>2, <3>1, <3>2, <3>3 DEF Looping
  <2> QED
    BY <1>5, <2>4 DEF CallInOrder
<1>13. CASE /\ callbacks' = [callbacks EXCEPT ![ix].calls = n]
            /\ off'[t] = off[t] /\ shrunk'[t] = shrunk[t]
  <2>1. Len(callbacks') = Len(callbacks)
    BY <1>1, <1>2, <1>13
  <2>2. ASSUME NEW k \in 1..Len(callbacks) PROVE callbacks'[k].name = callbacks[k].name
    <3>1. callbacks[k] \in Callback
      BY <1>2
    <3> QED
      BY <1>1, <1>2, <1>13, <3>1 DEF Callback
  <2>3. i'[t] - off'[t] = ix /\ off'[t] <= i'[t]
    BY <1>2, <1>5, <1>6, <1>9, <1>13
  <2>4. \A k \in 1..Len(callbacks') :
          /\ callbacks'[k].name \in ToSet(seen[t])
          /\ k > ix => callbacks'[k].name \notin ToSet(s) \cup {c}
    BY <1>11, <2>1, <2>2
  <2>5. ASSUME ~shrunk'[t]
        PROVE  /\ off'[t] = 0 /\ i'[t] <= Len(callbacks')
               /\ seen'[t] = Names(callbacks')
               /\ invoked'[t] = SubSeq(seen'[t], 1, i'[t])
    <3>1. off[t] = 0 /\ seen[t] = Names(callbacks) /\ s = SubSeq(seen[t], 1, i[t])
      BY <1>t, <1>8, <1>13, <2>5 DEF Looping
    <3>2. Names(callbacks') = Names(callbacks)
      BY <1>2, <2>1, <2>2 DEF Names
    <3>3. ix = i[t] + 1
      BY <1>2, <1>6, <3>1
    <3>4. seen[t][ix] = c /\ Len(seen[t]) = Len(callbacks)
      BY <1>1, <1>2, <1>7, <3>1 DEF Names
    <3>5. Append(SubSeq(seen[t], 1, i[t]), seen[t][i[t] + 1]) = SubSeq(seen[t], 1, i[t] + 1)
      BY <1>1, <1>2, <3>4
    <3>6. invoked'[t] = SubSeq(seen'[t], 1, i'[t])
      BY <1>5, <3>1, <3>3, <3>4, <3>5
    <3> QED
      BY <1>1, <1>2, <1>5, <1>13, <2>1, <3>1, <3>2, <3>6
  <2>6. Looping(t)'
    <3>1. ToSet(invoked'[t]) = ToSet(s) \cup {c} /\ IsInjective(invoked'[t])
      BY <1>5, <1>9
    <3>2. \A k \in 1..Len(callbacks') :
            /\ callbacks'[k].name \in ToSet(seen'[t])
            /\ k > i'[t] - off'[t] => callbacks'[k].name \notin ToSet(invoked'[t])
      BY <1>5, <2>3, <2>4, <3>1
    <3>3. ToSet(invoked'[t]) \subseteq ToSet(seen'[t])
      BY <1>4, <1>5, <1>9, <3>1
    <3> QED
      BY <2>3, <2>5, <3>1, <3>2, <3>3 DEF Looping
  <2> QED
    BY <1>5, <2>6 DEF CallInOrder
<1> QED
  BY <1>5, <1>12, <1>13


(* Every step keeps the order of the calls each thread has made. *)
LEMMA CallsNext ==
  ASSUME HInv, [Next]_vars
  PROVE  CallsInOrder'
<1>t. /\ HookTypes /\ LockHeld /\ OwnerKnows /\ Nobody \notin Threads
      /\ \A u \in Threads : CallInOrder(u)
  BY HookAssumption DEF HInv, CallsInOrder
<1>1. ASSUME NEW t \in Threads, Thread(t), NEW u \in Threads, u # t
      PROVE  CallInOrder(u)'
  <2>1. CallInvokes(t) \/ callbacks' = callbacks
    BY <1>1 DEF Thread, Reach, LeaveTarget, RunCopy, CountEnter, CallLocks, CallReturns,
         CountExit, Return, RunsTorn, RunsFreed
  <2>2. tpc[u] = "cb" => callbacks' = callbacks
    BY <1>t, <1>1, <2>1 DEF CallInvokes, LockHeld
  <2> QED
    BY <1>t, <1>1, <2>2, ThreadFrame, CallKept
<1>2. ASSUME NEW t \in Threads,
             \/ Reach(t) \/ LeaveTarget(t) \/ RunCopy(t) \/ CountEnter(t) \/ Return(t) \/ RunsTorn(t)
      PROVE  CallInOrder(t)'
  <2>1. /\ tpc[t] \notin {"cb", "leave"} /\ tpc'[t] \notin {"cb", "leave"} /\ detour' = detour
        /\ i' = i /\ off' = off /\ seen' = seen /\ invoked' = invoked /\ shrunk' = shrunk
    BY <1>t, <1>2 DEF HookTypes, Reach, LeaveTarget, RunCopy, CountEnter, Return, RunsTorn, Moves,
         historyVars
  <2> QED
    BY <1>t, <2>1 DEF CallInOrder, Outside
<1>3. ASSUME NEW t \in Threads, NEW dies \in BOOLEAN, RunsFreed(t, dies)
      PROVE  CallInOrder(t)'
  <2>1. detour' = "freed" /\ tpc'[t] = "out"
    BY <1>t, <1>3 DEF HookTypes, RunsFreed, Moves
  <2> QED
    BY <2>1 DEF CallInOrder
<1>4. ASSUME NEW t \in Threads, CallLocks(t)
      PROVE  CallInOrder(t)'
  <2>1. /\ tpc'[t] = "cb" /\ callbacks' = callbacks /\ seen'[t] = Names(callbacks)
        /\ i'[t] = 0 /\ off'[t] = 0 /\ invoked'[t] = <<>> /\ ~shrunk'[t]
    BY <1>t, <1>4 DEF HookTypes, CallLocks, Moves, CallInOrder, Outside
  <2>2. callbacks \in Seq(Callback) /\ Len(callbacks) \in Nat
    BY <1>t DEF HookTypes
  <2>3. IsInjective(<<>>) /\ ToSet(<<>>) = {}
    BY DEF IsInjective, ToSet
  <2>4. \A k \in 1..Len(callbacks) : callbacks[k].name \in ToSet(Names(callbacks))
    BY <2>2 DEF Names, ToSet
  <2>5. <<>> = SubSeq(Names(callbacks), 1, 0)
    BY <2>2 DEF Names
  <2>6. Looping(t)'
    BY <2>1, <2>2, <2>3, <2>4, <2>5 DEF Looping
  <2> QED
    BY <2>1, <2>6 DEF CallInOrder
<1>5. ASSUME NEW t \in Threads, CallInvokes(t)
      PROVE  CallInOrder(t)'
  BY <1>5, InvokeKeepsOrder
<1>6. ASSUME NEW t \in Threads, CallReturns(t)
      PROVE  CallInOrder(t)'
  <2>1. /\ tpc[t] = "cb" /\ tpc'[t] = "leave" /\ i[t] >= Len(callbacks)
        /\ seen' = seen /\ invoked' = invoked /\ shrunk' = shrunk
    BY <1>t, <1>6 DEF HookTypes, CallReturns, LoopEnds, Moves, historyVars
  <2>2. Looping(t)
    BY <1>t, <2>1 DEF CallInOrder
  <2>3. ASSUME ~shrunk[t] PROVE invoked[t] = seen[t]
    <3>1. /\ i[t] <= Len(callbacks) /\ seen[t] = Names(callbacks)
          /\ invoked[t] = SubSeq(seen[t], 1, i[t])
      BY <2>2, <2>3 DEF Looping
    <3>2. i[t] \in Nat /\ Len(callbacks) \in Nat /\ seen[t] \in Seq(Callbacks)
      BY <1>t DEF HookTypes
    <3>3. i[t] = Len(seen[t])
      BY <2>1, <3>1, <3>2 DEF Names
    <3> QED
      BY <3>1, <3>2, <3>3
  <2>4. Left(t)'
    BY <2>1, <2>2, <2>3 DEF Left, Looping
  <2> QED
    BY <2>1, <2>4 DEF CallInOrder
<1>7. ASSUME NEW t \in Threads, CountExit(t)
      PROVE  CallInOrder(t)'
  <2>1. /\ tpc'[t] = "exit" /\ i'[t] = 0 /\ off'[t] = 0 /\ seen'[t] = <<>> /\ invoked'[t] = <<>>
        /\ shrunk'[t] = FALSE
    BY <1>t, <1>7 DEF HookTypes, CountExit, Moves
  <2> QED
    BY <2>1 DEF CallInOrder, Outside
<1>8. ASSUME Installs \/ Destructs, NEW u \in Threads
      PROVE  CallInOrder(u)'
  <2>1. tpc[u] = "cb" => mu # Nobody
    BY <1>t DEF LockHeld
  <2>2. /\ tpc'[u] = tpc[u] /\ i'[u] = i[u] /\ off'[u] = off[u] /\ seen'[u] = seen[u]
        /\ invoked'[u] = invoked[u] /\ shrunk'[u] = shrunk[u]
        /\ detour' = "live" => detour = "live"
        /\ tpc[u] = "cb" => callbacks' = callbacks
    BY <1>8, <2>1, OwnerFrame
  <2> QED
    BY <1>t, <2>2, CallKept
<1>9. ASSUME NEW c \in Callbacks, AddCallback(c), NEW u \in Threads
      PROVE  CallInOrder(u)'
  <2>1. tpc[u] # "cb"
    BY <1>t, <1>9 DEF LockHeld, AddCallback
  <2> QED
    BY <1>t, <1>9, <2>1, CallKept DEF AddCallback, Owner, threadVars, historyVars
<1>10. ASSUME NEW t \in Threads, NEW k \in 1..Cardinality(Callbacks), NEW dies \in BOOLEAN,
              RemoveCallback(t, k, dies), NEW u \in Threads
       PROVE  CallInOrder(u)'
  <2>1. /\ tpc' = tpc /\ i' = i /\ off' = off /\ seen' = seen /\ invoked' = invoked
        /\ detour' = detour /\ detour = "live" /\ k \in 1..Len(callbacks)
        /\ callbacks' = RemoveAt(callbacks, k)
        /\ shrunk' = [v \in Threads |-> shrunk[v] \/ v = mu]
    BY <1>t, <1>10 DEF RemoveCallback, threadVars, OwnerKnows
  <2>2. CASE tpc[u] # "cb"
    <3>1. mu # u
      BY <1>t, <2>1, <2>2 DEF LockHeld
    <3>2. shrunk'[u] = shrunk[u]
      BY <1>t, <2>1, <3>1 DEF HookTypes
    <3> QED
      BY <1>t, <2>1, <2>2, <3>2, CallKept
  <2>3. CASE tpc[u] = "cb"
    <3>1. shrunk'[u] = TRUE
      BY <1>t, <2>1, <2>3 DEF LockHeld
    <3>2. /\ Len(callbacks') = Len(callbacks) - 1 /\ Len(callbacks) \in Nat
          /\ \A j \in 1..Len(callbacks) - 1 :
               callbacks'[j] = IF j < k THEN callbacks[j] ELSE callbacks[j + 1]
      <4>1. callbacks \in Seq(Callback) /\ Len(callbacks) \in Nat
        BY <1>t DEF HookTypes
      <4> QED
        BY <2>1, <4>1, RemoveAtProperties
    <3>3. Looping(u) /\ i[u] \in Nat /\ off[u] \in Nat
      BY <1>t, <2>3 DEF CallInOrder, HookTypes
    <3>4. ASSUME NEW j \in 1..Len(callbacks')
          PROVE  /\ callbacks'[j].name \in ToSet(seen[u])
                 /\ j > i[u] - off[u] => callbacks'[j].name \notin ToSet(invoked[u])
      <4>1. j \in 1..Len(callbacks) - 1 /\ j \in 1..Len(callbacks) /\ j + 1 \in 1..Len(callbacks)
        BY <3>2
      <4>2. j > i[u] - off[u] => j + 1 > i[u] - off[u]
        BY <3>3
      <4>3. CASE j < k
        BY <3>2, <3>3, <4>1, <4>3 DEF Looping
      <4>4. CASE ~(j < k)
        BY <3>2, <3>3, <4>1, <4>2, <4>4 DEF Looping
      <4> QED
        BY <4>3, <4>4
    <3>5. Looping(u)'
      BY <2>1, <3>1, <3>3, <3>4 DEF Looping
    <3> QED
      BY <2>1, <2>3, <3>5 DEF CallInOrder
  <2> QED
    BY <2>2, <2>3
<1>11. ASSUME UNCHANGED vars, NEW u \in Threads
       PROVE  CallInOrder(u)'
  BY <1>t, <1>11, CallKept DEF vars, threadVars, historyVars
<1>12. ASSUME NEW t \in Threads, Thread(t)
       PROVE  CallInOrder(t)'
  BY <1>2, <1>3, <1>4, <1>5, <1>6, <1>7, <1>12 DEF Thread
<1> QED
  BY <1>1, <1>8, <1>9, <1>10, <1>11, <1>12 DEF Next, Rests, CallsInOrder

-----------------------------------------------------------------------------
(* The counters *)

(* The counters follow the calls in progress, across a wrap of either. *)
LEMMA CountersNext ==
  ASSUME HInv, [Next]_vars
  PROVE  CountersDiffer'
<1>t. HookTypes /\ CountersDiffer
  BY DEF HInv
<1>a. Modulus \in Nat /\ count_enter \in 0..Modulus - 1 /\ count_exit \in 0..Modulus - 1
  BY <1>t, SomeCounts DEF HookTypes
<1>f. ASSUME NEW S \in SUBSET Threads
      PROVE  IsFiniteSet(S) /\ Cardinality(S) \in Nat /\ Cardinality(S) < Modulus
  <2>1. IsFiniteSet(S) /\ Cardinality(S) <= Cardinality(Threads)
    BY HookAssumption, FS_Subset
  <2>2. Cardinality(S) \in Nat
    BY <2>1, FS_CardinalityType
  <2> QED
    BY <2>1, <2>2, SomeCounts, HookAssumption
<1>c. Calling \in SUBSET Threads /\ Calling' \in SUBSET Threads
  BY DEF Calling
<1>1. ASSUME NEW t \in Threads, CountEnter(t)
      PROVE  CountersDiffer'
  <2>1. /\ detour = "live" /\ t \notin Calling /\ Calling' = Calling \cup {t}
        /\ count_exit' = count_exit /\ count_enter' = (count_enter + 1) % Modulus
    BY <1>t, <1>1 DEF CountEnter, Moves, HookTypes, Calling, InCall
  <2>2. Cardinality(Calling') = Cardinality(Calling) + 1
    BY <1>f, <1>c, <2>1, FS_AddElement
  <2>3. count_enter' = IF count_enter + 1 = Modulus THEN 0 ELSE count_enter + 1
    BY <1>a, <2>1, Wraps
  <2> QED
    BY <1>a, <1>c, <1>f, <1>t, <2>1, <2>2, <2>3 DEF CountersDiffer
<1>2. ASSUME NEW t \in Threads, CountExit(t)
      PROVE  CountersDiffer'
  <2>1. /\ detour = "live" /\ t \in Calling /\ Calling' = Calling \ {t}
        /\ count_enter' = count_enter /\ count_exit' = (count_exit + 1) % Modulus
    BY <1>t, <1>2 DEF CountExit, Counted, Moves, HookTypes, Calling, InCall
  <2>2. Cardinality(Calling') = Cardinality(Calling) - 1
    BY <1>f, <1>c, <2>1, FS_RemoveElement
  <2>3. count_exit' = IF count_exit + 1 = Modulus THEN 0 ELSE count_exit + 1
    BY <1>a, <2>1, Wraps
  <2> QED
    BY <1>a, <1>c, <1>f, <1>t, <2>1, <2>2, <2>3 DEF CountersDiffer
<1>3. ASSUME NEW t \in Threads,
             \/ Reach(t) \/ LeaveTarget(t) \/ RunCopy(t) \/ CallLocks(t) \/ CallInvokes(t)
             \/ CallReturns(t) \/ Return(t) \/ RunsTorn(t)
      PROVE  CountersDiffer'
  <2>1. /\ Calling' = Calling /\ UNCHANGED <<count_enter, count_exit, detour>>
    BY <1>t, <1>3 DEF Reach, LeaveTarget, RunCopy, CallLocks, CallInvokes, CallReturns, Return,
         RunsTorn, Moves, HookTypes, Calling, InCall
  <2> QED
    BY <1>t, <2>1 DEF CountersDiffer
<1>4. ASSUME NEW t \in Threads, NEW dies \in BOOLEAN, RunsFreed(t, dies)
      PROVE  CountersDiffer'
  BY <1>4 DEF RunsFreed, CountersDiffer
<1>5. ASSUME Installs \/ Destructs
      PROVE  CountersDiffer'
  <2>1. Calling' = Calling /\ UNCHANGED <<count_enter, count_exit>>
    BY <1>5, OwnerFrame DEF Calling
  <2>2. detour' = detour \/ detour' = "freed"
    BY <1>5, OwnerFrame
  <2> QED
    BY <1>t, <2>1, <2>2 DEF CountersDiffer
<1>6. ASSUME NEW c \in Callbacks, AddCallback(c)
      PROVE  CountersDiffer'
  BY <1>t, <1>6 DEF AddCallback, Owner, threadVars, Calling, CountersDiffer
<1>7. ASSUME NEW t \in Threads, NEW k \in 1..Cardinality(Callbacks), NEW dies \in BOOLEAN,
             RemoveCallback(t, k, dies)
      PROVE  CountersDiffer'
  BY <1>t, <1>7 DEF RemoveCallback, threadVars, Calling, CountersDiffer
<1>8. CASE UNCHANGED vars
  BY <1>t, <1>8 DEF vars, threadVars, Calling, CountersDiffer
<1> QED
  BY <1>1, <1>2, <1>3, <1>4, <1>5, <1>6, <1>7, <1>8 DEF Next, Thread, Rests

-----------------------------------------------------------------------------
(* Results *)

LEMMA HookInvariant == Spec => []HInv
<1>1. HInv /\ [Next]_vars => HInv'
  BY TypesNext, OwnerNext, LockNext, RegisteredNext, CallsNext, CountersNext DEF HInv
<1> QED
  BY HookInit, <1>1, PTL DEF Spec

(* The counters stay unsigned numbers and no thread is suspended more than   *)
(* twice, however often patch_code_safe and the destructor suspend and       *)
(* resume.                                                                   *)
THEOREM HookTypeOK == Spec => []TypeOK
<1>1. HInv => TypeOK
  <2> SUFFICES ASSUME HInv PROVE TypeOK
    OBVIOUS
  <2>t. HookTypes /\ SuspendedAsOften
    BY DEF HInv
  <2>1. ASSUME NEW k \in 1..Len(callbacks)
        PROVE  callbacks[k].name \in Callbacks /\ callbacks[k].calls \in Nat
    <3>1. callbacks[k] \in Callback
      BY <2>t DEF HookTypes
    <3> QED
      BY <3>1 DEF Callback
  <2>2. ASSUME NEW t \in All PROVE sus[t] \in 0..2
    <3>1. sus[t] \in Nat
      BY <2>t DEF HookTypes
    <3>2. sus[t] <= 2
      BY <2>t, <3>1 DEF SuspendedAsOften, All
    <3> QED
      BY <3>1, <3>2
  <2>3. sus \in [All -> 0..2]
    BY <2>t, <2>2 DEF HookTypes
  <2> QED
    BY <2>t, <2>1, <2>3 DEF HookTypes, TypeOK
<1> QED
  BY <1>1, HookInvariant, PTL

(* patch_code_safe never writes code under a thread, in whatever order the   *)
(* threads run and the hook is installed and destroyed.                      *)
THEOREM PatchesSafely == Spec => []RegionIntact
<1>1. HInv => RegionIntact
  BY DEF HInv
<1> QED
  BY <1>1, HookInvariant, PTL

(* Hook::call invokes the callbacks that were registered, each once and in   *)
(* order, though it erases expired ones under its own loop.                  *)
THEOREM CallsComplete == Spec => []CallComplete
<1>1. HInv => CallComplete
  BY DEF HInv, CallsInOrder, CallInOrder, Left, CallComplete
<1> QED
  BY <1>1, HookInvariant, PTL

(* The destructor waits until no thread is in a call, even if the counters   *)
(* have wrapped: they can only agree when no call is in progress, because    *)
(* there are fewer threads than values.                                      *)
THEOREM DestructorWaits == Spec => WaitsForCalls
<1>1. ASSUME HInv, [Next]_vars, dpc = "drain", dpc' = "resumed", NEW t \in Threads
      PROVE  tpc[t] \notin InCall \cup {"copy"}
  <2>1. ~InUse
    <3>1. ~(UNCHANGED dpc)
      BY <1>1
    <3>2. DestructorResumes
      <4>1. ASSUME NEW u \in Threads, Thread(u) PROVE FALSE
        BY <1>1, <3>1, <4>1, ThreadFrame DEF HInv
      <4>2. ASSUME Installs PROVE FALSE
        BY <1>1, <4>2 DEF Installs, CreateHooksSuspends, PatchManual, SafeSuspends, SafeResumes,
           SafePauses, SafePatches, Owner
      <4> QED
        BY <1>1, <3>1, <4>1, <4>2 DEF Next, Rests, vars, AddCallback, RemoveCallback, Destructs,
           DestructorClears, DestructorSuspends, DrainResumes, DrainPauses, DestructorFrees, Owner
    <3> QED
      BY <3>2 DEF DestructorResumes
  <2>2. count_enter = count_exit /\ tpc[t] # "copy"
    BY <2>1 DEF InUse
  <2>3. detour = "live"
    BY <1>1 DEF HInv, OwnerKnows
  <2>4. /\ IsFiniteSet(Calling) /\ Cardinality(Calling) <= Cardinality(Threads)
    BY HookAssumption, FS_Subset DEF Calling
  <2>5. Cardinality(Calling) \in Nat /\ Cardinality(Calling) < Modulus
    BY <2>4, SomeCounts, HookAssumption, FS_CardinalityType
  <2>6. Cardinality(Calling) = 0
    BY <1>1, <2>2, <2>3, <2>5, SomeCounts DEF HInv, HookTypes, CountersDiffer
  <2>7. Calling = {}
    BY <2>4, <2>6, FS_EmptySet
  <2> QED
    BY <2>2, <2>7 DEF Calling
<1>2. HInv /\ [Next]_vars
        => [dpc = "drain" /\ dpc' = "resumed" =>
              \A t \in Threads : tpc[t] \notin InCall \cup {"copy"}]_vars
  BY <1>1
<1> QED
  BY <1>2, HookInvariant, PTL DEF Spec, WaitsForCalls

=============================================================================
