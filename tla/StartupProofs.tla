---------------------------- MODULE StartupProofs ----------------------------
(* Theorems about Startup for every number of threads and of runs of the    *)
(* tool, in whatever order the runs overlap.                                *)
EXTENDS Startup, FiniteSetTheorems, WellFoundedInduction, TLAPS

Places == {"start", "check", "suspend", "resume", "list", "others", "setup"} \cup Ended

(* The runs that may still owe thread t a ResumeThread.  A run that has      *)
(* thrown owes it for ever.                                                  *)
Owes(i, t) ==
  \/ ipc[i] = "suspend" /\ t \notin todo[i]
  \/ ipc[i] \in {"resume", "failed"}
  \/ ipc[i] = "list" /\ t # tid
  \/ ipc[i] = "others" /\ t \in todo[i]
Debtors(t) == {i \in Injectors : Owes(i, t)}

StartupTypes ==
  /\ ipc \in [Injectors -> Places]
  /\ alive \subseteq 1..ServiceThread
  /\ todo \in [Injectors -> SUBSET alive]
  /\ sus \in [1..ServiceThread -> Nat]

(* A thread is suspended at most as often as there are runs that owe it a    *)
(* ResumeThread.  For a thread of the service that was made after a run took *)
(* its snapshot it may be less.                                              *)
Counted ==
  \A t \in 1..ServiceThread :
    /\ IsFiniteSet(Debtors(t))
    /\ sus[t] <= Cardinality(Debtors(t))
    /\ t \notin alive => sus[t] = 0

SInv == StartupTypes /\ Counted

(* for_each_thread has a next thread as long as one is left. *)
LEMMA LeastExists ==
  ASSUME NEW S, S \subseteq Nat, S # {}
  PROVE  \E t \in S : \A u \in S : t <= u
<1>1. PICK t \in S : \A u \in S : <<u, t>> \notin OpToRel(<, Nat)
  BY NatLessThanWellFounded, WFMin, Zenon
<1>2. \A u \in S : ~(u < t)
  BY <1>1 DEF OpToRel
<1>3. \A u \in S : t <= u
  BY <1>2
<1> QED
  BY <1>3

(* One run leaves the debtors of a thread, joins them or neither. *)
LEMMA DebtorsStep ==
  ASSUME SInv, NEW i \in Injectors, NEW t \in 1..ServiceThread,
         ipc' \in [Injectors -> Places], todo' \in [Injectors -> SUBSET alive'],
         \A j \in Injectors : j # i => ipc'[j] = ipc[j] /\ todo'[j] = todo[j],
         NEW n \in Nat,
         \/ Owes(i, t) /\ Owes(i, t)' /\ n <= sus[t]
         \/ Owes(i, t) /\ ~Owes(i, t)' /\ (n <= sus[t] - 1 \/ n = 0)
         \/ ~Owes(i, t) /\ ~Owes(i, t)' /\ n <= sus[t]
         \/ ~Owes(i, t) /\ Owes(i, t)' /\ n <= sus[t] + 1
  PROVE  IsFiniteSet(Debtors(t)') /\ n <= Cardinality(Debtors(t)')
<1> DEFINE D == Debtors(t)
           E == Debtors(t)'
<1>1. \A j \in Injectors : j # i => (j \in E <=> j \in D)
  BY DEF Debtors, Owes
<1>2. (i \in D <=> Owes(i, t)) /\ (i \in E <=> Owes(i, t)')
  BY DEF Debtors
<1>3. D \subseteq Injectors /\ E \subseteq Injectors
  BY DEF Debtors
<1>4. IsFiniteSet(D) /\ sus[t] <= Cardinality(D) /\ sus[t] \in Nat
  BY DEF SInv, Counted, StartupTypes
<1>5. Cardinality(D) \in Nat
  BY <1>4, FS_CardinalityType
<1> HIDE DEF D, E
<1> SUFFICES IsFiniteSet(E) /\ n <= Cardinality(E)
  BY DEF E
<1>6. CASE i \in D <=> i \in E
  <2>1. \A j : j \in E <=> j \in D
    BY <1>1, <1>3, <1>6
  <2>2. E = D
    BY <2>1
  <2>3. n <= sus[t]
    BY <1>2, <1>4, <1>6
  <2> QED
    BY <1>4, <1>5, <2>2, <2>3
<1>7. CASE i \in D /\ i \notin E
  <2>1. E = D \ {i}
    BY <1>1, <1>3, <1>7
  <2>2. n <= sus[t] - 1 \/ n = 0
    BY <1>2, <1>7
  <2>3. IsFiniteSet(E) /\ Cardinality(E) = Cardinality(D) - 1
    BY <1>4, <1>7, <2>1, FS_RemoveElement
  <2>4. Cardinality(E) \in Nat
    BY <2>3, FS_CardinalityType
  <2> QED
    BY <1>4, <1>5, <2>2, <2>3, <2>4
<1>8. CASE i \notin D /\ i \in E
  <2>1. E = D \cup {i}
    BY <1>1, <1>3, <1>8
  <2>2. n <= sus[t] + 1
    BY <1>2, <1>8
  <2>3. IsFiniteSet(E) /\ Cardinality(E) = Cardinality(D) + 1
    BY <1>4, <1>8, <2>1, FS_AddElement
  <2> QED
    BY <1>4, <1>5, <2>2, <2>3
<1> QED
  BY <1>6, <1>7, <1>8

(* What the steps of a run have in common. *)
LEMMA ToolStep ==
  ASSUME SInv, NEW i \in Injectors, UNCHANGED alive,
         ipc' \in [Injectors -> Places], todo' \in [Injectors -> SUBSET alive],
         \A j \in Injectors : j # i => ipc'[j] = ipc[j] /\ todo'[j] = todo[j],
         sus' \in [1..ServiceThread -> Nat],
         \A t \in 1..ServiceThread : t \notin alive => sus'[t] = 0,
         \A t \in 1..ServiceThread :
           \/ Owes(i, t) /\ Owes(i, t)' /\ sus'[t] <= sus[t]
           \/ Owes(i, t) /\ ~Owes(i, t)' /\ (sus'[t] <= sus[t] - 1 \/ sus'[t] = 0)
           \/ ~Owes(i, t) /\ ~Owes(i, t)' /\ sus'[t] <= sus[t]
           \/ ~Owes(i, t) /\ Owes(i, t)' /\ sus'[t] <= sus[t] + 1
  PROVE  SInv'
<1>1. StartupTypes'
  BY DEF SInv, StartupTypes
<1>2. ASSUME NEW t \in 1..ServiceThread
      PROVE  IsFiniteSet(Debtors(t)') /\ sus'[t] <= Cardinality(Debtors(t)')
  <2> DEFINE n == sus'[t]
  <2>1. n \in Nat
    BY DEF StartupTypes
  <2>2. todo' \in [Injectors -> SUBSET alive']
    OBVIOUS
  <2>3. \/ Owes(i, t) /\ Owes(i, t)' /\ n <= sus[t]
        \/ Owes(i, t) /\ ~Owes(i, t)' /\ (n <= sus[t] - 1 \/ n = 0)
        \/ ~Owes(i, t) /\ ~Owes(i, t)' /\ n <= sus[t]
        \/ ~Owes(i, t) /\ Owes(i, t)' /\ n <= sus[t] + 1
    OBVIOUS
  <2> HIDE DEF n
  <2>4. IsFiniteSet(Debtors(t)') /\ n <= Cardinality(Debtors(t)')
    BY <2>1, <2>2, <2>3, DebtorsStep
  <2> QED
    BY <2>4 DEF n
<1>3. Counted'
  BY <1>2 DEF Counted
<1> QED
  BY <1>1, <1>3 DEF SInv

(* Initially no thread is suspended and no tool owes a resume. *)
LEMMA StartupInit == Init => SInv
<1> SUFFICES ASSUME Init PROVE SInv
  OBVIOUS
<1>1. StartupTypes
  BY StartupAssumption DEF Init, StartupTypes, Places, Threads, ServiceThread
<1>2. ASSUME NEW t \in 1..ServiceThread
      PROVE  Debtors(t) = {} /\ sus[t] = 0
  BY <1>2 DEF Init, Debtors, Owes
<1>3. Counted
  BY <1>2, FS_EmptySet DEF Counted
<1> QED
  BY <1>1, <1>3 DEF SInv

(* A step of the game's process, which may have one thread more. *)
LEMMA ProcessStep ==
  ASSUME SInv, UNCHANGED <<ipc, todo, sus>>, alive \subseteq alive', alive' \subseteq 1..ServiceThread
  PROVE  SInv'
<1>1. StartupTypes'
  BY DEF SInv, StartupTypes
<1>2. \A t : Debtors(t)' = Debtors(t)
  BY DEF Debtors, Owes
<1>3. Counted'
  BY <1>2 DEF SInv, Counted
<1> QED
  BY <1>1, <1>3 DEF SInv

(* Every step of the tools and of the library keeps the count. *)
LEMMA StartupNext == SInv /\ [Next]_vars => SInv'
<1> SUFFICES ASSUME SInv, [Next]_vars PROVE SInv'
  OBVIOUS
<1>t. StartupTypes /\ \A t \in 1..ServiceThread : t \notin alive => sus[t] = 0
  BY DEF SInv, Counted
<1>1. ASSUME NEW i \in Injectors, NEW found \in BOOLEAN, FindsProcess(i, found)
      PROVE  SInv'
  BY <1>t, <1>1, ToolStep
     DEF FindsProcess, Moves, Outside, initVars, StartupTypes, Owes, Places, Ended
<1>2. ASSUME NEW i \in Injectors, NEW force \in BOOLEAN, ChecksModules(i, force)
      PROVE  SInv'
  <2>1. alive' = alive /\ sus' = sus
    BY <1>2 DEF ChecksModules, Outside, initVars
  <2>2. ipc' \in [Injectors -> Places] /\ todo' \in [Injectors -> SUBSET alive]
    BY <1>t, <1>2 DEF ChecksModules, Moves, StartupTypes, Places
  <2>3. \A j \in Injectors : j # i => ipc'[j] = ipc[j] /\ todo'[j] = todo[j]
    BY <1>t, <1>2 DEF ChecksModules, Moves, StartupTypes
  <2>4. \A t \in 1..ServiceThread : ~Owes(i, t)
    BY <1>2 DEF ChecksModules, Moves, Owes
  <2> QED
    BY <1>t, <2>1, <2>2, <2>3, <2>4, ToolStep DEF StartupTypes
<1>3. ASSUME NEW i \in Injectors, SuspendsThread(i)
      PROVE  SInv'
  <2> DEFINE n == NextThread(i)
  <2>1. alive' = alive
    BY <1>3 DEF SuspendsThread, Outside, initVars
  <2>2. todo[i] \subseteq Nat /\ todo[i] # {} /\ todo[i] \subseteq alive /\ alive \subseteq 1..ServiceThread
    <3>1. todo[i] # {} /\ todo[i] \subseteq alive /\ alive \subseteq 1..ServiceThread
      BY <1>t, <1>3 DEF SuspendsThread, StartupTypes
    <3>2. 1..ServiceThread \subseteq Nat
      BY StartupAssumption DEF ServiceThread
    <3> QED
      BY <3>1, <3>2
  <2>3. n \in todo[i]
    BY <2>2, LeastExists DEF NextThread
  <2>4. /\ ipc' = ipc /\ ipc[i] = "suspend"
        /\ todo' = [todo EXCEPT ![i] = @ \ {n}]
        /\ sus' = [sus EXCEPT ![n] = @ + 1]
    BY <1>t, <1>3 DEF SuspendsThread, Moves, Suspended, StartupTypes
  <2> HIDE DEF n
  <2>5. /\ ipc' \in [Injectors -> Places] /\ todo' \in [Injectors -> SUBSET alive]
        /\ \A j \in Injectors : j # i => ipc'[j] = ipc[j] /\ todo'[j] = todo[j]
        /\ sus' \in [1..ServiceThread -> Nat]
        /\ \A t \in 1..ServiceThread : t \notin alive => sus'[t] = 0
    BY <1>t, <2>2, <2>3, <2>4 DEF StartupTypes
  <2>6. ASSUME NEW t \in 1..ServiceThread
        PROVE  \/ Owes(i, t) /\ Owes(i, t)' /\ sus'[t] <= sus[t]
               \/ ~Owes(i, t) /\ ~Owes(i, t)' /\ sus'[t] <= sus[t]
               \/ ~Owes(i, t) /\ Owes(i, t)' /\ sus'[t] <= sus[t] + 1
    BY <1>t, <2>3, <2>4, <2>6 DEF StartupTypes, Owes
  <2> QED
    BY <2>1, <2>5, <2>6, ToolStep
<1>4. ASSUME NEW i \in Injectors, InjectCode(i)
      PROVE  SInv'
  <2>1. /\ alive' = alive /\ sus' = sus /\ todo' = todo
        /\ todo[i] = {} /\ ipc[i] = "suspend" /\ ipc' = [ipc EXCEPT ![i] = "resume"]
    BY <1>4 DEF InjectCode, Moves, initVars
  <2>2. \A t \in 1..ServiceThread : Owes(i, t) /\ Owes(i, t)'
    BY <1>t, <2>1 DEF Owes, StartupTypes
  <2>3. ipc' \in [Injectors -> Places]
    BY <1>t, <2>1 DEF StartupTypes, Places
  <2> QED
    BY <1>t, <2>1, <2>2, <2>3, ToolStep DEF StartupTypes
<1>5. ASSUME NEW i \in Injectors, ResumesInjected(i)
      PROVE  SInv'
  <2>1. /\ alive' = alive /\ todo' = todo /\ sus' = ResumedBy({tid})
        /\ ipc[i] = "resume" /\ ipc' = [ipc EXCEPT ![i] = "list"]
    BY <1>5 DEF ResumesInjected, Moves, Outside, initVars
  <2>2. ASSUME NEW t \in 1..ServiceThread
        PROVE  /\ sus'[t] \in Nat
               /\ sus'[t] <= sus[t]
               /\ t = tid => sus'[t] <= sus[t] - 1 \/ sus'[t] = 0
    BY <1>t, <2>1, <2>2 DEF StartupTypes, ResumedBy
  <2>3. sus' \in [1..ServiceThread -> Nat]
    BY <1>t, <2>1 DEF StartupTypes, ResumedBy
  <2>4. ipc' \in [Injectors -> Places]
    BY <1>t, <2>1 DEF StartupTypes, Places
  <2>5. \A t \in 1..ServiceThread : Owes(i, t) /\ (Owes(i, t)' <=> t # tid)
    BY <1>t, <2>1 DEF Owes, StartupTypes
  <2>6. ASSUME NEW t \in 1..ServiceThread, t \notin alive PROVE sus'[t] = 0
    <3>1. sus[t] = 0 /\ sus'[t] \in Nat /\ sus'[t] <= sus[t]
      BY <1>t, <2>2, <2>6
    <3> QED
      BY <3>1
  <2>7. ASSUME NEW t \in 1..ServiceThread
        PROVE  \/ Owes(i, t) /\ Owes(i, t)' /\ sus'[t] <= sus[t]
               \/ Owes(i, t) /\ ~Owes(i, t)' /\ (sus'[t] <= sus[t] - 1 \/ sus'[t] = 0)
    BY <2>2, <2>5, <2>7
  <2>8. /\ todo' \in [Injectors -> SUBSET alive]
        /\ \A j \in Injectors : j # i => ipc'[j] = ipc[j] /\ todo'[j] = todo[j]
    BY <1>t, <2>1 DEF StartupTypes
  <2> QED
    BY <2>1, <2>3, <2>4, <2>6, <2>7, <2>8, ToolStep
<1>6. ASSUME NEW i \in Injectors, ListsThreads(i)
      PROVE  SInv'
  <2>1. /\ alive' = alive /\ sus' = sus /\ todo' = [todo EXCEPT ![i] = OtherThreads]
        /\ ipc[i] = "list" /\ ipc' = [ipc EXCEPT ![i] = "others"]
    BY <1>6 DEF ListsThreads, Moves, Outside, initVars
  <2>2. OtherThreads = alive \ {tid}
    BY DEF OtherThreads
  <2>3. ipc' \in [Injectors -> Places] /\ todo' \in [Injectors -> SUBSET alive]
    BY <1>t, <2>1, <2>2 DEF StartupTypes, Places
  <2>4. \A j \in Injectors : j # i => ipc'[j] = ipc[j] /\ todo'[j] = todo[j]
    BY <1>t, <2>1 DEF StartupTypes
  <2>5. \A t \in 1..ServiceThread : (Owes(i, t) <=> t # tid) /\ (Owes(i, t)' <=> t # tid /\ t \in alive)
    BY <1>t, <2>1, <2>2 DEF Owes, StartupTypes
  <2>6. ASSUME NEW t \in 1..ServiceThread
        PROVE  \/ Owes(i, t) /\ Owes(i, t)' /\ sus'[t] <= sus[t]
               \/ Owes(i, t) /\ ~Owes(i, t)' /\ sus'[t] = 0
               \/ ~Owes(i, t) /\ ~Owes(i, t)' /\ sus'[t] <= sus[t]
    BY <1>t, <2>1, <2>5, <2>6 DEF StartupTypes
  <2> QED
    BY <1>t, <2>1, <2>3, <2>4, <2>6, ToolStep DEF StartupTypes
<1>7. ASSUME NEW i \in Injectors, ResumesThread(i)
       PROVE  SInv'
  <2> DEFINE n == NextThread(i)
  <2>1. /\ alive' = alive /\ sus' = ResumedBy({n}) /\ todo[i] # {}
        /\ ipc' = ipc /\ ipc[i] = "others" /\ todo' = [todo EXCEPT ![i] = @ \ {n}]
    BY <1>t, <1>7 DEF ResumesThread, Moves, Outside, initVars, StartupTypes
  <2>2. todo[i] \subseteq Nat /\ todo[i] \subseteq alive
    <3>1. todo[i] \subseteq alive /\ alive \subseteq 1..ServiceThread
      BY <1>t DEF StartupTypes
    <3>2. 1..ServiceThread \subseteq Nat
      BY StartupAssumption DEF ServiceThread
    <3> QED
      BY <3>1, <3>2
  <2>3. n \in todo[i]
    BY <2>1, <2>2, LeastExists DEF NextThread
  <2> HIDE DEF n
  <2>4. ASSUME NEW t \in 1..ServiceThread
        PROVE  /\ sus'[t] \in Nat
               /\ sus'[t] <= sus[t]
               /\ t = n => sus'[t] <= sus[t] - 1 \/ sus'[t] = 0
    BY <1>t, <2>1, <2>4 DEF StartupTypes, ResumedBy
  <2>5. sus' \in [1..ServiceThread -> Nat]
    BY <1>t, <2>1 DEF StartupTypes, ResumedBy
  <2>6. /\ ipc' \in [Injectors -> Places] /\ todo' \in [Injectors -> SUBSET alive]
        /\ \A j \in Injectors : j # i => ipc'[j] = ipc[j] /\ todo'[j] = todo[j]
    BY <1>t, <2>1 DEF StartupTypes
  <2>7. \A t \in 1..ServiceThread :
          (Owes(i, t) <=> t \in todo[i]) /\ (Owes(i, t)' <=> t \in todo[i] /\ t # n)
    BY <1>t, <2>1 DEF Owes, StartupTypes
  <2>8. ASSUME NEW t \in 1..ServiceThread, t \notin alive PROVE sus'[t] = 0
    <3>1. sus[t] = 0 /\ sus'[t] \in Nat /\ sus'[t] <= sus[t]
      BY <1>t, <2>4, <2>8
    <3> QED
      BY <3>1
  <2>9. ASSUME NEW t \in 1..ServiceThread
        PROVE  \/ Owes(i, t) /\ Owes(i, t)' /\ sus'[t] <= sus[t]
               \/ Owes(i, t) /\ ~Owes(i, t)' /\ (sus'[t] <= sus[t] - 1 \/ sus'[t] = 0)
               \/ ~Owes(i, t) /\ ~Owes(i, t)' /\ sus'[t] <= sus[t]
    BY <2>4, <2>7, <2>9
  <2> QED
    BY <2>1, <2>5, <2>6, <2>8, <2>9, ToolStep
<1>8. ASSUME NEW i \in Injectors, ResumedAll(i)
       PROVE  SInv'
  <2>1. /\ alive' = alive /\ sus' = sus /\ todo' = todo
        /\ todo[i] = {} /\ ipc[i] = "others" /\ ipc' = [ipc EXCEPT ![i] = "setup"]
    BY <1>8 DEF ResumedAll, Moves, Outside, initVars
  <2>2. \A t \in 1..ServiceThread : ~Owes(i, t) /\ ~Owes(i, t)'
    BY <1>t, <2>1 DEF Owes, StartupTypes
  <2>3. ipc' \in [Injectors -> Places]
    BY <1>t, <2>1 DEF StartupTypes, Places
  <2> QED
    BY <1>t, <2>1, <2>2, <2>3, ToolStep DEF StartupTypes
<1>9. ASSUME NEW i \in Injectors, easy_setup(i)
      PROVE  SInv'
  BY <1>t, <1>9, ToolStep
     DEF easy_setup, Moves, Outside, initVars, StartupTypes, Owes, Places, Ended
<1>10. ASSUME NEW i \in Injectors, OnlyInjects(i)
      PROVE  SInv'
  BY <1>t, <1>10, ToolStep
     DEF OnlyInjects, Moves, Outside, initVars, StartupTypes, Owes, Places, Ended
<1>11. ASSUME NEW i \in Injectors, Throws(i)
      PROVE  SInv'
  <2>1. /\ alive' = alive /\ todo' = todo /\ sus' = sus
        /\ ipc[i] \in {"check", "suspend", "resume", "list", "others"} /\ ipc' = [ipc EXCEPT ![i] = "failed"]
    BY <1>11 DEF Throws, Moves, Outside, initVars
  <2>2. \A t \in 1..ServiceThread : Owes(i, t)'
    BY <1>t, <2>1 DEF Owes, StartupTypes
  <2>3. ipc' \in [Injectors -> Places]
    BY <1>t, <2>1 DEF StartupTypes, Places, Ended
  <2>4. ASSUME NEW t \in 1..ServiceThread
        PROVE  \/ Owes(i, t) /\ Owes(i, t)' /\ sus'[t] <= sus[t]
               \/ ~Owes(i, t) /\ Owes(i, t)' /\ sus'[t] <= sus[t] + 1
    BY <1>t, <2>1, <2>2, <2>4 DEF StartupTypes
  <2> QED
    BY <1>t, <2>1, <2>3, <2>4, ToolStep DEF StartupTypes
<1>12. ASSUME NEW t \in Threads,
              TakesHeap(t) \/ LeavesHeap(t) \/ LoadLibrary(t) \/ Loader(t)
       PROVE  SInv'
  <2>1. UNCHANGED <<ipc, todo, sus>>
    BY <1>12 DEF TakesHeap, LeavesHeap, LoadLibrary, Loader, InitLocks, InitMakes, InitMade,
                 InitUnlocks, At, Runs, toolVars
  <2>2. alive' = alive \/ alive' = alive \cup {ServiceThread}
    BY <1>12 DEF TakesHeap, LeavesHeap, LoadLibrary, Loader, InitLocks, InitMakes, InitMade,
                 InitUnlocks, initVars
  <2>3. ServiceThread \in 1..ServiceThread
    BY StartupAssumption DEF ServiceThread
  <2> QED
    BY <1>t, <2>1, <2>2, <2>3, ProcessStep DEF StartupTypes
<1>13. CASE SetsUp
  BY <1>t, <1>13, ProcessStep DEF SetsUp, Runs, toolVars, StartupTypes
<1>14. CASE UNCHANGED vars
  BY <1>t, <1>14, ProcessStep DEF vars, toolVars, initVars, StartupTypes
<1> QED
  BY <1>1, <1>2, <1>3, <1>4, <1>5, <1>6, <1>9, <1>10, <1>11, <1>12, <1>13, <1>14, <1>7, <1>8 DEF Next, Tool

(* A run of the tool that is over and has not thrown owes no thread a        *)
(* ResumeThread, and no thread is suspended more often than it is owed one.  *)
THEOREM ToolResumesAll == Spec => []AllResumed
<1>1. Spec => []SInv
  BY StartupInit, StartupNext, PTL DEF Spec
<1>2. SInv => AllResumed
  <2> SUFFICES ASSUME SInv,
                      \A i \in Injectors : ipc[i] \in {"start", "setup", "done", "lost"},
                      NEW t \in DOMAIN sus
               PROVE  sus[t] = 0
    BY DEF AllResumed
  <2>1. t \in 1..ServiceThread /\ sus[t] \in Nat
    BY DEF SInv, StartupTypes
  <2>2. Debtors(t) = {}
    BY DEF Debtors, Owes
  <2>3. sus[t] <= 0
    BY <2>1, <2>2, FS_EmptySet DEF SInv, Counted
  <2> QED
    BY <2>1, <2>3
<1> QED
  BY <1>1, <1>2, PTL

=============================================================================
