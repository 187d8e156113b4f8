-------------------------------- MODULE Hook --------------------------------
(***************************************************************************)
(* hook::Hook: a detour at one target address, the threads that run into   *)
(* it, and the thread that installs the hook, adds callbacks and destroys  *)
(* it while it suspends and resumes the others.                            *)
(*                                                                         *)
(* Code is abstracted to the region an instruction pointer is in; the      *)
(* target region and the region of the copied instructions are the two     *)
(* that num_threads_at_tgt is asked about.                                 *)
(***************************************************************************)
EXTENDS Integers, Sequences, FiniteSets, SequencesExt

CONSTANTS
  Threads,         \* threads that execute the hooked code
  NoSuspend,       \* threads in no_suspend_ (the io_service thread)
  Manual,          \* the values of the constructor's manual argument to consider
  Destroys,        \* whether the hook is destroyed
  Removes,         \* whether CBExitGameLoop removes callbacks meanwhile
  Callbacks,       \* names of callbacks that are added
  MaxCalls,        \* max_calls of each callback, 0 = never removed
  MaxVisits,       \* bound on the times a thread reaches the target address
  Modulus          \* number of values of the unsigned counters

All == Threads \cup NoSuspend
Nobody == "nobody"

ASSUME HookAssumption ==
  /\ Threads \cap NoSuspend = {} /\ Nobody \notin Threads
  /\ IsFiniteSet(Threads)
  /\ Manual \subseteq BOOLEAN /\ Destroys \in BOOLEAN /\ Removes \in BOOLEAN
  /\ MaxCalls \in [Callbacks -> Nat]
  /\ MaxVisits \in Nat
  /\ Modulus \in Nat /\ Modulus > Cardinality(Threads)

VARIABLES
  manual,          \* manual_
  code,            \* what is at src_address: the original code or the trampoline
  detour,          \* whether the memory of dm_ is "live" or "freed"
  callbacks,       \* callbacks_: names with the number of calls
  mu,              \* the holder of mu_
  count_enter, count_exit,
  tpc,             \* where the instruction pointer of a thread is
  i, off,          \* locals of Hook::call
  visits,          \* how often each thread reached the target address
  sus,             \* suspend count of each thread
  dpc,             \* position of the thread that owns the hook
  added,           \* callbacks passed to add_callback
  crashed,         \* undefined behaviour ended the process
  seen, invoked,   \* history: callbacks registered when a call began, and invoked
  shrunk           \* history: a callback was removed while a call was in progress

threadVars == <<tpc, i, off, visits>>
historyVars == <<seen, invoked, shrunk>>
vars == <<manual, code, detour, callbacks, mu, count_enter, count_exit, threadVars, sus, dpc,
          added, crashed, historyVars>>

TargetRegion == {"orig", "tramp"}
InCall == {"call", "cb", "leave"}
InDetour == {"copy", "enter", "exit"} \cup InCall

Names(s) == [k \in 1..Len(s) |-> s[k].name]

Init ==
  /\ manual \in Manual
  /\ code = "original"
  /\ detour = "live"
  /\ callbacks = <<>>
  /\ mu = Nobody
  /\ count_enter = 0
  /\ count_exit = 0
  /\ tpc = [t \in Threads |-> "out"]
  /\ i = [t \in Threads |-> 0]
  /\ off = [t \in Threads |-> 0]
  /\ visits = [t \in Threads |-> 0]
  /\ sus = [t \in All |-> 0]
  /\ dpc = "new"
  /\ added = {}
  /\ crashed = FALSE
  /\ seen = [t \in Threads |-> <<>>]
  /\ invoked = [t \in Threads |-> <<>>]
  /\ shrunk = [t \in Threads |-> FALSE]

-----------------------------------------------------------------------------
(* Threads that run into the hooked code. *)

Moves(t, from, to) ==
  /\ ~crashed
  /\ sus[t] = 0
  /\ tpc[t] = from
  /\ tpc' = [tpc EXCEPT ![t] = to]

Reach(t) ==
  /\ visits[t] < MaxVisits
  /\ Moves(t, "out", IF code = "original" THEN "orig" ELSE "tramp")
  /\ visits' = [visits EXCEPT ![t] = @ + 1]
  /\ UNCHANGED <<manual, code, detour, callbacks, mu, count_enter, count_exit, i, off, sus, dpc,
                 added, crashed, historyVars>>

(* The unhooked instructions; push and ret of DetourTrampoline. *)
LeaveTarget(t) ==
  /\ Moves(t, "orig", "out") \/ Moves(t, "tramp", "copy")
  /\ UNCHANGED <<manual, code, detour, callbacks, mu, count_enter, count_exit, i, off, visits, sus,
                 dpc, added, crashed, historyVars>>

(* The copied instructions at the start of DetourMain. *)
RunCopy(t) ==
  /\ detour = "live"
  /\ Moves(t, "copy", "enter")
  /\ UNCHANGED <<manual, code, detour, callbacks, mu, count_enter, count_exit, i, off, visits, sus,
                 dpc, added, crashed, historyVars>>

CountEnter(t) ==
  /\ detour = "live"
  /\ Moves(t, "enter", "call")
  /\ count_enter' = (count_enter + 1) % Modulus
  /\ UNCHANGED <<manual, code, detour, callbacks, mu, count_exit, i, off, visits, sus, dpc,
                 added, crashed, historyVars>>

CallLocks(t) ==
  /\ detour = "live"
  /\ mu = Nobody
  /\ Moves(t, "call", "cb")
  /\ mu' = t
  /\ seen' = [seen EXCEPT ![t] = Names(callbacks)]
  /\ UNCHANGED <<manual, code, detour, callbacks, count_enter, count_exit, i, off, visits, sus,
                 dpc, added, crashed, invoked, shrunk>>

Expires(c, calls) == MaxCalls[c] > 0 /\ calls >= MaxCalls[c]

\* Mutant: a loop that ends one callback early.
LoopEndsEarly(t) == i[t] + 1 >= Len(callbacks)
LoopEnds(t) == i[t] >= Len(callbacks)

(* One turn of the loop: invoke, count, and erase what has expired. *)
CallInvokes(t) ==
  LET ix == i[t] - off[t] + 1
      c == callbacks[ix].name
      calls == callbacks[ix].calls + 1
  IN
  /\ ~crashed
  /\ sus[t] = 0
  /\ tpc[t] = "cb"
  /\ ~LoopEnds(t)
  /\ invoked' = [invoked EXCEPT ![t] = Append(@, c)]
  /\ IF Expires(c, calls)
     THEN /\ callbacks' = RemoveAt(callbacks, ix)
          /\ off' = [off EXCEPT ![t] = @ + 1]
          /\ shrunk' = [shrunk EXCEPT ![t] = TRUE]
     ELSE /\ callbacks' = [callbacks EXCEPT ![ix].calls = calls]
          /\ UNCHANGED <<off, shrunk>>
  /\ i' = [i EXCEPT ![t] = @ + 1]
  /\ UNCHANGED <<manual, code, detour, mu, count_enter, count_exit, tpc, visits, sus, dpc,
                 added, crashed, seen>>

CallReturns(t) ==
  /\ LoopEnds(t)
  /\ Moves(t, "cb", "leave")
  /\ mu' = Nobody
  /\ UNCHANGED <<manual, code, detour, callbacks, count_enter, count_exit, i, off, visits, sus, dpc,
                 added, crashed, historyVars>>

\* Mutants: the exit counter is not incremented; it does not wrap.
NotCounted == count_exit
NotWrapped == count_exit + 1
Counted == (count_exit + 1) % Modulus

(* The call has returned: its locals are gone. *)
CountExit(t) ==
  /\ detour = "live"
  /\ Moves(t, "leave", "exit")
  /\ count_exit' = Counted
  /\ i' = [i EXCEPT ![t] = 0]
  /\ off' = [off EXCEPT ![t] = 0]
  /\ seen' = [seen EXCEPT ![t] = <<>>]
  /\ invoked' = [invoked EXCEPT ![t] = <<>>]
  /\ shrunk' = [shrunk EXCEPT ![t] = FALSE]
  /\ UNCHANGED <<manual, code, detour, callbacks, mu, count_enter, visits, sus, dpc, added,
                 crashed>>

(* Restore the registers and jump behind the target region. *)
Return(t) ==
  /\ detour = "live"
  /\ Moves(t, "exit", "out")
  /\ UNCHANGED <<manual, code, detour, callbacks, mu, count_enter, count_exit, i, off, visits, sus,
                 dpc, added, crashed, historyVars>>

(* The detour or the Hook object is gone: undefined behaviour. *)
RunsFreed(t, dies) ==
  /\ detour = "freed"
  /\ tpc[t] \in InDetour
  /\ Moves(t, tpc[t], "out")
  /\ crashed' = dies
  /\ UNCHANGED <<manual, code, detour, callbacks, mu, count_enter, count_exit, i, off, visits, sus,
                 dpc, added, historyVars>>

(* The instructions changed under the thread: undefined behaviour, where     *)
(* LeaveTarget is the other outcome.                                         *)
RunsTorn(t) ==
  /\ (tpc[t] = "orig" /\ code = "trampoline") \/ (tpc[t] = "tramp" /\ code = "original")
  /\ Moves(t, tpc[t], "out")
  /\ crashed' = TRUE
  /\ UNCHANGED <<manual, code, detour, callbacks, mu, count_enter, count_exit, i, off, visits, sus,
                 dpc, added, historyVars>>

-----------------------------------------------------------------------------
(* The owner of the hook.  SuspendThread and ResumeThread count; a thread   *)
(* that is suspended between two of them cannot be told from one that was   *)
(* slow, so suspending all threads is one step.                             *)

Suspended(ts) == [t \in All |-> IF t \in ts THEN sus[t] + 1 ELSE sus[t]]
Resumed(ts) == [t \in All |-> IF t \in ts /\ sus[t] > 0 THEN sus[t] - 1 ELSE sus[t]]

Owner(from, to) ==
  /\ ~crashed
  /\ dpc = from
  /\ dpc' = to
  /\ UNCHANGED <<count_enter, count_exit, threadVars, crashed, historyVars>>

\* Mutant: the code is patched whatever the threads are doing.
NotChecked == FALSE
AtTarget == \E t \in Threads : tpc[t] \in TargetRegion

(* num_threads_at_tgt of the detour, and the counters. *)
\* Mutant: the counters are not compared.
CopyInUse == \E t \in Threads : tpc[t] = "copy"
InUse == (\E t \in Threads : tpc[t] = "copy") \/ count_enter # count_exit

(* The constructor with manual = true, and CreateHooks around it, which     *)
(* may suspend the threads but never looks at where they are.               *)
CreateHooksSuspends(suspends) ==
  /\ manual
  /\ Owner("new", IF suspends THEN "patch" ELSE "patch_running")
  /\ sus' = IF suspends THEN Suspended(Threads) ELSE sus
  /\ UNCHANGED <<manual, code, detour, callbacks, mu, added>>

PatchManual ==
  /\ Owner("patch", "live") \/ Owner("patch_running", "live")
  /\ code' = "trampoline"
  /\ sus' = IF dpc = "patch" THEN Resumed(Threads) ELSE sus
  /\ UNCHANGED <<manual, detour, callbacks, mu, added>>

(* patch_code_safe: suspend all but no_suspend_, wait until no thread is in *)
(* the target region, patch, resume.  The waiting loop suspends and resumes *)
(* every thread.  It installs the trampoline or restores the original code. *)
SafeSuspends ==
  /\ (~manual /\ Owner("new", "install")) \/ Owner("cleared", "uninstall")
  /\ sus' = Suspended(Threads)
  /\ UNCHANGED <<manual, code, detour, callbacks, mu, added>>

SafeResumes ==
  /\ AtTarget
  /\ Owner("install", "install_sleep") \/ Owner("uninstall", "uninstall_sleep")
  /\ sus' = Resumed(All)
  /\ UNCHANGED <<manual, code, detour, callbacks, mu, added>>

SafePauses ==
  /\ Owner("install_sleep", "install") \/ Owner("uninstall_sleep", "uninstall")
  /\ sus' = Suspended(All)
  /\ UNCHANGED <<manual, code, detour, callbacks, mu, added>>

SafePatches ==
  /\ ~AtTarget
  /\ \/ Owner("install", "live") /\ code' = "trampoline"
     \/ Owner("uninstall", "unhooked") /\ code' = "original"
  /\ sus' = Resumed(Threads)
  /\ UNCHANGED <<manual, detour, callbacks, mu, added>>

AddCallback(c) ==
  /\ c \notin added
  /\ mu = Nobody
  /\ Owner("live", "live")
  /\ callbacks' = Append(callbacks, [name |-> c, calls |-> 0])
  /\ added' = added \cup {c}
  /\ UNCHANGED <<manual, code, detour, mu, sus>>

(* CBExitGameLoop, in a thread t that is outside this hook, removes a        *)
(* callback.  remove_callback takes no lock: next to a call of another       *)
(* thread it is a data race on the vector, and the callback object is        *)
(* deleted under the call.  Either nothing comes of it or the process dies.  *)
RemoveCallback(t, k, dies) ==
  /\ ~crashed
  /\ Removes
  /\ dpc = "live"
  /\ sus[t] = 0 /\ tpc[t] = "out"
  /\ k \in 1..Len(callbacks)
  /\ dies => mu # Nobody
  /\ callbacks' = RemoveAt(callbacks, k)
  /\ crashed' = dies
  /\ shrunk' = [u \in Threads |-> shrunk[u] \/ u = mu]
  /\ UNCHANGED <<manual, code, detour, mu, count_enter, count_exit, threadVars, sus, dpc, added,
                 seen, invoked>>

(* The destructor: clear the callbacks, restore the code, then wait until   *)
(* no thread is in the copied instructions and the counters agree.          *)
DestructorClears ==
  /\ Destroys
  /\ mu = Nobody
  /\ Owner("live", "cleared")
  /\ callbacks' = <<>>
  /\ UNCHANGED <<manual, code, detour, mu, sus, added>>

DestructorSuspends ==
  /\ Owner("unhooked", "drain")
  /\ sus' = Suspended(All)
  /\ UNCHANGED <<manual, code, detour, callbacks, mu, added>>

DrainResumes ==
  /\ InUse
  /\ Owner("drain", "drain_sleep")
  /\ sus' = Resumed(All)
  /\ UNCHANGED <<manual, code, detour, callbacks, mu, added>>

DrainPauses ==
  /\ Owner("drain_sleep", "drain")
  /\ sus' = Suspended(All)
  /\ UNCHANGED <<manual, code, detour, callbacks, mu, added>>

DestructorResumes ==
  /\ ~InUse
  /\ Owner("drain", "resumed")
  /\ sus' = Resumed(All)
  /\ UNCHANGED <<manual, code, detour, callbacks, mu, added>>

DestructorFrees ==
  /\ Owner("resumed", "done")
  /\ detour' = "freed"
  /\ UNCHANGED <<manual, code, callbacks, mu, sus, added>>

-----------------------------------------------------------------------------
Thread(t) ==
  \/ Reach(t) \/ LeaveTarget(t) \/ RunCopy(t) \/ CountEnter(t)
  \/ CallLocks(t) \/ CallInvokes(t) \/ CallReturns(t)
  \/ CountExit(t) \/ Return(t) \/ RunsTorn(t)
  \/ \E dies \in BOOLEAN : RunsFreed(t, dies)

Installs == \/ \E s \in BOOLEAN : CreateHooksSuspends(s)
            \/ PatchManual \/ SafeSuspends \/ SafeResumes \/ SafePauses \/ SafePatches

Destructs == DestructorClears \/ DestructorSuspends \/ DrainResumes \/ DrainPauses
               \/ DestructorResumes \/ DestructorFrees

(* Nothing is left to do: every thread has made its visits, or the process  *)
(* is gone.                                                                 *)
Rests == /\ \/ crashed
            \/ /\ \A t \in Threads : tpc[t] = "out" /\ visits[t] = MaxVisits
               /\ dpc = "done" \/ (dpc = "live" /\ ~Destroys)
         /\ UNCHANGED vars

Next ==
  \/ \E t \in Threads : Thread(t)
  \/ Installs
  \/ \E c \in Callbacks : AddCallback(c)
  \/ \E t \in Threads, k \in 1..Cardinality(Callbacks), dies \in BOOLEAN :
       RemoveCallback(t, k, dies)
  \/ Destructs
  \/ Rests

Spec == Init /\ [][Next]_vars

(* The owner keeps running, and the 10 ms for which it resumes the others   *)
(* let a thread that is in the detour take a step; callbacks return.        *)
Fairness ==
  /\ WF_vars(SafeSuspends \/ SafeResumes \/ SafePauses \/ SafePatches)
  /\ WF_vars(DestructorSuspends \/ DrainResumes \/ DrainPauses \/ DestructorResumes
             \/ DestructorFrees)
  /\ \A t \in Threads : SF_vars(Thread(t))

FairSpec == Spec /\ Fairness

-----------------------------------------------------------------------------
(* Properties *)

(* Code, detour, callbacks, places of the threads and the wrapping counters  *)
(* keep their types; suspend counts stay small.                              *)
TypeOK ==
  /\ code \in {"original", "trampoline"}
  /\ detour \in {"live", "freed"}
  /\ \A k \in 1..Len(callbacks) : callbacks[k].name \in Callbacks /\ callbacks[k].calls \in Nat
  /\ mu \in Threads \cup {Nobody}
  /\ count_enter \in 0..Modulus - 1 /\ count_exit \in 0..Modulus - 1
  /\ tpc \in [Threads -> TargetRegion \cup InDetour \cup {"out"}]
  /\ sus \in [All -> 0..2]
  /\ crashed \in BOOLEAN

(* patch_code_safe: a thread inside the target region runs the code that is *)
(* there: neither the trampoline nor the original code is written under it. *)
RegionIntact == ~manual =>
  \A t \in Threads : /\ tpc[t] = "orig" => code = "original"
                     /\ tpc[t] = "tramp" => code = "trampoline"

(* A call invokes each callback at most once and in order of registration,  *)
(* and misses none unless one was removed meanwhile.                      *)
CallComplete ==
  \A t \in Threads : tpc[t] = "leave" =>
    /\ IsInjective(invoked[t])
    /\ ~shrunk[t] => invoked[t] = seen[t]
    /\ \A c \in ToSet(invoked[t]) : c \in ToSet(seen[t])

(* When the destructor stops waiting, no thread runs the copied              *)
(* instructions or is between the two counter increments, whatever the       *)
(* counters have wrapped to.  A thread that saves its registers before the   *)
(* first or restores them after the second may still be in the detour.       *)
WaitsForCalls ==
  [][dpc = "drain" /\ dpc' = "resumed" =>
       \A t \in Threads : tpc[t] \notin InCall \cup {"copy"}]_vars

(* Once the original code is restored, the destructor ends: no thread can    *)
(* enter the detour again and those inside leave it.                         *)
DestructorReturns == dpc = "unhooked" ~> (dpc = "done" \/ crashed)

=============================================================================
