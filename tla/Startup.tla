------------------------------- MODULE Startup -------------------------------
(***************************************************************************)
(* How the service gets into the game.  The command line tool suspends the *)
(* game's threads, makes the first of them run a loader, and resumes them. *)
(* The loader loads the DLL and calls initialize, which creates the        *)
(* service once under a mutex; the service installs its hooks on a thread  *)
(* of its own before it accepts clients.                                   *)
(***************************************************************************)
EXTENDS Integers, Sequences, FiniteSets

CONSTANTS
  GameThreads,     \* number of threads of the game, the first one is injected
  Injectors,       \* runs of the tool
  PidGiven,        \* those with --game-pid
  Tries            \* 3 in easy_setup

ASSUME StartupAssumption ==
  PidGiven \subseteq Injectors /\ GameThreads \in Nat \ {0} /\ Tries \in Nat \ {0}

VARIABLES
  world,           \* what may go wrong in this behaviour
  ipc, todo, tries,              \* of a tool: where it is, threads to go through, attempts left
  alive, sus,                    \* threads of the game's process, their suspend counts
  stack,                         \* loaders that run on a thread, the newest last
  heap,                          \* who holds the locks of the process that loading and
                                 \* allocating need, or 0
  modules, g_lock, g_context,    \* the DLL is loaded; initialize's mutex and service
  job,                           \* the set-up on the service's thread
  dead                           \* the process is terminated

toolVars == <<ipc, todo, tries>>
initVars == <<g_lock, g_context, job, alive>>
vars == <<world, toolVars, sus, stack, heap, modules, initVars, dead>>

(* "overlap": the tool is run again before the first run and its loader have *)
(* ended; "fails": a system call of the tool fails; "taken": the port is;    *)
(* "missing": the DLL or its initialize is not found.                        *)
Habits == {"overlap", "fails", "taken", "missing"}

Threads == 1..GameThreads
ServiceThread == GameThreads + 1
Ended == {"done", "failed", "lost"}

-----------------------------------------------------------------------------
(* The tool *)

Moves(i, from, to) == ipc[i] = from /\ ~dead /\ ipc' = [ipc EXCEPT ![i] = to]
Outside == UNCHANGED <<world, stack, heap, modules, initVars, dead>>

Quiet(i) ==
  /\ \A j \in Injectors \ {i} : ipc[j] \in {"start"} \cup Ended
  /\ \A t \in Threads : stack[t] = <<>>

(* call_until waits for the process, up to a deadline. *)
FindsProcess(i, found) ==
  /\ "overlap" \in world \/ Quiet(i)
  /\ i \in PidGiven => found
  /\ Moves(i, "start", IF found THEN "check" ELSE "lost")
  /\ Outside /\ UNCHANGED <<todo, tries, sus>>

ChecksModules(i, force) ==
  /\ Moves(i, "check", IF modules /\ ~force THEN "setup" ELSE "suspend")
  /\ todo' = [todo EXCEPT ![i] = alive]
  /\ Outside /\ UNCHANGED <<tries, sus>>

(* for_each_thread goes through the threads of a snapshot. *)
NextThread(i) == CHOOSE t \in todo[i] : \A u \in todo[i] : t <= u

Suspended(i) == [sus EXCEPT ![NextThread(i)] = @ + 1]

SuspendsThread(i) ==
  /\ todo[i] # {}
  /\ Moves(i, "suspend", "suspend")
  /\ sus' = Suspended(i)
  /\ todo' = [todo EXCEPT ![i] = @ \ {NextThread(i)}]
  /\ Outside /\ UNCHANGED tries

(* inject_code: the first thread continues with the loader, and where it was *)
(* after that.                                                               *)
tid == 1
InjectCode(i) ==
  /\ todo[i] = {}
  /\ Moves(i, "suspend", "resume")
  /\ stack' = [stack EXCEPT ![tid] = Append(@, "load")]
  /\ UNCHANGED <<world, todo, tries, sus, heap, modules, initVars, dead>>

ResumedBy(S) == [t \in DOMAIN sus |-> IF t \in S /\ sus[t] > 0 THEN sus[t] - 1 ELSE sus[t]]

ResumesInjected(i) ==
  /\ Moves(i, "resume", "list")
  /\ sus' = ResumedBy({tid})
  /\ Outside /\ UNCHANGED <<todo, tries>>

\* Mutant: no other thread is resumed.
NobodyElse == {}
OtherThreads == alive \ {tid}

(* resume_threads takes a snapshot of its own. *)
ListsThreads(i) ==
  /\ Moves(i, "list", "others")
  /\ todo' = [todo EXCEPT ![i] = OtherThreads]
  /\ Outside /\ UNCHANGED <<tries, sus>>

ResumesThread(i) ==
  /\ todo[i] # {}
  /\ Moves(i, "others", "others")
  /\ sus' = ResumedBy({NextThread(i)})
  /\ todo' = [todo EXCEPT ![i] = @ \ {NextThread(i)}]
  /\ Outside /\ UNCHANGED tries

ResumedAll(i) ==
  /\ todo[i] = {}
  /\ Moves(i, "others", "setup")
  /\ Outside /\ UNCHANGED <<todo, tries, sus>>

(* easy_setup sends its commands through a client that was never started:    *)
(* every attempt throws, and the attempts are not counted anew for the       *)
(* second command.                                                           *)
TriesLeft(i) == tries[i] - 1

easy_setup(i) ==
  /\ i \notin PidGiven
  /\ Moves(i, "setup", IF tries[i] <= 1 THEN "done" ELSE "setup")
  /\ tries' = [tries EXCEPT ![i] = IF tries[i] <= 1 THEN @ ELSE TriesLeft(i)]
  /\ Outside /\ UNCHANGED <<todo, sus>>

(* With --game-pid the tool only injects, and looks for no process. *)
OnlyInjects(i) ==
  /\ i \in PidGiven
  /\ Moves(i, "setup", "done")
  /\ Outside /\ UNCHANGED <<todo, tries, sus>>

(* A thread that has ended since the snapshot, or memory that cannot be      *)
(* written: the exception ends the tool where it is.                         *)
Throws(i) ==
  /\ "fails" \in world
  /\ ipc[i] \in {"check", "suspend", "resume", "list", "others"} /\ Moves(i, ipc[i], "failed")
  /\ Outside /\ UNCHANGED <<todo, tries, sus>>

-----------------------------------------------------------------------------
(* Threads of the game's process *)

Runs(t) == ~dead /\ sus[t] = 0 /\ UNCHANGED <<world, toolVars, sus>>
At(t, pc) == Runs(t) /\ stack[t] # <<>> /\ stack[t][Len(stack[t])] = pc
Goes(t, pc) == stack' = [stack EXCEPT ![t][Len(stack[t])] = pc]

TakesHeap(t) ==
  /\ Runs(t) /\ stack[t] = <<>> /\ heap = 0
  /\ heap' = t
  /\ UNCHANGED <<stack, modules, initVars, dead>>

LeavesHeap(t) ==
  /\ Runs(t) /\ stack[t] = <<>> /\ heap = t
  /\ heap' = 0
  /\ UNCHANGED <<stack, modules, initVars, dead>>

(* A thread that holds the locks itself may take them again. *)
Allocates(t) == heap \in {0, t}

(* What LoadLibrary and GetProcAddress return is not looked at: without the  *)
(* DLL or its function the loader calls address 0.                           *)
LoadLibrary(t) ==
  /\ At(t, "load") /\ Allocates(t)
  /\ IF "missing" \in world
     THEN dead' = TRUE /\ UNCHANGED <<stack, modules>>
     ELSE Goes(t, "lock") /\ modules' = TRUE /\ UNCHANGED dead
  /\ UNCHANGED <<heap, initVars>>

(* The mutex is not recursive. *)
InitLocks(t) ==
  /\ At(t, "lock") /\ g_lock = 0
  /\ g_lock' = t
  /\ Goes(t, "make")
  /\ UNCHANGED <<heap, modules, g_context, job, alive, dead>>

MustMake == ~g_context

(* make_is hands CreateHooks and CreateCallbacks to its new thread. *)
InitMakes(t) ==
  /\ At(t, "make")
  /\ MustMake => Allocates(t)
  /\ Goes(t, IF MustMake THEN "wait" ELSE "unlock")
  /\ job' = IF MustMake THEN "todo" ELSE job
  /\ alive' = IF MustMake THEN alive \cup {ServiceThread} ELSE alive
  /\ UNCHANGED <<heap, modules, g_lock, g_context, dead>>

(* The thread starts, makes the hooks and stores their results. *)
SetsUp ==
  /\ ServiceThread \in alive /\ Runs(ServiceThread) /\ job = "todo"
  /\ Allocates(ServiceThread)
  /\ job' = "done"
  /\ UNCHANGED <<stack, heap, modules, g_lock, g_context, alive, dead>>

(* The server binds its port last.  No frame of the loader can pass an       *)
(* exception on.                                                             *)
InitMade(t) ==
  /\ At(t, "wait") /\ job = "done" /\ Allocates(t)
  /\ IF "taken" \in world
     THEN dead' = TRUE /\ UNCHANGED <<stack, g_context>>
     ELSE Goes(t, "unlock") /\ g_context' = TRUE /\ UNCHANGED dead
  /\ UNCHANGED <<heap, modules, g_lock, job, alive>>

InitUnlocks(t) ==
  /\ At(t, "unlock")
  /\ g_lock' = 0
  /\ stack' = [stack EXCEPT ![t] = SubSeq(@, 1, Len(@) - 1)]
  /\ UNCHANGED <<heap, modules, g_context, job, alive, dead>>

-----------------------------------------------------------------------------
Init ==
  /\ world \in SUBSET Habits
  /\ ipc = [i \in Injectors |-> "start"] /\ todo = [i \in Injectors |-> {}]
  /\ tries = [i \in Injectors |-> Tries]
  /\ alive = Threads /\ sus = [t \in 1..ServiceThread |-> 0]
  /\ stack = [t \in Threads |-> <<>>] /\ heap = 0
  /\ modules = FALSE /\ g_lock = 0 /\ g_context = FALSE
  /\ job = "none" /\ dead = FALSE

Tool(i) ==
  \/ \E found \in BOOLEAN : FindsProcess(i, found)
  \/ \E force \in BOOLEAN : ChecksModules(i, force)
  \/ SuspendsThread(i) \/ InjectCode(i) \/ ResumesInjected(i)
  \/ ListsThreads(i) \/ ResumesThread(i) \/ ResumedAll(i)
  \/ easy_setup(i) \/ OnlyInjects(i) \/ Throws(i)

Loader(t) == InitLocks(t) \/ InitMakes(t) \/ InitMade(t) \/ InitUnlocks(t)

Next ==
  \/ \E i \in Injectors : Tool(i)
  \/ \E t \in Threads : TakesHeap(t) \/ LeavesHeap(t) \/ LoadLibrary(t) \/ Loader(t)
  \/ SetsUp

Spec == Init /\ [][Next]_vars

(* Running threads go on, and a lock that is free again and again is         *)
(* eventually got.                                                           *)
FairSpec ==
  /\ Spec
  /\ \A i \in Injectors : WF_vars(Tool(i))
  /\ \A t \in Threads : WF_vars(LeavesHeap(t)) /\ SF_vars(LoadLibrary(t)) /\ SF_vars(Loader(t))
  /\ SF_vars(SetsUp)

-----------------------------------------------------------------------------
(* Properties *)

(* When every run of the tool has ended and none has failed, each thread has *)
(* been resumed as often as suspended, in whatever order the runs overlap.   *)
AllResumed ==
  (\A i \in Injectors : ipc[i] \in {"start", "setup", "done", "lost"}) /\ ~dead
    => \A t \in DOMAIN sus : sus[t] = 0

(* The thread waits for the service's thread inside a lock that one needs:   *)
(* it had the lock when the tool interrupted it, and the service is new.     *)
WaitsInLock(t) ==
  /\ heap = t /\ ~g_context /\ job = "todo"
  /\ stack[t] # <<>> /\ stack[t][Len(stack[t])] = "wait"

(* Unless the runs overlap or one fails, an injected thread returns to the   *)
(* code of the game, or the process dies of a DLL or a port that is not to   *)
(* be had.  It may wait for the lock of a thread that is still suspended,    *)
(* but for ever only when it holds that lock itself.                         *)
LoaderReturns ==
  world \cap {"overlap", "fails"} = {} =>
    \A t \in Threads : stack[t] # <<>> ~> (stack[t] = <<>> \/ dead \/ WaitsInLock(t))

==============================================================================
