------------------------------ MODULE GameHooks ------------------------------
(***************************************************************************)
(* The callbacks that ra2yrcpp puts into the game's code: the game thread  *)
(* that runs them from hooks, the command worker that creates hooks and    *)
(* callbacks, reads the game state and defers work to the game loop, the   *)
(* recorder thread of CBSaveState, and the locks they share: the storage,  *)
(* the map of hooks, and the mutex of each hook.  A game state is the      *)
(* number of its frame.  The detour itself is the subject of Hook.         *)
(***************************************************************************)
EXTENDS Integers, Sequences, FiniteSets, SequencesExt

CONSTANTS
  MaxFrames,       \* bound on frames
  MaxCommands,     \* bound on commands
  RecorderSize,    \* bound of the recorder's queue, 10 in CBSaveState
  Worlds           \* the sets of habits a behaviour may have

(* "late": hooks and callbacks are created while the game runs, by a client  *)
(* (no_init_hooks), not before it goes on.  "repeat": CreateHooks or         *)
(* CreateCallbacks is called again.  "exit": the game may end and be played  *)
(* again.  "step": a client turns single-step mode on.  "idle": the recorder *)
(* gets nothing for MAX_TIMEOUT.  "fails": a write of the record may fail.   *)
Habits == {"late", "repeat", "exit", "step", "idle", "fails"}

ASSUME HooksAssumption ==
  /\ MaxFrames \in Nat /\ MaxCommands \in Nat /\ RecorderSize \in Nat \ {0}
  /\ Worlds \subseteq SUBSET Habits

(* The keys of the callback map in its order, and the hook of each. *)
Keys == <<"cb_game_command", "cb_progress_update", "gameloop_exit", "save_state">>
Target == [cb_game_command |-> "frame", cb_progress_update |-> "load",
           gameloop_exit |-> "exit", save_state |-> "frame"]
HookNames == {"frame", "load", "exit"}

VARIABLES
  habits,
  hooks,           \* hooks_, by name
  registered,      \* the callbacks of each hook
  callbacks,       \* the keys of GameDataYR::callbacks
  mutex,           \* holder of mut_storage_, of mut_hooks_ and of each hook's mu_
  gpc,             \* what the game thread does: place, hook, index of the callback
  wpc,             \* what the worker does: place, command, index
  suspended,       \* whether the game thread is suspended
  ingame, frame,   \* the game: in a match or not, CurrentFrame
  stage, saved,    \* stage and frame of the stored game state
  single_step, game_paused,
  work,            \* CBGameCommand::work
  recorder,        \* whether the recorder thread runs
  queue, record,   \* states on their way to the recorder, and the record file
  ncmds,           \* commands so far
  deferred,        \* history: commands put into the work of a callback,
  done, lost,      \*          those that were run, and lost with their callback
  failed,          \* history: frames whose write failed
  seen,            \* history: frame of the last GetGameState in single-step mode
  died             \* what ended the process

locks == <<mutex>>
codeVars == <<hooks, registered, callbacks>>
stateVars == <<stage, saved, recorder, queue, record>>
stepVars == <<single_step, game_paused>>
histVars == <<deferred, done, lost, failed, seen, died>>
moving == <<codeVars, locks, gpc, wpc, suspended, ingame, frame, stateVars, stepVars, work,
            ncmds, histVars>>
vars == <<habits, moving>>

GAt(place, h, i) == [at |-> place, h |-> h, i |-> i]
WAt(place, cmd, i) == [at |-> place, cmd |-> cmd, i |-> i]
Outside == GAt("outside", "none", 0)
Resting == WAt("rest", "none", 0)

Takes(who, m) == mutex[m] = "none" /\ mutex' = [mutex EXCEPT ![m] = who]
Frees(m) == mutex' = [mutex EXCEPT ![m] = "none"]

Loading == GAt("loading", "none", 0)

(* Without no_init_hooks the service creates hooks and callbacks while the   *)
(* thread that loads the library waits.                                      *)
Init ==
  /\ habits \in Worlds
  /\ hooks = {} /\ callbacks = {}
  /\ registered = [h \in HookNames |-> <<>>]
  /\ mutex = [m \in {"storage", "hooks"} \cup HookNames |-> "none"]
  /\ IF "late" \in habits
     THEN gpc = Outside /\ wpc = Resting
     ELSE gpc = Loading /\ wpc = WAt("create", "init", 1)
  /\ suspended = FALSE
  /\ ingame = FALSE /\ frame = 0
  /\ stage = "none" /\ saved = 0 /\ recorder = FALSE /\ queue = <<>> /\ record = <<>>
  /\ single_step = FALSE /\ game_paused = FALSE
  /\ work = <<>> /\ ncmds = 0
  /\ deferred = {} /\ done = <<>> /\ lost = {} /\ failed = {} /\ seen = 0 /\ died = "no"

Running == ~suspended /\ died = "no"

-----------------------------------------------------------------------------
(* The game thread *)

(* The game reaches hooked code: a progress update before a match, a frame   *)
(* of it, or the end of it.                                                  *)
GameReaches(h) ==
  /\ Running /\ gpc = Outside
  /\ h = "load" <=> ~ingame
  /\ h = "exit" => "exit" \in habits
  /\ h = "frame" => frame < MaxFrames
  /\ ingame' \in IF h = "load" THEN BOOLEAN ELSE {h # "exit"}
  /\ frame' = IF h = "frame" THEN frame + 1 ELSE frame
  /\ gpc' = IF h \in hooks THEN GAt("enter", h, 1) ELSE gpc
  /\ UNCHANGED <<codeVars, locks, wpc, suspended, stateVars, stepVars, work, ncmds, histVars>>

(* Hook::call *)
EntersHook ==
  /\ Running /\ gpc.at = "enter"
  /\ Takes("game", gpc.h)
  /\ gpc' = [gpc EXCEPT !.at = "next"]
  /\ UNCHANGED <<codeVars, wpc, suspended, ingame, frame, stateVars, stepVars, work, ncmds, histVars>>

LeavesHook ==
  /\ Running /\ gpc.at = "next" /\ gpc.i > Len(registered[gpc.h])
  /\ Frees(gpc.h)
  /\ gpc' = Outside
  /\ UNCHANGED <<codeVars, wpc, suspended, ingame, frame, stateVars, stepVars, work, ncmds, histVars>>

(* CBYR::do_call locks the storage before exec, and the code generators,     *)
(* which only the game thread ever locks.                                    *)
CallsBack ==
  /\ Running /\ gpc.at = "next" /\ gpc.i <= Len(registered[gpc.h])
  /\ Takes("game", "storage")
  /\ gpc' = [gpc EXCEPT !.at = registered[gpc.h][gpc.i]]
  /\ UNCHANGED <<codeVars, wpc, suspended, ingame, frame, stateVars, stepVars, work, ncmds, histVars>>

Returns ==
  /\ Frees("storage")
  /\ gpc' = [gpc EXCEPT !.at = "next", !.i = @ + 1]

UpdatesProgress ==
  /\ Running /\ gpc.at = "cb_progress_update"
  /\ stage' = "loading"
  /\ Returns
  /\ UNCHANGED <<codeVars, wpc, suspended, ingame, frame, saved, recorder, queue, record, stepVars, work,
                 ncmds, histVars>>

(* CBSaveState: the state is parsed, and pushed to the recorder while the    *)
(* storage is locked.                                                        *)
ParsedFrame == frame

ParsesState ==
  /\ Running /\ gpc.at = "save_state"
  /\ saved' = ParsedFrame /\ stage' = "ingame"
  /\ gpc' = [gpc EXCEPT !.at = "push"]
  /\ UNCHANGED <<codeVars, locks, wpc, suspended, ingame, frame, recorder, queue, record, stepVars, work,
                 ncmds, histVars>>

\* Mutant: the queue has no limit.
AlwaysRoom == TRUE
RecorderRoom == Len(queue) < RecorderSize

PushesState ==
  /\ Running /\ gpc.at = "push" /\ RecorderRoom
  /\ queue' = Append(queue, saved)
  /\ Returns
  /\ UNCHANGED <<codeVars, wpc, suspended, ingame, frame, stage, saved, recorder, record, stepVars, work,
                 ncmds, histVars>>

(* CBGameCommand.  In single-step mode the storage is released, the pause    *)
(* announced, and the thread waits until a client has read the state.        *)
StorageGivenUp == [mutex EXCEPT !["storage"] = "none"]

Unlocks ==
  /\ Running /\ gpc.at = "cb_game_command" /\ single_step
  /\ mutex' = StorageGivenUp
  /\ gpc' = [gpc EXCEPT !.at = "pause"]
  /\ UNCHANGED <<codeVars, wpc, suspended, ingame, frame, stateVars, stepVars, work, ncmds, histVars>>

\* Mutant: the pause is not announced, so that the game does not wait.
NotPaused == FALSE
PauseAnnounced == TRUE

Pauses ==
  /\ Running /\ gpc.at = "pause"
  /\ game_paused' = PauseAnnounced
  /\ gpc' = [gpc EXCEPT !.at = "wait"]
  /\ UNCHANGED <<codeVars, locks, wpc, suspended, ingame, frame, stateVars, single_step, work,
                 ncmds, histVars>>

Resumes ==
  /\ Running /\ gpc.at = "wait" /\ ~game_paused
  /\ Takes("game", "storage")
  /\ gpc' = [gpc EXCEPT !.at = "work"]
  /\ UNCHANGED <<codeVars, wpc, suspended, ingame, frame, stateVars, stepVars, work, ncmds, histVars>>

\* Mutant: only the first item is run.
RunsFirst == IF work = <<>> THEN work ELSE <<Head(work)>>
RunsItems == work

WorkLeft == <<>>

RunsWork ==
  /\ Running
  /\ gpc.at = "work" \/ (gpc.at = "cb_game_command" /\ ~single_step)
  /\ done' = done \o RunsItems
  /\ work' = WorkLeft
  /\ Returns
  /\ UNCHANGED <<codeVars, wpc, suspended, ingame, frame, stateVars, stepVars, ncmds, deferred,
                 lost, failed, seen, died>>

(* CBExitGameLoop: every other callback is taken out of its hook, without    *)
(* the hook's mutex, and destroyed; CBSaveState waits for its recorder.  An  *)
(* object whose callback is not in its hook makes remove_callback throw into *)
(* the detour, which ends the process.                                       *)
Unhooked == {k \in callbacks \ {"gameloop_exit"} :
               Target[k] \in hooks /\ k \notin ToSet(registered[Target[k]])}
Removed == {k \in callbacks \ {"gameloop_exit"} : Target[k] \in hooks}

\* Mutant: the callbacks stay in their hooks.
KeepsHooked == registered
RemoveCallback(cbs, k) ==
  IF k \in Removed THEN RemoveAt(cbs, CHOOSE i \in DOMAIN cbs : cbs[i] = k) ELSE cbs
TakenOut ==
  [registered EXCEPT
     !["frame"] = RemoveCallback(RemoveCallback(@, "cb_game_command"), "save_state"),
     !["load"] = RemoveCallback(@, "cb_progress_update")]

\* Mutant: states that wait in the recorder's queue are dropped.
JoinsAtOnce == TRUE
(* ~CBSaveState joins the recorder when that has come to the last item; if   *)
(* it has ended before, the last item only needs room in the queue.          *)
RecorderJoined == IF recorder THEN queue = <<>> ELSE RecorderRoom

ExitsGame ==
  /\ Running /\ gpc.at = "gameloop_exit"
  /\ mutex["hooks"] = "none"
  /\ stage' = "exit"
  /\ IF Unhooked # {}
     THEN died' = "remove_callback" /\ UNCHANGED <<registered, callbacks, lost, work, recorder, queue>>
     ELSE /\ registered' = TakenOut
          /\ callbacks' = callbacks \ Removed
          /\ lost' = lost \cup ToSet(work) /\ work' = <<>>
          /\ RecorderJoined
          /\ queue' = <<>> /\ recorder' = FALSE
          /\ UNCHANGED died
  /\ Returns
  /\ UNCHANGED <<hooks, wpc, suspended, ingame, frame, saved, record, stepVars, ncmds, deferred,
                 done, failed, seen>>

-----------------------------------------------------------------------------
(* The recorder writes what it takes from its queue, and ends when it gets   *)
(* nothing for MAX_TIMEOUT.  When a write fails, serialize_state throws, the *)
(* worker logs it and goes on, and the state is lost.                        *)

RecorderTakes == recorder /\ queue # <<>>

Records ==
  /\ died = "no" /\ RecorderTakes
  /\ record' = Append(record, Head(queue)) /\ queue' = Tail(queue)
  /\ UNCHANGED <<codeVars, locks, gpc, wpc, suspended, ingame, frame, stage, saved, recorder, stepVars,
                 work, ncmds, histVars>>

FailsToRecord ==
  /\ died = "no" /\ "fails" \in habits /\ RecorderTakes
  /\ failed' = failed \cup {Head(queue)} /\ queue' = Tail(queue)
  /\ UNCHANGED <<codeVars, locks, gpc, wpc, suspended, ingame, frame, stage, saved, recorder, record,
                 stepVars, work, ncmds, deferred, done, lost, seen, died>>

Expires ==
  /\ died = "no" /\ "idle" \in habits /\ recorder /\ queue = <<>>
  /\ recorder' = FALSE
  /\ UNCHANGED <<codeVars, locks, gpc, wpc, suspended, ingame, frame, stage, saved, queue, record,
                 stepVars, work, ncmds, histVars>>

-----------------------------------------------------------------------------
(* The worker.  One command after the other. *)

Commands == {"state", "defer"}
              \cup (IF {"late", "repeat"} \cap habits # {} THEN {"hooks", "callbacks"} ELSE {})
              \cup (IF "step" \in habits THEN {"config"} ELSE {})

Starts(cmd) ==
  /\ died = "no" /\ wpc = Resting /\ ncmds < MaxCommands
  /\ cmd \in Commands
  /\ cmd = "hooks" => "repeat" \in habits \/ hooks = {}
  /\ cmd = "callbacks" => "repeat" \in habits \/ callbacks = {}
  /\ ncmds' = ncmds + 1
  /\ wpc' = WAt(cmd, cmd, 1)
  /\ UNCHANGED <<codeVars, locks, gpc, suspended, ingame, frame, stateVars, stepVars, work, histVars>>

(* CreateHooks stops the other threads unless told not to; make_is tells it. *)
SuspendsThreads ==
  /\ died = "no" /\ wpc.at = "hooks"
  /\ suspended' = TRUE
  /\ wpc' = [wpc EXCEPT !.at = "create"]
  /\ UNCHANGED <<codeVars, locks, gpc, ingame, frame, stateVars, stepVars, work, ncmds, histVars>>

SuspendedAfter == FALSE

(* create_hook throws when the hook exists, and the threads stay suspended.  *)
CreatesHooks ==
  /\ died = "no" /\ wpc.at = "create" /\ mutex["hooks"] = "none"
  /\ IF hooks # {}
     THEN UNCHANGED <<hooks, suspended>>
     ELSE hooks' = HookNames /\ suspended' = SuspendedAfter
  /\ wpc' = IF wpc.cmd = "init" THEN WAt("callbacks", "init", 1) ELSE Resting
  /\ UNCHANGED <<registered, callbacks, locks, gpc, ingame, frame, stateVars, stepVars, work, ncmds,
                 histVars>>

(* CreateCallbacks: init_callbacks makes the missing objects and opens the   *)
(* record file, each time, since callbacks_initialized is never set.         *)
InitCallbacks ==
  /\ died = "no" /\ wpc.at = "callbacks"
  /\ Takes("worker", "storage")
  /\ callbacks' = ToSet(Keys)
  /\ record' = <<>>
  /\ recorder' = (recorder \/ "save_state" \notin callbacks)
  /\ wpc' = [wpc EXCEPT !.at = "lock_hooks"]
  /\ UNCHANGED <<hooks, registered, gpc, suspended, ingame, frame, stage, saved, queue, stepVars,
                 work, ncmds, histVars>>

LocksHooks ==
  /\ died = "no" /\ wpc.at = "lock_hooks"
  /\ Takes("worker", "hooks")
  /\ wpc' = [wpc EXCEPT !.at = "add"]
  /\ UNCHANGED <<codeVars, gpc, suspended, ingame, frame, stateVars, stepVars, work, ncmds, histVars>>

Adding == Keys[wpc.i]
MayAdd == /\ wpc.i <= Len(Keys)
          /\ Target[Adding] \in hooks /\ Adding \notin ToSet(registered[Target[Adding]])

(* All callbacks are added, or one is there already or has no hook: the      *)
(* command ends, the rest is left out.  Then the game may go on.             *)
EndsAdding ==
  /\ died = "no" /\ wpc.at = "add"
  /\ ~MayAdd
  /\ mutex' = [mutex EXCEPT !["storage"] = "none", !["hooks"] = "none"]
  /\ gpc' = IF wpc.cmd = "init" THEN Outside ELSE gpc
  /\ wpc' = Resting
  /\ UNCHANGED <<codeVars, suspended, ingame, frame, stateVars, stepVars, work, ncmds, histVars>>

AddsCallback ==
  /\ died = "no" /\ wpc.at = "add" /\ MayAdd
  /\ mutex[Target[Adding]] = "none"
  /\ registered' = [registered EXCEPT ![Target[Adding]] = Append(@, Adding)]
  /\ wpc' = [wpc EXCEPT !.i = @ + 1]
  /\ UNCHANGED <<hooks, callbacks, locks, gpc, suspended, ingame, frame, stateVars, stepVars, work,
                 ncmds, histVars>>

(* InspectConfiguration merges; single_step can only be turned on. *)
Configures ==
  /\ died = "no" /\ wpc.at = "config" /\ mutex["storage"] = "none"
  /\ single_step' = TRUE
  /\ wpc' = Resting
  /\ UNCHANGED <<codeVars, locks, gpc, suspended, ingame, frame, stateVars, game_paused, work, ncmds,
                 histVars>>

(* GetGameState: when the game is paused the storage is given up for a       *)
(* moment; the copy and the release of the game are two steps.               *)
LocksState ==
  /\ died = "no" /\ wpc.at = "state"
  /\ Takes("worker", "storage")
  /\ wpc' = [wpc EXCEPT !.at = IF single_step /\ game_paused THEN "yield" ELSE "copy"]
  /\ UNCHANGED <<codeVars, gpc, suspended, ingame, frame, stateVars, stepVars, work, ncmds, histVars>>

YieldsState ==
  /\ died = "no" /\ wpc.at = "yield"
  /\ Frees("storage")
  /\ wpc' = [wpc EXCEPT !.at = "regain"]
  /\ UNCHANGED <<codeVars, gpc, suspended, ingame, frame, stateVars, stepVars, work, ncmds, histVars>>

RegainsState ==
  /\ died = "no" /\ wpc.at = "regain" /\ game_paused
  /\ Takes("worker", "storage")
  /\ wpc' = [wpc EXCEPT !.at = "copy"]
  /\ UNCHANGED <<codeVars, gpc, suspended, ingame, frame, stateVars, stepVars, work, ncmds, histVars>>

CopiesState ==
  /\ died = "no" /\ wpc.at = "copy"
  /\ wpc' = WAt("release", "state", saved)
  /\ UNCHANGED <<codeVars, locks, gpc, suspended, ingame, frame, stateVars, stepVars, work, ncmds,
                 histVars>>

ReleasesGame ==
  /\ died = "no" /\ wpc.at = "release"
  /\ game_paused' = IF single_step THEN FALSE ELSE game_paused
  /\ seen' = IF single_step THEN wpc.i ELSE seen
  /\ Frees("storage")
  /\ wpc' = Resting
  /\ UNCHANGED <<codeVars, gpc, suspended, ingame, frame, stateVars, single_step, work, ncmds,
                 deferred, done, lost, failed, died>>

(* get_gameloop_command: the callback is looked up without a lock, and the   *)
(* work is put into it afterwards.                                           *)
LooksUpCallback ==
  /\ died = "no" /\ wpc.at = "defer"
  /\ wpc' = IF "cb_game_command" \in callbacks THEN [wpc EXCEPT !.at = "put"] ELSE Resting
  /\ UNCHANGED <<codeVars, locks, gpc, suspended, ingame, frame, stateVars, stepVars, work, ncmds,
                 histVars>>

PutsWork ==
  /\ died = "no" /\ wpc.at = "put"
  /\ IF "cb_game_command" \in callbacks
     THEN work' = Append(work, ncmds) /\ deferred' = deferred \cup {ncmds} /\ UNCHANGED died
     ELSE died' = "put_work" /\ UNCHANGED <<work, deferred>>
  /\ wpc' = Resting
  /\ UNCHANGED <<codeVars, locks, gpc, suspended, ingame, frame, stateVars, stepVars, ncmds, done,
                 lost, failed, seen>>

-----------------------------------------------------------------------------
InHook ==
  \/ EntersHook \/ LeavesHook \/ CallsBack \/ UpdatesProgress \/ ParsesState \/ PushesState
  \/ Unlocks \/ Pauses \/ Resumes \/ RunsWork \/ ExitsGame

Worker ==
  \/ SuspendsThreads \/ CreatesHooks \/ InitCallbacks \/ LocksHooks \/ EndsAdding \/ AddsCallback
  \/ Configures \/ LocksState \/ YieldsState \/ RegainsState \/ CopiesState \/ ReleasesGame
  \/ LooksUpCallback \/ PutsWork

Next ==
  /\ \/ InHook \/ Worker \/ Records \/ FailsToRecord \/ Expires
     \/ \E h \in HookNames : GameReaches(h)
     \/ \E cmd \in {"state", "defer", "hooks", "callbacks", "config"} : Starts(cmd)
  /\ UNCHANGED habits

Spec == Init /\ [][Next]_vars

(* The threads keep running; a mutex that is free again and again is got.    *)
Fairness ==
  /\ SF_moving(InHook) /\ SF_moving(Worker) /\ WF_moving(Records \/ FailsToRecord)

FairSpec == Spec /\ Fairness

-----------------------------------------------------------------------------
(* Properties *)

(* The maps of hooks and callbacks, the flags and the numbers keep their     *)
(* types, the recorder's queue its bound, and a mutex its holder.            *)
TypeOK ==
  /\ hooks \subseteq HookNames
  /\ callbacks \subseteq ToSet(Keys)
  /\ \A h \in HookNames : ToSet(registered[h]) \subseteq {k \in ToSet(Keys) : Target[k] = h}
  /\ mutex \in [{"storage", "hooks"} \cup HookNames -> {"none", "game", "worker"}]
  /\ stage \in {"none", "loading", "ingame", "exit"}
  /\ frame \in 0..MaxFrames /\ saved \in 0..MaxFrames
  /\ Len(queue) <= RecorderSize
  /\ {suspended, ingame, recorder, single_step, game_paused} \subseteq BOOLEAN
  /\ ToSet(work) \cup ToSet(done) \cup lost \subseteq 1..MaxCommands

(* Why the game thread does not go on.  Hook::call holds a hook's mutex and  *)
(* waits for the storage, CreateCallbacks holds the storage and waits for    *)
(* that mutex (locks); CreateHooks has left it suspended (suspended); the    *)
(* recorder has ended and its queue is full (recorder); it waits for a       *)
(* GetGameState in single-step mode (step).                                  *)
Held(why) ==
  CASE why = "locks" ->
         /\ gpc.at = "next" /\ gpc.i <= Len(registered[gpc.h]) /\ mutex["storage"] = "worker"
         /\ wpc.at = "add" /\ MayAdd /\ mutex[Target[Adding]] = "game"
    [] why = "suspended" -> suspended /\ wpc.at # "create"
    [] why = "recorder" -> gpc.at \in {"push", "gameloop_exit"} /\ ~recorder /\ ~RecorderRoom
    [] why = "step" -> gpc.at = "wait" /\ game_paused

(* Each reason that holds the game has its cause: callbacks that are created *)
(* while the game runs, CreateHooks when the hooks exist, a recorder that    *)
(* had nothing to do, or single-step mode.                                   *)
HoldsExplained ==
  /\ Held("locks") => "late" \in habits
  /\ Held("suspended") => "repeat" \in habits
  /\ Held("recorder") => "idle" \in habits
  /\ Held("step") => "step" \in habits /\ single_step

(* While a hook may call it, a callback's object exists; the process ends on *)
(* a destroyed callback only when a deferred command meets the end of a      *)
(* match, and on remove_callback only when the callbacks of a second match   *)
(* were created.                                                             *)
CallbacksAlive ==
  /\ \A h \in HookNames : ToSet(registered[h]) \subseteq callbacks
  /\ died # "no" => "exit" \in habits
  /\ died = "remove_callback" => {"repeat", "late"} \cap habits # {}

(* What holds the game or ends it has the cause stated above.  That nothing  *)
(* else holds it is HookLeft.                                                *)
StopsExplained == HoldsExplained /\ CallbacksAlive

Rises(s) == \A i, j \in DOMAIN s : i < j => s[i] < s[j]

(* The record and the recorder's queue hold the saved frames in order, each  *)
(* once, and all of them but those whose write failed, unless                *)
(* CreateCallbacks has opened the file again or the recorder has ended.      *)
RecordComplete ==
  {"late", "repeat", "idle"} \cap habits = {} =>
    /\ Rises(record \o queue)
    /\ ToSet(record) \cup ToSet(queue) \cup failed
         = 1..(IF gpc.at = "push" THEN saved - 1 ELSE saved)
    /\ failed # {} => "fails" \in habits

(* Deferred commands are run in the order in which they were deferred, each  *)
(* once.  Every one has been run, waits in the work of the callback, or was  *)
(* lost unrun with the callback, which happens only where matches end.       *)
WorkInOrder ==
  /\ Rises(done \o work)
  /\ ToSet(done) \cup ToSet(work) \cup lost = deferred
  /\ lost \cap ToSet(done \o work) = {}
  /\ work # <<>> => "cb_game_command" \in callbacks
  /\ lost # {} => "exit" \in habits

(* In single-step mode no frame goes unseen: a GetGameState returns the      *)
(* frame of the one before it or the next one.                               *)
StepSeesEachFrame == [][seen' # seen /\ seen # 0 => seen' \in seen..(seen + 1)]_vars


==============================================================================
