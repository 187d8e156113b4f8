--------------------------- MODULE GameHooksProofs ---------------------------
(***************************************************************************)
(* Proofs about GameHooks, for any number of frames and commands, any size *)
(* of the recorder's queue and any habits of the clients.  The game        *)
(* thread, the worker and the recorder share four pieces of state under    *)
(* different locks or none; the invariant says where each thread can be    *)
(* while the other is where it is.                                         *)
(***************************************************************************)
EXTENDS GameHooks, TLAPS

KeySet == {"cb_game_command", "cb_progress_update", "gameloop_exit", "save_state"}
GamePlaces == {"outside", "loading", "enter", "next", "push", "pause", "wait", "work"} \cup KeySet
WorkerPlaces == {"rest", "hooks", "create", "callbacks", "lock_hooks", "add", "config", "state",
                 "yield", "regain", "copy", "release", "defer", "put"}
CommandNames == {"state", "defer", "hooks", "callbacks", "config"}
GameRecords == [at : GamePlaces, h : HookNames \cup {"none"}, i : Nat]
WorkerRecords == [at : WorkerPlaces, cmd : CommandNames \cup {"none", "init"}, i : Nat]
Mutexes == {"storage", "hooks"} \cup HookNames
Holders == {"none", "game", "worker"}

CodeTypes ==
  /\ habits \in SUBSET Habits
  /\ hooks \in {{}, HookNames}
  /\ callbacks \in SUBSET KeySet
  /\ registered \in [HookNames -> Seq(KeySet)]
  /\ mutex \in [Mutexes -> Holders]
  /\ suspended \in BOOLEAN

PlaceTypes == gpc \in GameRecords /\ wpc \in WorkerRecords

StateTypes ==
  /\ ingame \in BOOLEAN /\ recorder \in BOOLEAN
  /\ single_step \in BOOLEAN /\ game_paused \in BOOLEAN
  /\ frame \in 0..MaxFrames /\ saved \in 0..MaxFrames /\ seen \in Nat
  /\ stage \in {"none", "loading", "ingame", "exit"}
  /\ queue \in Seq(Nat) /\ record \in Seq(Nat) /\ Len(queue) <= RecorderSize
  /\ died \in {"no", "remove_callback", "put_work"}

WorkTypes ==
  /\ ncmds \in 0..MaxCommands
  /\ work \in Seq(1..MaxCommands) /\ done \in Seq(1..MaxCommands)
  /\ lost \in SUBSET (1..MaxCommands)

HTypes == CodeTypes /\ PlaceTypes /\ StateTypes /\ WorkTypes

-----------------------------------------------------------------------------
(* Callbacks enter a hook in the order of their keys, and leave it together: *)
(* how many a hook has says which.                                           *)
Slots == [frame |-> 2, load |-> 1, exit |-> 1]
Pos == [cb_game_command |-> 1, cb_progress_update |-> 1, gameloop_exit |-> 1, save_state |-> 2]

InOrder ==
  \A h \in HookNames :
    /\ Len(registered[h]) <= Slots[h]
    /\ \A i \in 1..Len(registered[h]) : Target[registered[h][i]] = h /\ Pos[registered[h][i]] = i

(* The lengths of the three lists. *)
NF == Len(registered["frame"])
NL == Len(registered["load"])
NE == Len(registered["exit"])

(* k is registered in its hook. *)
Has(k) == Pos[k] <= Len(registered[Target[k]])

Loads == gpc.at = "loading"

(* Where the game thread is, with its hook and the index of the callback. *)
GamePlace ==
  /\ gpc.at \in {"outside", "loading"} => gpc.h = "none" /\ gpc.i = 0
  /\ gpc.at = "enter" => gpc.h # "none" /\ gpc.i = 1
  /\ gpc.at = "next" => /\ gpc.h # "none" /\ gpc.i >= 1
                        /\ gpc.h = "frame" => gpc.i <= NF + 1
                        /\ gpc.h = "load" => gpc.i <= NL + 1
                        /\ gpc.h = "exit" => gpc.i <= NE + 1
  /\ gpc.at \in {"cb_game_command", "pause", "wait", "work"} =>
       gpc.h = "frame" /\ gpc.i = 1 /\ 1 <= NF
  /\ gpc.at \in {"save_state", "push"} => gpc.h = "frame" /\ gpc.i = 2 /\ 2 <= NF
  /\ gpc.at = "cb_progress_update" => gpc.h = "load" /\ gpc.i = 1 /\ 1 <= NL
  /\ gpc.at = "gameloop_exit" => gpc.h = "exit" /\ gpc.i = 1 /\ 1 <= NE
  /\ gpc.h = "exit" => "exit" \in habits
  /\ gpc.h # "none" => hooks = HookNames

(* Who holds which mutex follows from where the threads are. *)
GameHolds == KeySet \cup {"push", "work"}
WorkerHolds == {"lock_hooks", "add", "yield", "copy", "release"}

LockInv ==
  /\ \A h \in HookNames :
       mutex[h] = IF gpc.h = h /\ gpc.at # "enter" THEN "game" ELSE "none"
  /\ gpc.at \in GameHolds => mutex["storage"] = "game"
  /\ wpc.at \in WorkerHolds => mutex["storage"] = "worker"
  /\ gpc.at \notin GameHolds /\ wpc.at \notin WorkerHolds => mutex["storage"] = "none"
  /\ mutex["hooks"] = IF wpc.at = "add" THEN "worker" ELSE "none"

(* What the worker relies on where it is. *)
WorkerPlace ==
  /\ wpc.cmd = "init" <=> Loads
  /\ wpc.cmd = "init" => wpc.at \in {"create", "callbacks", "lock_hooks", "add"}
  /\ wpc.at \in {"callbacks", "lock_hooks"} => wpc.i = 1
  /\ wpc.at = "add" => wpc.i \in 1..5
  /\ wpc.at \in {"hooks", "create"} => hooks = {} \/ "repeat" \in habits
  /\ suspended => wpc.at = "create" \/ "repeat" \in habits
  /\ wpc.at \in {"lock_hooks", "add"} => callbacks = KeySet
  /\ wpc.at = "put" => "cb_game_command" \in callbacks \/ "exit" \in habits
  /\ wpc.at = "add" => /\ wpc.i > 1 => 1 <= NF
                       /\ wpc.i > 2 => 1 <= NL
                       /\ wpc.i > 3 => 1 <= NE
                       /\ wpc.i > 4 => 2 <= NF
                       /\ wpc.i = 4 => 2 <= NF \/ saved = 0

(* The game waits for the service to start: nothing has happened yet. *)
LoadInv ==
  Loads =>
    /\ "late" \notin habits
    /\ wpc.at = "create" => hooks = {}
    /\ wpc.at # "create" => hooks = HookNames
    /\ wpc.at \in {"create", "callbacks"} => callbacks = {}
    /\ 1 <= NF => wpc.at = "add" /\ wpc.i > 1
    /\ 1 <= NL => wpc.at = "add" /\ wpc.i > 2
    /\ 1 <= NE => wpc.at = "add" /\ wpc.i > 3
    /\ 2 <= NF => wpc.at = "add" /\ wpc.i > 4
    /\ frame = 0 /\ saved = 0 /\ record = <<>> /\ queue = <<>>
    /\ wpc.at \in {"lock_hooks", "add"} /\ "idle" \notin habits => recorder

(* Objects and registrations. *)
CodeInv ==
  /\ InOrder
  /\ 1 <= NF => "cb_game_command" \in callbacks
  /\ 2 <= NF => "save_state" \in callbacks
  /\ 1 <= NL => "cb_progress_update" \in callbacks
  /\ 1 <= NE => "gameloop_exit" \in callbacks
  /\ 1 <= NF \/ 1 <= NL \/ 1 <= NE => hooks = HookNames
  /\ 2 <= NF \/ saved # 0 => 1 <= NE
  /\ "late" \notin habits /\ ~Loads =>
       /\ 1 <= NE /\ hooks = HookNames
       /\ wpc.at = "add" => wpc.i <= 3
  /\ {"late", "repeat"} \cap habits = {} /\ ~Loads =>
       /\ wpc.at \notin {"hooks", "create", "callbacks", "lock_hooks", "add"}
       /\ "cb_game_command" \in callbacks => 1 <= NF
       /\ "save_state" \in callbacks => 2 <= NF
       /\ "cb_progress_update" \in callbacks => 1 <= NL
  /\ died # "no" => "exit" \in habits
  /\ died = "remove_callback" => {"repeat", "late"} \cap habits # {}

(* The state of a frame is saved in that frame. *)
Plain == {"late", "repeat", "idle"} \cap habits = {}
Unparsed ==
  /\ gpc.h = "frame" /\ gpc.at # "push"
  /\ gpc.at = "next" => gpc.i <= 2

SaveInv ==
  /\ 2 <= NF /\ (saved # 0 \/ Plain) /\ ~Loads =>
       saved = IF Unparsed THEN frame - 1 ELSE frame
  /\ Plain /\ ~Loads => (2 <= NF => recorder) /\ (recorder \/ queue = <<>>)

(* Single-step mode: the game goes on from its pause when the state has been *)
(* read.                                                                     *)
Released ==
  /\ gpc.h = "frame"
  /\ \/ gpc.at \in {"work", "save_state"}
     \/ gpc.at = "next" /\ gpc.i = 2
     \/ gpc.at = "wait" /\ ~game_paused

StepInv ==
  /\ single_step \/ seen = 0
  /\ gpc.at \in {"pause", "wait", "work"} => single_step
  /\ wpc.at = "release" => wpc.i = saved
  /\ seen # 0 => saved = seen \/ (saved = seen + 1 /\ ~Released)

(* Commands are numbered in the order in which they are deferred. *)
Rising(s) == \A i, j \in 1..Len(s) : i < j => s[i] < s[j]
Below(s, n) == \A i \in 1..Len(s) : s[i] < n

WorkInv ==
  /\ Rising(done) /\ Rising(work)
  /\ \A i \in 1..Len(done), j \in 1..Len(work) : done[i] < work[j]
  /\ Below(done, ncmds + 1) /\ Below(work, ncmds + 1)
  /\ wpc.at \in {"defer", "put"} => Below(done, ncmds) /\ Below(work, ncmds) /\ ncmds > 0
  /\ lost # {} => "exit" \in habits

(* Every deferred command is in one place, and the work of a callback goes   *)
(* with it.                                                                  *)
KeptInv ==
  /\ ToSet(done) \cup ToSet(work) \cup lost = deferred
  /\ lost \cap (ToSet(done) \cup ToSet(work)) = {}
  /\ work # <<>> => "cb_game_command" \in callbacks
  /\ \A n \in lost : n < ncmds + 1
  /\ wpc.at \in {"defer", "put"} => \A n \in lost : n < ncmds

(* The recorder runs as long as CBSaveState exists. *)
RecorderInv ==
  "idle" \notin habits =>
    /\ "save_state" \in callbacks => recorder
    /\ recorder \/ queue = <<>>

(* Only a client turns single-step mode on. *)
ModeInv ==
  /\ single_step => "step" \in habits
  /\ wpc.at = "config" => "step" \in habits

(* The saved frames are recorded, on their way to the recorder, or failed. *)
FramesKept(r, q, f, n) ==
  /\ Rising(r) /\ Rising(q)
  /\ \A i \in 1..Len(r), j \in 1..Len(q) : r[i] < q[j]
  /\ ToSet(r) \cup ToSet(q) \cup f = 1..n

RecordInv ==
  Plain =>
    /\ gpc.at = "push" => saved >= 1 /\ FramesKept(record, queue, failed, saved - 1)
    /\ gpc.at # "push" => FramesKept(record, queue, failed, saved)
    /\ failed # {} => "fails" \in habits

GInv == /\ HTypes /\ GamePlace /\ LockInv /\ WorkerPlace /\ LoadInv /\ CodeInv
        /\ SaveInv /\ StepInv /\ WorkInv /\ KeptInv /\ RecorderInv /\ ModeInv /\ RecordInv

-----------------------------------------------------------------------------
(* The callback map: key, hook, place in the hook. *)
LEMMA KeyFacts ==
  /\ Target["cb_game_command"] = "frame" /\ Pos["cb_game_command"] = 1
  /\ Target["cb_progress_update"] = "load" /\ Pos["cb_progress_update"] = 1
  /\ Target["gameloop_exit"] = "exit" /\ Pos["gameloop_exit"] = 1
  /\ Target["save_state"] = "frame" /\ Pos["save_state"] = 2
  /\ Slots["frame"] = 2 /\ Slots["load"] = 1 /\ Slots["exit"] = 1
  /\ Keys[1] = "cb_game_command" /\ Keys[2] = "cb_progress_update"
  /\ Keys[3] = "gameloop_exit" /\ Keys[4] = "save_state" /\ Len(Keys) = 4
BY DEF Target, Pos, Slots, Keys

(* The keys of the map are the four callbacks. *)
LEMMA KeySetIs == ToSet(Keys) = KeySet
<1>1. DOMAIN Keys = 1..4
  BY DEF Keys
<1>2. ToSet(Keys) = {Keys[1], Keys[2], Keys[3], Keys[4]}
  BY <1>1 DEF ToSet
<1> QED
  BY <1>2, KeyFacts DEF KeySet

(* Which callbacks a hook has, by the length of its list. *)
LEMMA HasLengths ==
  /\ Has("cb_game_command") <=> 1 <= NF
  /\ Has("save_state") <=> 2 <= NF
  /\ Has("cb_progress_update") <=> 1 <= NL
  /\ Has("gameloop_exit") <=> 1 <= NE
BY KeyFacts DEF Has, NF, NL, NE

(* The lists hold the callbacks that Has names. *)
LEMMA Registered ==
  ASSUME CodeTypes, InOrder
  PROVE  \A k \in KeySet : k \in ToSet(registered[Target[k]]) <=> Has(k)
<1>1. \A h \in HookNames : registered[h] \in Seq(KeySet) /\ DOMAIN registered[h] = 1..Len(registered[h])
  BY DEF CodeTypes
<1>2. /\ \A i \in 1..Len(registered["frame"]) : i <= 2 /\ Pos[registered["frame"][i]] = i
                                                 /\ Target[registered["frame"][i]] = "frame"
                                                 /\ registered["frame"][i] \in KeySet
      /\ \A i \in 1..Len(registered["load"]) : i <= 1 /\ Target[registered["load"][i]] = "load"
                                                /\ registered["load"][i] \in KeySet
      /\ \A i \in 1..Len(registered["exit"]) : i <= 1 /\ Target[registered["exit"][i]] = "exit"
                                                /\ registered["exit"][i] \in KeySet
  BY <1>1, KeyFacts DEF InOrder, HookNames
<1>3. /\ \A i \in 1..Len(registered["frame"]) :
           registered["frame"][i] = IF i = 1 THEN "cb_game_command" ELSE "save_state"
      /\ \A i \in 1..Len(registered["load"]) : i = 1 /\ registered["load"][i] = "cb_progress_update"
      /\ \A i \in 1..Len(registered["exit"]) : i = 1 /\ registered["exit"][i] = "gameloop_exit"
  BY <1>2, KeyFacts DEF KeySet
<1>0. \A h \in HookNames : Len(registered[h]) \in Nat /\ Len(registered[h]) <= Slots[h]
  BY <1>1 DEF InOrder
<1>4. /\ Len(registered["frame"]) \in 0..2 /\ Len(registered["load"]) \in 0..1
      /\ Len(registered["exit"]) \in 0..1
  <2>1. "frame" \in HookNames /\ "load" \in HookNames /\ "exit" \in HookNames
    BY DEF HookNames
  <2>2. /\ Len(registered["frame"]) \in Nat /\ Len(registered["frame"]) <= Slots["frame"]
        /\ Len(registered["load"]) \in Nat /\ Len(registered["load"]) <= Slots["load"]
        /\ Len(registered["exit"]) \in Nat /\ Len(registered["exit"]) <= Slots["exit"]
    BY <1>0, <2>1
  <2>3. Slots["frame"] = 2 /\ Slots["load"] = 1 /\ Slots["exit"] = 1
    BY KeyFacts
  <2>4. \A n \in Nat : (n <= 2 => n \in 0..2) /\ (n <= 1 => n \in 0..1)
    OBVIOUS
  <2>5. /\ Len(registered["frame"]) <= 2 /\ Len(registered["load"]) <= 1
        /\ Len(registered["exit"]) <= 1
    BY <2>2, <2>3
  <2> QED
    BY <2>2, <2>4, <2>5
<1>5. /\ "cb_game_command" \in ToSet(registered["frame"]) <=> 1 <= Len(registered["frame"])
      /\ "save_state" \in ToSet(registered["frame"]) <=> 2 <= Len(registered["frame"])
  BY <1>1, <1>3, <1>4 DEF ToSet, HookNames
<1>6. /\ "cb_progress_update" \in ToSet(registered["load"]) <=> 1 <= Len(registered["load"])
      /\ "gameloop_exit" \in ToSet(registered["exit"]) <=> 1 <= Len(registered["exit"])
  BY <1>1, <1>3, <1>4 DEF ToSet, HookNames
<1> QED
  BY <1>5, <1>6, HasLengths, KeyFacts DEF KeySet, NF, NL, NE

(* The elements of the lists, by their place. *)
LEMMA Elements ==
  ASSUME CodeTypes, InOrder
  PROVE  /\ \A h \in HookNames : registered[h] \in Seq(KeySet)
         /\ Len(registered["frame"]) \in 0..2 /\ Len(registered["load"]) \in 0..1
         /\ Len(registered["exit"]) \in 0..1
         /\ 1 <= Len(registered["frame"]) => registered["frame"][1] = "cb_game_command"
         /\ 2 <= Len(registered["frame"]) => registered["frame"][2] = "save_state"
         /\ 1 <= Len(registered["load"]) => registered["load"][1] = "cb_progress_update"
         /\ 1 <= Len(registered["exit"]) => registered["exit"][1] = "gameloop_exit"
<1>1. \A h \in HookNames : registered[h] \in Seq(KeySet)
  BY DEF CodeTypes
<1>0. \A h \in HookNames : Len(registered[h]) \in Nat /\ Len(registered[h]) <= Slots[h]
  BY <1>1 DEF InOrder
<1>2. /\ Len(registered["frame"]) \in 0..2 /\ Len(registered["load"]) \in 0..1
      /\ Len(registered["exit"]) \in 0..1
  <2>1. "frame" \in HookNames /\ "load" \in HookNames /\ "exit" \in HookNames
    BY DEF HookNames
  <2>2. /\ Len(registered["frame"]) \in Nat /\ Len(registered["frame"]) <= Slots["frame"]
        /\ Len(registered["load"]) \in Nat /\ Len(registered["load"]) <= Slots["load"]
        /\ Len(registered["exit"]) \in Nat /\ Len(registered["exit"]) <= Slots["exit"]
    BY <1>0, <2>1
  <2>3. Slots["frame"] = 2 /\ Slots["load"] = 1 /\ Slots["exit"] = 1
    BY KeyFacts
  <2>4. \A n \in Nat : (n <= 2 => n \in 0..2) /\ (n <= 1 => n \in 0..1)
    OBVIOUS
  <2>5. /\ Len(registered["frame"]) <= 2 /\ Len(registered["load"]) <= 1
        /\ Len(registered["exit"]) <= 1
    BY <2>2, <2>3
  <2> QED
    BY <2>2, <2>4, <2>5
<1>3. \A h \in HookNames : \A i \in 1..Len(registered[h]) :
        registered[h][i] \in KeySet /\ Target[registered[h][i]] = h /\ Pos[registered[h][i]] = i
  BY <1>1 DEF InOrder
<1>4. \A k \in KeySet : /\ Target[k] = "frame" /\ Pos[k] = 1 => k = "cb_game_command"
                        /\ Target[k] = "frame" /\ Pos[k] = 2 => k = "save_state"
                        /\ Target[k] = "load" => k = "cb_progress_update"
                        /\ Target[k] = "exit" => k = "gameloop_exit"
  BY KeyFacts DEF KeySet
<1> QED
  BY <1>1, <1>2, <1>3, <1>4 DEF HookNames

(* remove_callback takes the first callback out of a list. *)
LEMMA RemoveFirstOf ==
  ASSUME NEW s \in Seq(KeySet), Len(s) >= 1, NEW k, s[1] = k, k \in Removed,
         \A i \in 2..Len(s) : s[i] # k
  PROVE  /\ RemoveCallback(s, k) \in Seq(KeySet)
         /\ Len(RemoveCallback(s, k)) = Len(s) - 1
         /\ \A i \in 1..Len(s) - 1 : RemoveCallback(s, k)[i] = s[i + 1]
<1>1. DOMAIN s = 1..Len(s) /\ Len(s) \in Nat
  OBVIOUS
<1>2. \A i \in DOMAIN s : s[i] = k <=> i = 1
  BY <1>1
<1>3. (CHOOSE i \in DOMAIN s : s[i] = k) = 1
  BY <1>1, <1>2
<1>4. RemoveCallback(s, k) = SubSeq(s, 1, 0) \o SubSeq(s, 2, Len(s))
  <2>1. RemoveCallback(s, k) = RemoveAt(s, CHOOSE i \in DOMAIN s : s[i] = k)
    BY DEF RemoveCallback
  <2>2. RemoveCallback(s, k) = RemoveAt(s, 1)
    BY <1>3, <2>1
  <2>3. RemoveAt(s, 1) = SubSeq(s, 1, 1 - 1) \o SubSeq(s, 1 + 1, Len(s))
    BY DEF RemoveAt
  <2>4. 1 - 1 = 0 /\ 1 + 1 = 2
    OBVIOUS
  <2> QED
    BY <2>2, <2>3, <2>4
<1>5. SubSeq(s, 1, 0) = <<>>
  OBVIOUS
<1>6. /\ SubSeq(s, 2, Len(s)) \in Seq(KeySet) /\ Len(SubSeq(s, 2, Len(s))) = Len(s) - 1
      /\ \A i \in 1..Len(s) - 1 : SubSeq(s, 2, Len(s))[i] = s[i + 1]
  BY <1>1
<1>7. <<>> \o SubSeq(s, 2, Len(s)) = SubSeq(s, 2, Len(s))
  BY <1>6
<1> QED
  BY <1>4, <1>5, <1>6, <1>7

(* CBExitGameLoop empties the lists of every hook but its own. *)
LEMMA TakenOutIs ==
  ASSUME CodeTypes, InOrder, hooks = HookNames, Unhooked = {},
         1 <= NF => "cb_game_command" \in callbacks,
         2 <= NF => "save_state" \in callbacks,
         1 <= NL => "cb_progress_update" \in callbacks
  PROVE  /\ TakenOut \in [HookNames -> Seq(KeySet)]
         /\ Len(TakenOut["frame"]) = 0 /\ Len(TakenOut["load"]) = 0
         /\ TakenOut["exit"] = registered["exit"]
         /\ Removed = callbacks \ {"gameloop_exit"}
<1> DEFINE f == registered["frame"]
           f1 == RemoveCallback(f, "cb_game_command")
           f2 == RemoveCallback(f1, "save_state")
           l == registered["load"]
           l1 == RemoveCallback(l, "cb_progress_update")
<1>1. \A k \in KeySet : Target[k] \in HookNames
  BY KeyFacts DEF KeySet, HookNames
<1>2. Removed = callbacks \ {"gameloop_exit"}
  BY <1>1 DEF Removed, CodeTypes
<1>3. \A k \in KeySet \ {"gameloop_exit"} : k \in Removed <=> Has(k)
  <2>1. \A k \in KeySet \ {"gameloop_exit"} : k \in Removed => Has(k)
    BY <1>1, <1>2, Registered DEF Unhooked, CodeTypes
  <2>2. \A k \in KeySet \ {"gameloop_exit"} : Has(k) => k \in callbacks
    BY HasLengths DEF KeySet
  <2> QED
    BY <1>2, <2>1, <2>2
<1>4. /\ "cb_game_command" \in Removed <=> 1 <= Len(f)
      /\ "save_state" \in Removed <=> 2 <= Len(f)
      /\ "cb_progress_update" \in Removed <=> 1 <= Len(l)
  BY <1>3, HasLengths DEF KeySet, NF, NL
<1>5. /\ f \in Seq(KeySet) /\ l \in Seq(KeySet)
      /\ Len(f) \in 0..2 /\ Len(l) \in 0..1
      /\ 1 <= Len(f) => f[1] = "cb_game_command"
      /\ 2 <= Len(f) => f[2] = "save_state"
      /\ 1 <= Len(l) => l[1] = "cb_progress_update"
  BY Elements DEF HookNames
<1>6. f2 \in Seq(KeySet) /\ Len(f2) = 0
  <2>1. CASE Len(f) = 0
    <3>1. f1 = f
      BY <2>1, <1>4 DEF RemoveCallback
    <3>2. f2 = f
      BY <2>1, <1>4, <3>1 DEF RemoveCallback
    <3> QED
      BY <2>1, <3>2, <1>5
  <2>2. CASE Len(f) = 1
    <3>1. f1 \in Seq(KeySet) /\ Len(f1) = Len(f) - 1
      <4>1. Len(f) >= 1 /\ f[1] = "cb_game_command" /\ "cb_game_command" \in Removed
        BY <2>2, <1>4, <1>5
      <4>2. \A i \in 2..Len(f) : f[i] # "cb_game_command"
        BY <2>2
      <4> HIDE DEF f
      <4> QED
        BY <4>1, <4>2, <1>5, RemoveFirstOf
    <3>2. f2 = f1
      BY <2>2, <1>4 DEF RemoveCallback
    <3> QED
      BY <2>2, <3>1, <3>2
  <2>3. CASE Len(f) = 2
    <3>1. f1 \in Seq(KeySet) /\ Len(f1) = 1 /\ f1[1] = "save_state"
      <4>1. Len(f) >= 1 /\ f[1] = "cb_game_command" /\ "cb_game_command" \in Removed
        BY <2>3, <1>4, <1>5
      <4>2. \A i \in 2..Len(f) : f[i] # "cb_game_command"
        BY <2>3, <1>5
      <4>3. /\ f1 \in Seq(KeySet) /\ Len(f1) = Len(f) - 1
            /\ \A i \in 1..Len(f) - 1 : f1[i] = f[i + 1]
        <5> HIDE DEF f
        <5> QED
          BY <4>1, <4>2, <1>5, RemoveFirstOf
      <4> HIDE DEF f, f1
      <4> QED
        BY <2>3, <4>3, <1>5
    <3> HIDE DEF f1
    <3>2. f2 \in Seq(KeySet) /\ Len(f2) = 0
      BY <2>3, <1>4, <3>1, RemoveFirstOf
    <3> QED
      BY <3>2
  <2> QED
    BY <1>5, <2>1, <2>2, <2>3
<1>7. l1 \in Seq(KeySet) /\ Len(l1) = 0
  <2>1. CASE Len(l) = 0
    BY <2>1, <1>4, <1>5 DEF RemoveCallback
  <2>2. CASE Len(l) = 1
    BY <2>2, <1>4, <1>5, RemoveFirstOf
  <2> QED
    BY <1>5, <2>1, <2>2
<1>8. TakenOut = [registered EXCEPT !["frame"] = f2, !["load"] = l1]
  BY DEF TakenOut
<1> HIDE DEF f2, l1
<1> QED
  BY <1>2, <1>6, <1>7, <1>8 DEF CodeTypes, HookNames
(* A callback has returned: the game thread goes on with the next one. *)
LEMMA Returned ==
  ASSUME PlaceTypes, Returns
  PROVE  gpc'.at = "next" /\ gpc'.h = gpc.h /\ gpc'.i = gpc.i + 1 /\ gpc' \in GameRecords
<1>1. gpc.i + 1 \in Nat /\ gpc.h \in HookNames \cup {"none"} /\ "next" \in GamePlaces
  BY DEF PlaceTypes, GameRecords, GamePlaces
<1>2. gpc' = [at |-> "next", h |-> gpc.h, i |-> gpc.i + 1]
  BY DEF PlaceTypes, GameRecords, Returns
<1> QED
  BY <1>1, <1>2 DEF GameRecords

(* CreateCallbacks goes on with the next key. *)
LEMMA Advanced ==
  ASSUME PlaceTypes, wpc.at = "add", wpc' = [wpc EXCEPT !.i = @ + 1]
  PROVE  wpc'.at = "add" /\ wpc'.cmd = wpc.cmd /\ wpc'.i = wpc.i + 1 /\ wpc' \in WorkerRecords
<1>1. wpc.i + 1 \in Nat /\ wpc.cmd \in CommandNames \cup {"none", "init"} /\ wpc.at \in WorkerPlaces
  BY DEF PlaceTypes, WorkerRecords
<1>2. wpc' = [at |-> wpc.at, cmd |-> wpc.cmd, i |-> wpc.i + 1]
  BY DEF PlaceTypes, WorkerRecords
<1> QED
  BY <1>1, <1>2 DEF WorkerRecords

(* Hook::call locks mu_ of the hook. *)
LEMMA EntersHookDoes ==
  ASSUME GInv, EntersHook
  PROVE  /\ ~suspended
         /\ died = "no"
         /\ gpc.at = "enter"
         /\ mutex[gpc.h] = "none"
         /\ gpc'.at = "next" /\ gpc'.h = gpc.h /\ gpc'.i = gpc.i
         /\ gpc' \in GameRecords
         /\ mutex' \in [Mutexes -> Holders]
         /\ \A m \in Mutexes : mutex'[m] = IF m = gpc.h THEN "game" ELSE mutex[m]
         /\ UNCHANGED <<hooks, registered, callbacks, wpc, suspended, ingame, frame, stage,
                     saved, single_step, game_paused, work, recorder, queue, record, ncmds, done, lost,
                     seen, died>>
<1>t. CodeTypes /\ PlaceTypes /\ StateTypes /\ WorkTypes /\ GamePlace
  BY DEF GInv, HTypes
<1> USE DEF codeVars, locks, stateVars, stepVars, histVars
<1>1. /\ gpc'.at = "next" /\ gpc'.h = gpc.h /\ gpc'.i = gpc.i
      /\ gpc' \in GameRecords
  BY <1>t DEF EntersHook, Takes, Running, PlaceTypes, GameRecords, GamePlaces, HookNames
<1>2. /\ mutex' \in [Mutexes -> Holders]
      /\ \A m \in Mutexes : mutex'[m] = IF m = gpc.h THEN "game" ELSE mutex[m]
  BY <1>t DEF EntersHook, Takes, Running, CodeTypes, Mutexes, Holders
<1>3. /\ ~suspended
      /\ died = "no"
      /\ gpc.at = "enter"
      /\ mutex[gpc.h] = "none"
      /\ UNCHANGED <<hooks, registered, callbacks, wpc, suspended, ingame, frame, stage,
                     saved, single_step, game_paused, work, recorder, queue, record, ncmds, done, lost,
                     seen, died>>
  BY <1>t DEF EntersHook, Takes, Running
<1> QED
  BY <1>1, <1>2, <1>3

(* Hook::call returns. *)
LEMMA LeavesHookDoes ==
  ASSUME GInv, LeavesHook
  PROVE  /\ ~suspended
         /\ died = "no"
         /\ gpc.at = "next"
         /\ gpc.i > Len(registered[gpc.h])
         /\ gpc'.at = "outside" /\ gpc'.h = "none" /\ gpc'.i = 0
         /\ gpc' \in GameRecords
         /\ mutex' \in [Mutexes -> Holders]
         /\ \A m \in Mutexes : mutex'[m] = IF m = gpc.h THEN "none" ELSE mutex[m]
         /\ UNCHANGED <<hooks, registered, callbacks, wpc, suspended, ingame, frame, stage,
                     saved, single_step, game_paused, work, recorder, queue, record, ncmds, done, lost,
                     seen, died>>
<1>t. CodeTypes /\ PlaceTypes /\ StateTypes /\ WorkTypes /\ GamePlace
  BY DEF GInv, HTypes
<1> USE DEF codeVars, locks, stateVars, stepVars, histVars
<1>1. /\ gpc'.at = "outside" /\ gpc'.h = "none" /\ gpc'.i = 0
      /\ gpc' \in GameRecords
  BY <1>t DEF LeavesHook, Frees, Outside, GAt, Running, PlaceTypes, GameRecords, GamePlaces,
     HookNames
<1>2. /\ mutex' \in [Mutexes -> Holders]
      /\ \A m \in Mutexes : mutex'[m] = IF m = gpc.h THEN "none" ELSE mutex[m]
  BY <1>t DEF LeavesHook, Frees, Outside, GAt, Running, CodeTypes, Mutexes, Holders
<1>3. /\ ~suspended
      /\ died = "no"
      /\ gpc.at = "next"
      /\ gpc.i > Len(registered[gpc.h])
      /\ UNCHANGED <<hooks, registered, callbacks, wpc, suspended, ingame, frame, stage,
                     saved, single_step, game_paused, work, recorder, queue, record, ncmds, done, lost,
                     seen, died>>
  BY <1>t DEF LeavesHook, Frees, Outside, GAt, Running
<1> QED
  BY <1>1, <1>2, <1>3

(* do_call locks the storage. *)
LEMMA CallsBackDoes ==
  ASSUME GInv, CallsBack
  PROVE  /\ ~suspended
         /\ died = "no"
         /\ gpc.at = "next"
         /\ gpc.i <= Len(registered[gpc.h])
         /\ mutex["storage"] = "none"
         /\ gpc'.at = registered[gpc.h][gpc.i] /\ gpc'.h = gpc.h /\ gpc'.i = gpc.i
         /\ gpc' \in GameRecords
         /\ mutex' \in [Mutexes -> Holders]
         /\ \A m \in Mutexes : mutex'[m] = IF m = "storage" THEN "game" ELSE mutex[m]
         /\ UNCHANGED <<hooks, registered, callbacks, wpc, suspended, ingame, frame, stage,
                     saved, single_step, game_paused, work, recorder, queue, record, ncmds, done, lost,
                     seen, died>>
<1>t. CodeTypes /\ PlaceTypes /\ StateTypes /\ WorkTypes /\ GamePlace
  BY DEF GInv, HTypes
<1> USE DEF codeVars, locks, stateVars, stepVars, histVars
<1>h. gpc.h \in HookNames /\ registered[gpc.h] \in Seq(KeySet) /\ gpc.i \in 1..Len(registered[gpc.h])
  BY <1>t DEF CallsBack, GamePlace, PlaceTypes, GameRecords, CodeTypes, NF, NL, NE, HookNames
<1>k. registered[gpc.h][gpc.i] \in GamePlaces
  BY <1>h DEF GamePlaces
<1>1. /\ gpc'.at = registered[gpc.h][gpc.i] /\ gpc'.h = gpc.h /\ gpc'.i = gpc.i
      /\ gpc' \in GameRecords
  BY <1>t, <1>k DEF CallsBack, Takes, Running, PlaceTypes, GameRecords
<1>2. /\ mutex' \in [Mutexes -> Holders]
      /\ \A m \in Mutexes : mutex'[m] = IF m = "storage" THEN "game" ELSE mutex[m]
  BY <1>t DEF CallsBack, Takes, Running, CodeTypes, Mutexes, Holders
<1>3. /\ ~suspended
      /\ died = "no"
      /\ gpc.at = "next"
      /\ gpc.i <= Len(registered[gpc.h])
      /\ mutex["storage"] = "none"
      /\ UNCHANGED <<hooks, registered, callbacks, wpc, suspended, ingame, frame, stage,
                     saved, single_step, game_paused, work, recorder, queue, record, ncmds, done, lost,
                     seen, died>>
  BY <1>t DEF CallsBack, Takes, Running
<1> QED
  BY <1>1, <1>2, <1>3

(* CBUpdateLoadProgress. *)
LEMMA UpdatesProgressDoes ==
  ASSUME GInv, UpdatesProgress
  PROVE  /\ ~suspended
         /\ died = "no"
         /\ gpc.at = "cb_progress_update"
         /\ gpc'.at = "next" /\ gpc'.h = gpc.h /\ gpc'.i = gpc.i + 1
         /\ gpc' \in GameRecords
         /\ mutex' \in [Mutexes -> Holders]
         /\ \A m \in Mutexes : mutex'[m] = IF m = "storage" THEN "none" ELSE mutex[m]
         /\ stage' = "loading"
         /\ UNCHANGED <<hooks, registered, callbacks, wpc, suspended, ingame, frame, saved,
                     single_step, game_paused, work, recorder, queue, record, ncmds, done, lost, seen,
                     died>>
<1>t. CodeTypes /\ PlaceTypes /\ StateTypes /\ WorkTypes /\ GamePlace
  BY DEF GInv, HTypes
<1> USE DEF codeVars, locks, stateVars, stepVars, histVars
<1>1. /\ gpc'.at = "next" /\ gpc'.h = gpc.h /\ gpc'.i = gpc.i + 1
      /\ gpc' \in GameRecords
  BY <1>t, Returned DEF UpdatesProgress, Running
<1>2. /\ mutex' \in [Mutexes -> Holders]
      /\ \A m \in Mutexes : mutex'[m] = IF m = "storage" THEN "none" ELSE mutex[m]
  BY <1>t DEF UpdatesProgress, Returns, Frees, Running, CodeTypes, Mutexes, Holders
<1>3. /\ ~suspended
      /\ died = "no"
      /\ gpc.at = "cb_progress_update"
      /\ stage' = "loading"
      /\ UNCHANGED <<hooks, registered, callbacks, wpc, suspended, ingame, frame, saved,
                     single_step, game_paused, work, recorder, queue, record, ncmds, done, lost, seen,
                     died>>
  BY <1>t DEF UpdatesProgress, Returns, Frees, Running
<1> QED
  BY <1>1, <1>2, <1>3

(* CBSaveState parses the state. *)
LEMMA ParsesStateDoes ==
  ASSUME GInv, ParsesState
  PROVE  /\ ~suspended
         /\ died = "no"
         /\ gpc.at = "save_state"
         /\ gpc'.at = "push" /\ gpc'.h = gpc.h /\ gpc'.i = gpc.i
         /\ gpc' \in GameRecords
         /\ saved' = frame
         /\ stage' = "ingame"
         /\ UNCHANGED <<hooks, registered, callbacks, mutex, wpc, suspended, ingame, frame,
                     single_step, game_paused, work, recorder, queue, record, ncmds, done, lost, seen,
                     died>>
<1>t. CodeTypes /\ PlaceTypes /\ StateTypes /\ WorkTypes /\ GamePlace
  BY DEF GInv, HTypes
<1> USE DEF codeVars, locks, stateVars, stepVars, histVars
<1>1. /\ gpc'.at = "push" /\ gpc'.h = gpc.h /\ gpc'.i = gpc.i
      /\ gpc' \in GameRecords
  BY <1>t DEF ParsesState, ParsedFrame, Running, PlaceTypes, GameRecords, GamePlaces, HookNames
<1>2. /\ ~suspended
      /\ died = "no"
      /\ gpc.at = "save_state"
      /\ saved' = frame
      /\ stage' = "ingame"
      /\ UNCHANGED <<hooks, registered, callbacks, mutex, wpc, suspended, ingame, frame,
                     single_step, game_paused, work, recorder, queue, record, ncmds, done, lost, seen,
                     died>>
  BY <1>t DEF ParsesState, ParsedFrame, Running
<1> QED
  BY <1>1, <1>2

(* CBSaveState pushes the state. *)
LEMMA PushesStateDoes ==
  ASSUME GInv, PushesState
  PROVE  /\ ~suspended
         /\ died = "no"
         /\ gpc.at = "push"
         /\ Len(queue) < RecorderSize
         /\ gpc'.at = "next" /\ gpc'.h = gpc.h /\ gpc'.i = gpc.i + 1
         /\ gpc' \in GameRecords
         /\ mutex' \in [Mutexes -> Holders]
         /\ \A m \in Mutexes : mutex'[m] = IF m = "storage" THEN "none" ELSE mutex[m]
         /\ queue' = Append(queue, saved)
         /\ UNCHANGED <<hooks, registered, callbacks, wpc, suspended, ingame, frame, stage,
                     saved, single_step, game_paused, work, recorder, record, ncmds, done, lost, seen,
                     died>>
<1>t. CodeTypes /\ PlaceTypes /\ StateTypes /\ WorkTypes /\ GamePlace
  BY DEF GInv, HTypes
<1> USE DEF codeVars, locks, stateVars, stepVars, histVars
<1>1. /\ gpc'.at = "next" /\ gpc'.h = gpc.h /\ gpc'.i = gpc.i + 1
      /\ gpc' \in GameRecords
  BY <1>t, Returned DEF PushesState, RecorderRoom, Running
<1>2. /\ mutex' \in [Mutexes -> Holders]
      /\ \A m \in Mutexes : mutex'[m] = IF m = "storage" THEN "none" ELSE mutex[m]
  BY <1>t DEF PushesState, RecorderRoom, Returns, Frees, Running, CodeTypes, Mutexes, Holders
<1>3. /\ ~suspended
      /\ died = "no"
      /\ gpc.at = "push"
      /\ Len(queue) < RecorderSize
      /\ queue' = Append(queue, saved)
      /\ UNCHANGED <<hooks, registered, callbacks, wpc, suspended, ingame, frame, stage,
                     saved, single_step, game_paused, work, recorder, record, ncmds, done, lost, seen,
                     died>>
  BY <1>t DEF PushesState, RecorderRoom, Returns, Frees, Running
<1> QED
  BY <1>1, <1>2, <1>3

(* CBGameCommand gives up the storage. *)
LEMMA UnlocksDoes ==
  ASSUME GInv, Unlocks
  PROVE  /\ ~suspended
         /\ died = "no"
         /\ gpc.at = "cb_game_command"
         /\ single_step
         /\ gpc'.at = "pause" /\ gpc'.h = gpc.h /\ gpc'.i = gpc.i
         /\ gpc' \in GameRecords
         /\ mutex' \in [Mutexes -> Holders]
         /\ \A m \in Mutexes : mutex'[m] = IF m = "storage" THEN "none" ELSE mutex[m]
         /\ UNCHANGED <<hooks, registered, callbacks, wpc, suspended, ingame, frame, stage,
                     saved, single_step, game_paused, work, recorder, queue, record, ncmds, done, lost,
                     seen, died>>
<1>t. CodeTypes /\ PlaceTypes /\ StateTypes /\ WorkTypes /\ GamePlace
  BY DEF GInv, HTypes
<1> USE DEF codeVars, locks, stateVars, stepVars, histVars
<1>1. /\ gpc'.at = "pause" /\ gpc'.h = gpc.h /\ gpc'.i = gpc.i
      /\ gpc' \in GameRecords
  BY <1>t DEF Unlocks, StorageGivenUp, Running, PlaceTypes, GameRecords, GamePlaces, HookNames
<1>2. /\ mutex' \in [Mutexes -> Holders]
      /\ \A m \in Mutexes : mutex'[m] = IF m = "storage" THEN "none" ELSE mutex[m]
  BY <1>t DEF Unlocks, StorageGivenUp, Running, CodeTypes, Mutexes, Holders
<1>3. /\ ~suspended
      /\ died = "no"
      /\ gpc.at = "cb_game_command"
      /\ single_step
      /\ UNCHANGED <<hooks, registered, callbacks, wpc, suspended, ingame, frame, stage,
                     saved, single_step, game_paused, work, recorder, queue, record, ncmds, done, lost,
                     seen, died>>
  BY <1>t DEF Unlocks, StorageGivenUp, Running
<1> QED
  BY <1>1, <1>2, <1>3

(* CBGameCommand announces the pause. *)
LEMMA PausesDoes ==
  ASSUME GInv, Pauses
  PROVE  /\ ~suspended
         /\ died = "no"
         /\ gpc.at = "pause"
         /\ gpc'.at = "wait" /\ gpc'.h = gpc.h /\ gpc'.i = gpc.i
         /\ gpc' \in GameRecords
         /\ game_paused' = TRUE
         /\ UNCHANGED <<hooks, registered, callbacks, mutex, wpc, suspended, ingame, frame,
                     stage, saved, single_step, work, recorder, queue, record, ncmds, done, lost, seen,
                     died>>
<1>t. CodeTypes /\ PlaceTypes /\ StateTypes /\ WorkTypes /\ GamePlace
  BY DEF GInv, HTypes
<1> USE DEF codeVars, locks, stateVars, stepVars, histVars
<1>1. /\ gpc'.at = "wait" /\ gpc'.h = gpc.h /\ gpc'.i = gpc.i
      /\ gpc' \in GameRecords
  BY <1>t DEF Pauses, PauseAnnounced, Running, PlaceTypes, GameRecords, GamePlaces, HookNames
<1>2. /\ ~suspended
      /\ died = "no"
      /\ gpc.at = "pause"
      /\ game_paused' = TRUE
      /\ UNCHANGED <<hooks, registered, callbacks, mutex, wpc, suspended, ingame, frame,
                     stage, saved, single_step, work, recorder, queue, record, ncmds, done, lost, seen,
                     died>>
  BY <1>t DEF Pauses, PauseAnnounced, Running
<1> QED
  BY <1>1, <1>2

(* CBGameCommand goes on. *)
LEMMA ResumesDoes ==
  ASSUME GInv, Resumes
  PROVE  /\ ~suspended
         /\ died = "no"
         /\ gpc.at = "wait"
         /\ ~game_paused
         /\ mutex["storage"] = "none"
         /\ gpc'.at = "work" /\ gpc'.h = gpc.h /\ gpc'.i = gpc.i
         /\ gpc' \in GameRecords
         /\ mutex' \in [Mutexes -> Holders]
         /\ \A m \in Mutexes : mutex'[m] = IF m = "storage" THEN "game" ELSE mutex[m]
         /\ UNCHANGED <<hooks, registered, callbacks, wpc, suspended, ingame, frame, stage,
                     saved, single_step, game_paused, work, recorder, queue, record, ncmds, done, lost,
                     seen, died>>
<1>t. CodeTypes /\ PlaceTypes /\ StateTypes /\ WorkTypes /\ GamePlace
  BY DEF GInv, HTypes
<1> USE DEF codeVars, locks, stateVars, stepVars, histVars
<1>1. /\ gpc'.at = "work" /\ gpc'.h = gpc.h /\ gpc'.i = gpc.i
      /\ gpc' \in GameRecords
  BY <1>t DEF Resumes, Takes, Running, PlaceTypes, GameRecords, GamePlaces, HookNames
<1>2. /\ mutex' \in [Mutexes -> Holders]
      /\ \A m \in Mutexes : mutex'[m] = IF m = "storage" THEN "game" ELSE mutex[m]
  BY <1>t DEF Resumes, Takes, Running, CodeTypes, Mutexes, Holders
<1>3. /\ ~suspended
      /\ died = "no"
      /\ gpc.at = "wait"
      /\ ~game_paused
      /\ mutex["storage"] = "none"
      /\ UNCHANGED <<hooks, registered, callbacks, wpc, suspended, ingame, frame, stage,
                     saved, single_step, game_paused, work, recorder, queue, record, ncmds, done, lost,
                     seen, died>>
  BY <1>t DEF Resumes, Takes, Running
<1> QED
  BY <1>1, <1>2, <1>3

(* CBGameCommand runs the deferred work. *)
LEMMA RunsWorkDoes ==
  ASSUME GInv, RunsWork
  PROVE  /\ ~suspended
         /\ died = "no"
         /\ gpc.at = "work" \/ (gpc.at = "cb_game_command" /\ ~single_step)
         /\ gpc'.at = "next" /\ gpc'.h = gpc.h /\ gpc'.i = gpc.i + 1
         /\ gpc' \in GameRecords
         /\ mutex' \in [Mutexes -> Holders]
         /\ \A m \in Mutexes : mutex'[m] = IF m = "storage" THEN "none" ELSE mutex[m]
         /\ done' = done \o work
         /\ work' = <<>>
         /\ UNCHANGED <<hooks, registered, callbacks, wpc, suspended, ingame, frame, stage,
                     saved, single_step, game_paused, recorder, queue, record, ncmds, lost, seen, died>>
<1>t. CodeTypes /\ PlaceTypes /\ StateTypes /\ WorkTypes /\ GamePlace
  BY DEF GInv, HTypes
<1> USE DEF codeVars, locks, stateVars, stepVars, histVars
<1>1. /\ gpc'.at = "next" /\ gpc'.h = gpc.h /\ gpc'.i = gpc.i + 1
      /\ gpc' \in GameRecords
  BY <1>t, Returned DEF RunsWork, RunsItems, WorkLeft, Running
<1>2. /\ mutex' \in [Mutexes -> Holders]
      /\ \A m \in Mutexes : mutex'[m] = IF m = "storage" THEN "none" ELSE mutex[m]
  BY <1>t DEF RunsWork, RunsItems, WorkLeft, Returns, Frees, Running, CodeTypes, Mutexes, Holders
<1>3. /\ ~suspended
      /\ died = "no"
      /\ gpc.at = "work" \/ (gpc.at = "cb_game_command" /\ ~single_step)
      /\ done' = done \o work
      /\ work' = <<>>
      /\ UNCHANGED <<hooks, registered, callbacks, wpc, suspended, ingame, frame, stage,
                     saved, single_step, game_paused, recorder, queue, record, ncmds, lost, seen, died>>
  BY <1>t DEF RunsWork, RunsItems, WorkLeft, Returns, Frees, Running
<1> QED
  BY <1>1, <1>2, <1>3

(* CBExitGameLoop removes the other callbacks. *)
LEMMA ExitsGameDoes ==
  ASSUME GInv, ExitsGame
  PROVE  /\ ~suspended
         /\ died = "no"
         /\ gpc.at = "gameloop_exit"
         /\ gpc'.at = "next" /\ gpc'.h = gpc.h /\ gpc'.i = gpc.i + 1
         /\ gpc' \in GameRecords
         /\ mutex' \in [Mutexes -> Holders]
         /\ \A m \in Mutexes : mutex'[m] = IF m = "storage" THEN "none" ELSE mutex[m]
         /\ stage' = "exit"
         /\ \/ died' = "remove_callback" /\ Unhooked # {}
               /\ UNCHANGED <<registered, callbacks, lost, work, recorder, queue>>
            \/ /\ died' = died /\ Unhooked = {}
               /\ registered' = TakenOut /\ callbacks' = callbacks \ Removed
               /\ lost' = lost \cup ToSet(work) /\ work' = <<>>
               /\ recorder => queue = <<>>
               /\ queue' = <<>> /\ recorder' = FALSE
         /\ UNCHANGED <<hooks, wpc, suspended, ingame, frame, saved, record, single_step,
                     game_paused, ncmds, done, seen>>
<1>t. CodeTypes /\ PlaceTypes /\ StateTypes /\ WorkTypes /\ GamePlace
  BY DEF GInv, HTypes
<1> USE DEF codeVars, locks, stateVars, stepVars, histVars
<1>1. /\ gpc'.at = "next" /\ gpc'.h = gpc.h /\ gpc'.i = gpc.i + 1
      /\ gpc' \in GameRecords
  BY <1>t, Returned DEF ExitsGame, RecorderRoom, Running
<1>2. /\ mutex' \in [Mutexes -> Holders]
      /\ \A m \in Mutexes : mutex'[m] = IF m = "storage" THEN "none" ELSE mutex[m]
  BY <1>t DEF ExitsGame, RecorderRoom, Returns, Frees, Running, CodeTypes, Mutexes, Holders
<1>3. /\ ~suspended
      /\ died = "no"
      /\ gpc.at = "gameloop_exit"
      /\ stage' = "exit"
      /\ \/ died' = "remove_callback" /\ Unhooked # {}
            /\ UNCHANGED <<registered, callbacks, lost, work, recorder, queue>>
         \/ /\ died' = died /\ Unhooked = {}
            /\ registered' = TakenOut /\ callbacks' = callbacks \ Removed
            /\ lost' = lost \cup ToSet(work) /\ work' = <<>>
            /\ recorder => queue = <<>>
            /\ queue' = <<>> /\ recorder' = FALSE
      /\ UNCHANGED <<hooks, wpc, suspended, ingame, frame, saved, record, single_step,
                     game_paused, ncmds, done, seen>>
  BY <1>t DEF ExitsGame, RecorderJoined, RecorderRoom, Returns, Frees, Running
<1> QED
  BY <1>1, <1>2, <1>3

(* CreateHooks suspends the threads. *)
LEMMA SuspendsThreadsDoes ==
  ASSUME GInv, SuspendsThreads
  PROVE  /\ died = "no"
         /\ wpc.at = "hooks"
         /\ wpc'.at = "create" /\ wpc'.cmd = wpc.cmd /\ wpc'.i = wpc.i
         /\ wpc' \in WorkerRecords
         /\ suspended' = TRUE
         /\ UNCHANGED <<hooks, registered, callbacks, mutex, gpc, ingame, frame, stage, saved,
                     single_step, game_paused, work, recorder, queue, record, ncmds, done, lost, seen,
                     died>>
<1>t. CodeTypes /\ PlaceTypes /\ StateTypes /\ WorkTypes /\ GamePlace
  BY DEF GInv, HTypes
<1> USE DEF codeVars, locks, stateVars, stepVars, histVars
<1>1. /\ wpc'.at = "create" /\ wpc'.cmd = wpc.cmd /\ wpc'.i = wpc.i
      /\ wpc' \in WorkerRecords
  BY <1>t DEF SuspendsThreads, PlaceTypes, StateTypes, WorkerRecords, WorkerPlaces, CommandNames
<1>2. /\ died = "no"
      /\ wpc.at = "hooks"
      /\ suspended' = TRUE
      /\ UNCHANGED <<hooks, registered, callbacks, mutex, gpc, ingame, frame, stage, saved,
                     single_step, game_paused, work, recorder, queue, record, ncmds, done, lost, seen,
                     died>>
  BY <1>t DEF SuspendsThreads
<1> QED
  BY <1>1, <1>2

(* CreateHooks makes the hooks, or throws. *)
LEMMA CreatesHooksDoes ==
  ASSUME GInv, CreatesHooks
  PROVE  /\ died = "no"
         /\ wpc.at = "create"
         /\ wpc' \in WorkerRecords
         /\ \/ hooks # {} /\ UNCHANGED <<hooks, suspended>>
            \/ hooks = {} /\ hooks' = HookNames /\ suspended' = FALSE
         /\ wpc.cmd = "init" => wpc'.at = "callbacks" /\ wpc'.cmd = "init" /\ wpc'.i = 1
         /\ wpc.cmd # "init" => wpc'.at = "rest" /\ wpc'.cmd = "none" /\ wpc'.i = 0
         /\ UNCHANGED <<registered, callbacks, mutex, gpc, ingame, frame, stage, saved,
                     single_step, game_paused, work, recorder, queue, record, ncmds, done, lost, seen,
                     died>>
<1>t. CodeTypes /\ PlaceTypes /\ StateTypes /\ WorkTypes /\ GamePlace
  BY DEF GInv, HTypes
<1> USE DEF codeVars, locks, stateVars, stepVars, histVars
<1>1. /\ wpc' \in WorkerRecords
      /\ wpc.cmd = "init" => wpc'.at = "callbacks" /\ wpc'.cmd = "init" /\ wpc'.i = 1
      /\ wpc.cmd # "init" => wpc'.at = "rest" /\ wpc'.cmd = "none" /\ wpc'.i = 0
  BY <1>t DEF CreatesHooks, SuspendedAfter, WAt, Resting, PlaceTypes, StateTypes,
     WorkerRecords, WorkerPlaces, CommandNames
<1>2. /\ died = "no"
      /\ wpc.at = "create"
      /\ \/ hooks # {} /\ UNCHANGED <<hooks, suspended>>
         \/ hooks = {} /\ hooks' = HookNames /\ suspended' = FALSE
      /\ UNCHANGED <<registered, callbacks, mutex, gpc, ingame, frame, stage, saved,
                     single_step, game_paused, work, recorder, queue, record, ncmds, done, lost, seen,
                     died>>
  BY <1>t DEF CreatesHooks, SuspendedAfter, WAt, Resting
<1> QED
  BY <1>1, <1>2

(* CreateCallbacks makes the missing objects. *)
LEMMA InitCallbacksDoes ==
  ASSUME GInv, InitCallbacks
  PROVE  /\ died = "no"
         /\ wpc.at = "callbacks"
         /\ mutex["storage"] = "none"
         /\ wpc'.at = "lock_hooks" /\ wpc'.cmd = wpc.cmd /\ wpc'.i = wpc.i
         /\ wpc' \in WorkerRecords
         /\ mutex' \in [Mutexes -> Holders]
         /\ \A m \in Mutexes : mutex'[m] = IF m = "storage" THEN "worker" ELSE mutex[m]
         /\ callbacks' = KeySet
         /\ record' = <<>>
         /\ recorder' = (recorder \/ "save_state" \notin callbacks)
         /\ UNCHANGED <<hooks, registered, gpc, suspended, ingame, frame, stage, saved,
                     single_step, game_paused, work, queue, ncmds, done, lost, seen, died>>
<1>t. CodeTypes /\ PlaceTypes /\ StateTypes /\ WorkTypes /\ GamePlace
  BY DEF GInv, HTypes
<1> USE DEF codeVars, locks, stateVars, stepVars, histVars
<1>1. /\ wpc'.at = "lock_hooks" /\ wpc'.cmd = wpc.cmd /\ wpc'.i = wpc.i
      /\ wpc' \in WorkerRecords
  BY <1>t DEF InitCallbacks, Takes, PlaceTypes, StateTypes, WorkerRecords, WorkerPlaces,
     CommandNames
<1>2. /\ mutex' \in [Mutexes -> Holders]
      /\ \A m \in Mutexes : mutex'[m] = IF m = "storage" THEN "worker" ELSE mutex[m]
  BY <1>t DEF InitCallbacks, Takes, CodeTypes, Mutexes, Holders
<1>3. /\ died = "no"
      /\ wpc.at = "callbacks"
      /\ mutex["storage"] = "none"
      /\ callbacks' = KeySet
      /\ record' = <<>>
      /\ recorder' = (recorder \/ "save_state" \notin callbacks)
      /\ UNCHANGED <<hooks, registered, gpc, suspended, ingame, frame, stage, saved,
                     single_step, game_paused, work, queue, ncmds, done, lost, seen, died>>
  BY <1>t, KeySetIs DEF InitCallbacks, Takes
<1> QED
  BY <1>1, <1>2, <1>3

(* CreateCallbacks locks the hooks. *)
LEMMA LocksHooksDoes ==
  ASSUME GInv, LocksHooks
  PROVE  /\ died = "no"
         /\ wpc.at = "lock_hooks"
         /\ mutex["hooks"] = "none"
         /\ wpc'.at = "add" /\ wpc'.cmd = wpc.cmd /\ wpc'.i = wpc.i
         /\ wpc' \in WorkerRecords
         /\ mutex' \in [Mutexes -> Holders]
         /\ \A m \in Mutexes : mutex'[m] = IF m = "hooks" THEN "worker" ELSE mutex[m]
         /\ UNCHANGED <<hooks, registered, callbacks, gpc, suspended, ingame, frame, stage,
                     saved, single_step, game_paused, work, recorder, queue, record, ncmds, done, lost,
                     seen, died>>
<1>t. CodeTypes /\ PlaceTypes /\ StateTypes /\ WorkTypes /\ GamePlace
  BY DEF GInv, HTypes
<1> USE DEF codeVars, locks, stateVars, stepVars, histVars
<1>1. /\ wpc'.at = "add" /\ wpc'.cmd = wpc.cmd /\ wpc'.i = wpc.i
      /\ wpc' \in WorkerRecords
  BY <1>t DEF LocksHooks, Takes, PlaceTypes, StateTypes, WorkerRecords, WorkerPlaces, CommandNames
<1>2. /\ mutex' \in [Mutexes -> Holders]
      /\ \A m \in Mutexes : mutex'[m] = IF m = "hooks" THEN "worker" ELSE mutex[m]
  BY <1>t DEF LocksHooks, Takes, CodeTypes, Mutexes, Holders
<1>3. /\ died = "no"
      /\ wpc.at = "lock_hooks"
      /\ mutex["hooks"] = "none"
      /\ UNCHANGED <<hooks, registered, callbacks, gpc, suspended, ingame, frame, stage,
                     saved, single_step, game_paused, work, recorder, queue, record, ncmds, done, lost,
                     seen, died>>
  BY <1>t DEF LocksHooks, Takes
<1> QED
  BY <1>1, <1>2, <1>3

(* CreateCallbacks ends. *)
LEMMA EndsAddingDoes ==
  ASSUME GInv, EndsAdding
  PROVE  /\ died = "no"
         /\ wpc.at = "add"
         /\ ~MayAdd
         /\ wpc'.at = "rest" /\ wpc'.cmd = "none" /\ wpc'.i = 0
         /\ gpc' \in GameRecords
         /\ wpc' \in WorkerRecords
         /\ mutex' \in [Mutexes -> Holders]
         /\ \A m \in Mutexes : mutex'[m] = IF m = "storage" THEN "none" ELSE IF m = "hooks" THEN "none" ELSE mutex[m]
         /\ wpc.cmd = "init" => gpc'.at = "outside" /\ gpc'.h = "none" /\ gpc'.i = 0
         /\ wpc.cmd # "init" => gpc' = gpc
         /\ UNCHANGED <<hooks, registered, callbacks, suspended, ingame, frame, stage, saved,
                     single_step, game_paused, work, recorder, queue, record, ncmds, done, lost, seen,
                     died>>
<1>t. CodeTypes /\ PlaceTypes /\ StateTypes /\ WorkTypes /\ GamePlace
  BY DEF GInv, HTypes
<1> USE DEF codeVars, locks, stateVars, stepVars, histVars
<1>1. /\ gpc' \in GameRecords
      /\ wpc.cmd = "init" => gpc'.at = "outside" /\ gpc'.h = "none" /\ gpc'.i = 0
      /\ wpc.cmd # "init" => gpc' = gpc
  BY <1>t DEF EndsAdding, Outside, GAt, Resting, WAt, PlaceTypes, GameRecords, GamePlaces, HookNames
<1>2. /\ wpc'.at = "rest" /\ wpc'.cmd = "none" /\ wpc'.i = 0
      /\ wpc' \in WorkerRecords
  BY <1>t DEF EndsAdding, Outside, GAt, Resting, WAt, PlaceTypes, StateTypes, WorkerRecords,
     WorkerPlaces, CommandNames
<1>3. /\ mutex' \in [Mutexes -> Holders]
      /\ \A m \in Mutexes : mutex'[m] = IF m = "storage" THEN "none" ELSE IF m = "hooks" THEN "none" ELSE mutex[m]
  BY <1>t DEF EndsAdding, Outside, GAt, Resting, WAt, CodeTypes, Mutexes, Holders
<1>4. /\ died = "no"
      /\ wpc.at = "add"
      /\ ~MayAdd
      /\ UNCHANGED <<hooks, registered, callbacks, suspended, ingame, frame, stage, saved,
                     single_step, game_paused, work, recorder, queue, record, ncmds, done, lost, seen,
                     died>>
  BY <1>t DEF EndsAdding, Outside, GAt, Resting, WAt
<1> QED
  BY <1>1, <1>2, <1>3, <1>4

(* CreateCallbacks adds one callback. *)
LEMMA AddsCallbackDoes ==
  ASSUME GInv, AddsCallback
  PROVE  /\ died = "no"
         /\ wpc.at = "add"
         /\ MayAdd
         /\ mutex[Target[Adding]] = "none"
         /\ wpc'.at = "add" /\ wpc'.cmd = wpc.cmd /\ wpc'.i = wpc.i + 1
         /\ wpc' \in WorkerRecords
         /\ registered' = [registered EXCEPT ![Target[Adding]] = Append(@, Adding)]
         /\ UNCHANGED <<hooks, callbacks, mutex, gpc, suspended, ingame, frame, stage, saved,
                     single_step, game_paused, work, recorder, queue, record, ncmds, done, lost, seen,
                     died>>
<1>t. CodeTypes /\ PlaceTypes /\ StateTypes /\ WorkTypes /\ GamePlace
  BY DEF GInv, HTypes
<1> USE DEF codeVars, locks, stateVars, stepVars, histVars
<1>1. /\ wpc'.at = "add" /\ wpc'.cmd = wpc.cmd /\ wpc'.i = wpc.i + 1
      /\ wpc' \in WorkerRecords
  BY <1>t, Advanced DEF AddsCallback
<1>2. /\ died = "no"
      /\ wpc.at = "add"
      /\ MayAdd
      /\ mutex[Target[Adding]] = "none"
      /\ registered' = [registered EXCEPT ![Target[Adding]] = Append(@, Adding)]
      /\ UNCHANGED <<hooks, callbacks, mutex, gpc, suspended, ingame, frame, stage, saved,
                     single_step, game_paused, work, recorder, queue, record, ncmds, done, lost, seen,
                     died>>
  BY <1>t DEF AddsCallback
<1> QED
  BY <1>1, <1>2

(* InspectConfiguration. *)
LEMMA ConfiguresDoes ==
  ASSUME GInv, Configures
  PROVE  /\ died = "no"
         /\ wpc.at = "config"
         /\ wpc'.at = "rest" /\ wpc'.cmd = "none" /\ wpc'.i = 0
         /\ wpc' \in WorkerRecords
         /\ single_step' = TRUE
         /\ UNCHANGED <<hooks, registered, callbacks, mutex, gpc, suspended, ingame, frame,
                     stage, saved, game_paused, work, recorder, queue, record, ncmds, done, lost, seen,
                     died>>
<1>t. CodeTypes /\ PlaceTypes /\ StateTypes /\ WorkTypes /\ GamePlace
  BY DEF GInv, HTypes
<1> USE DEF codeVars, locks, stateVars, stepVars, histVars
<1>1. /\ wpc'.at = "rest" /\ wpc'.cmd = "none" /\ wpc'.i = 0
      /\ wpc' \in WorkerRecords
  BY <1>t DEF Configures, Resting, WAt, PlaceTypes, StateTypes, WorkerRecords, WorkerPlaces,
     CommandNames
<1>2. /\ died = "no"
      /\ wpc.at = "config"
      /\ single_step' = TRUE
      /\ UNCHANGED <<hooks, registered, callbacks, mutex, gpc, suspended, ingame, frame,
                     stage, saved, game_paused, work, recorder, queue, record, ncmds, done, lost, seen,
                     died>>
  BY <1>t DEF Configures, Resting, WAt
<1> QED
  BY <1>1, <1>2

(* GetGameState locks the storage. *)
LEMMA LocksStateDoes ==
  ASSUME GInv, LocksState
  PROVE  /\ died = "no"
         /\ wpc.at = "state"
         /\ mutex["storage"] = "none"
         /\ wpc'.at = (IF single_step /\ game_paused THEN "yield" ELSE "copy") /\ wpc'.cmd = wpc.cmd /\ wpc'.i = wpc.i
         /\ wpc' \in WorkerRecords
         /\ mutex' \in [Mutexes -> Holders]
         /\ \A m \in Mutexes : mutex'[m] = IF m = "storage" THEN "worker" ELSE mutex[m]
         /\ UNCHANGED <<hooks, registered, callbacks, gpc, suspended, ingame, frame, stage,
                     saved, single_step, game_paused, work, recorder, queue, record, ncmds, done, lost,
                     seen, died>>
<1>t. CodeTypes /\ PlaceTypes /\ StateTypes /\ WorkTypes /\ GamePlace
  BY DEF GInv, HTypes
<1> USE DEF codeVars, locks, stateVars, stepVars, histVars
<1>1. /\ wpc'.at = (IF single_step /\ game_paused THEN "yield" ELSE "copy") /\ wpc'.cmd = wpc.cmd /\ wpc'.i = wpc.i
      /\ wpc' \in WorkerRecords
  BY <1>t DEF LocksState, Takes, PlaceTypes, StateTypes, WorkerRecords, WorkerPlaces, CommandNames
<1>2. /\ mutex' \in [Mutexes -> Holders]
      /\ \A m \in Mutexes : mutex'[m] = IF m = "storage" THEN "worker" ELSE mutex[m]
  BY <1>t DEF LocksState, Takes, CodeTypes, Mutexes, Holders
<1>3. /\ died = "no"
      /\ wpc.at = "state"
      /\ mutex["storage"] = "none"
      /\ UNCHANGED <<hooks, registered, callbacks, gpc, suspended, ingame, frame, stage,
                     saved, single_step, game_paused, work, recorder, queue, record, ncmds, done, lost,
                     seen, died>>
  BY <1>t DEF LocksState, Takes
<1> QED
  BY <1>1, <1>2, <1>3

(* GetGameState gives it up. *)
LEMMA YieldsStateDoes ==
  ASSUME GInv, YieldsState
  PROVE  /\ died = "no"
         /\ wpc.at = "yield"
         /\ wpc'.at = "regain" /\ wpc'.cmd = wpc.cmd /\ wpc'.i = wpc.i
         /\ wpc' \in WorkerRecords
         /\ mutex' \in [Mutexes -> Holders]
         /\ \A m \in Mutexes : mutex'[m] = IF m = "storage" THEN "none" ELSE mutex[m]
         /\ UNCHANGED <<hooks, registered, callbacks, gpc, suspended, ingame, frame, stage,
                     saved, single_step, game_paused, work, recorder, queue, record, ncmds, done, lost,
                     seen, died>>
<1>t. CodeTypes /\ PlaceTypes /\ StateTypes /\ WorkTypes /\ GamePlace
  BY DEF GInv, HTypes
<1> USE DEF codeVars, locks, stateVars, stepVars, histVars
<1>1. /\ wpc'.at = "regain" /\ wpc'.cmd = wpc.cmd /\ wpc'.i = wpc.i
      /\ wpc' \in WorkerRecords
  BY <1>t DEF YieldsState, Frees, PlaceTypes, StateTypes, WorkerRecords, WorkerPlaces, CommandNames
<1>2. /\ mutex' \in [Mutexes -> Holders]
      /\ \A m \in Mutexes : mutex'[m] = IF m = "storage" THEN "none" ELSE mutex[m]
  BY <1>t DEF YieldsState, Frees, CodeTypes, Mutexes, Holders
<1>3. /\ died = "no"
      /\ wpc.at = "yield"
      /\ UNCHANGED <<hooks, registered, callbacks, gpc, suspended, ingame, frame, stage,
                     saved, single_step, game_paused, work, recorder, queue, record, ncmds, done, lost,
                     seen, died>>
  BY <1>t DEF YieldsState, Frees
<1> QED
  BY <1>1, <1>2, <1>3

(* GetGameState has waited for the pause. *)
LEMMA RegainsStateDoes ==
  ASSUME GInv, RegainsState
  PROVE  /\ died = "no"
         /\ wpc.at = "regain"
         /\ mutex["storage"] = "none"
         /\ wpc'.at = "copy" /\ wpc'.cmd = wpc.cmd /\ wpc'.i = wpc.i
         /\ wpc' \in WorkerRecords
         /\ mutex' \in [Mutexes -> Holders]
         /\ \A m \in Mutexes : mutex'[m] = IF m = "storage" THEN "worker" ELSE mutex[m]
         /\ UNCHANGED <<hooks, registered, callbacks, gpc, suspended, ingame, frame, stage,
                     saved, single_step, game_paused, work, recorder, queue, record, ncmds, done, lost,
                     seen, died>>
<1>t. CodeTypes /\ PlaceTypes /\ StateTypes /\ WorkTypes /\ GamePlace
  BY DEF GInv, HTypes
<1> USE DEF codeVars, locks, stateVars, stepVars, histVars
<1>1. /\ wpc'.at = "copy" /\ wpc'.cmd = wpc.cmd /\ wpc'.i = wpc.i
      /\ wpc' \in WorkerRecords
  BY <1>t DEF RegainsState, Takes, PlaceTypes, StateTypes, WorkerRecords, WorkerPlaces, CommandNames
<1>2. /\ mutex' \in [Mutexes -> Holders]
      /\ \A m \in Mutexes : mutex'[m] = IF m = "storage" THEN "worker" ELSE mutex[m]
  BY <1>t DEF RegainsState, Takes, CodeTypes, Mutexes, Holders
<1>3. /\ died = "no"
      /\ wpc.at = "regain"
      /\ mutex["storage"] = "none"
      /\ UNCHANGED <<hooks, registered, callbacks, gpc, suspended, ingame, frame, stage,
                     saved, single_step, game_paused, work, recorder, queue, record, ncmds, done, lost,
                     seen, died>>
  BY <1>t DEF RegainsState, Takes
<1> QED
  BY <1>1, <1>2, <1>3

(* GetGameState copies the state. *)
LEMMA CopiesStateDoes ==
  ASSUME GInv, CopiesState
  PROVE  /\ died = "no"
         /\ wpc.at = "copy"
         /\ wpc'.at = "release" /\ wpc'.cmd = "state" /\ wpc'.i = saved
         /\ wpc' \in WorkerRecords
         /\ UNCHANGED <<hooks, registered, callbacks, mutex, gpc, suspended, ingame, frame,
                     stage, saved, single_step, game_paused, work, recorder, queue, record, ncmds, done,
                     lost, seen, died>>
<1>t. CodeTypes /\ PlaceTypes /\ StateTypes /\ WorkTypes /\ GamePlace
  BY DEF GInv, HTypes
<1> USE DEF codeVars, locks, stateVars, stepVars, histVars
<1>1. /\ wpc'.at = "release" /\ wpc'.cmd = "state" /\ wpc'.i = saved
      /\ wpc' \in WorkerRecords
  BY <1>t DEF CopiesState, WAt, PlaceTypes, StateTypes, WorkerRecords, WorkerPlaces, CommandNames
<1>2. /\ died = "no"
      /\ wpc.at = "copy"
      /\ UNCHANGED <<hooks, registered, callbacks, mutex, gpc, suspended, ingame, frame,
                     stage, saved, single_step, game_paused, work, recorder, queue, record, ncmds, done,
                     lost, seen, died>>
  BY <1>t DEF CopiesState, WAt
<1> QED
  BY <1>1, <1>2

(* GetGameState lets the game go on. *)
LEMMA ReleasesGameDoes ==
  ASSUME GInv, ReleasesGame
  PROVE  /\ died = "no"
         /\ wpc.at = "release"
         /\ wpc'.at = "rest" /\ wpc'.cmd = "none" /\ wpc'.i = 0
         /\ wpc' \in WorkerRecords
         /\ mutex' \in [Mutexes -> Holders]
         /\ \A m \in Mutexes : mutex'[m] = IF m = "storage" THEN "none" ELSE mutex[m]
         /\ single_step => game_paused' = FALSE /\ seen' = wpc.i
         /\ ~single_step => game_paused' = game_paused /\ seen' = seen
         /\ UNCHANGED <<hooks, registered, callbacks, gpc, suspended, ingame, frame, stage,
                     saved, single_step, work, recorder, queue, record, ncmds, done, lost, died>>
<1>t. CodeTypes /\ PlaceTypes /\ StateTypes /\ WorkTypes /\ GamePlace
  BY DEF GInv, HTypes
<1> USE DEF codeVars, locks, stateVars, stepVars, histVars
<1>1. /\ wpc'.at = "rest" /\ wpc'.cmd = "none" /\ wpc'.i = 0
      /\ wpc' \in WorkerRecords
  BY <1>t DEF ReleasesGame, Frees, Resting, WAt, PlaceTypes, StateTypes, WorkerRecords,
     WorkerPlaces, CommandNames
<1>2. /\ mutex' \in [Mutexes -> Holders]
      /\ \A m \in Mutexes : mutex'[m] = IF m = "storage" THEN "none" ELSE mutex[m]
  BY <1>t DEF ReleasesGame, Frees, Resting, WAt, CodeTypes, Mutexes, Holders
<1>3. /\ died = "no"
      /\ wpc.at = "release"
      /\ single_step => game_paused' = FALSE /\ seen' = wpc.i
      /\ ~single_step => game_paused' = game_paused /\ seen' = seen
      /\ UNCHANGED <<hooks, registered, callbacks, gpc, suspended, ingame, frame, stage,
                     saved, single_step, work, recorder, queue, record, ncmds, done, lost, died>>
  BY <1>t DEF ReleasesGame, Frees, Resting, WAt
<1> QED
  BY <1>1, <1>2, <1>3

(* get_gameloop_command finds the callback. *)
LEMMA LooksUpCallbackDoes ==
  ASSUME GInv, LooksUpCallback
  PROVE  /\ died = "no"
         /\ wpc.at = "defer"
         /\ wpc' \in WorkerRecords
         /\ "cb_game_command" \in callbacks => wpc'.at = "put" /\ wpc'.cmd = wpc.cmd /\ wpc'.i = wpc.i
         /\ "cb_game_command" \notin callbacks => wpc'.at = "rest" /\ wpc'.cmd = "none" /\ wpc'.i = 0
         /\ UNCHANGED <<hooks, registered, callbacks, mutex, gpc, suspended, ingame, frame,
                     stage, saved, single_step, game_paused, work, recorder, queue, record, ncmds, done,
                     lost, seen, died>>
<1>t. CodeTypes /\ PlaceTypes /\ StateTypes /\ WorkTypes /\ GamePlace
  BY DEF GInv, HTypes
<1> USE DEF codeVars, locks, stateVars, stepVars, histVars
<1>1. /\ wpc' \in WorkerRecords
      /\ "cb_game_command" \in callbacks => wpc'.at = "put" /\ wpc'.cmd = wpc.cmd /\ wpc'.i = wpc.i
      /\ "cb_game_command" \notin callbacks => wpc'.at = "rest" /\ wpc'.cmd = "none" /\ wpc'.i = 0
  BY <1>t DEF LooksUpCallback, Resting, WAt, PlaceTypes, StateTypes, WorkerRecords,
     WorkerPlaces, CommandNames
<1>2. /\ died = "no"
      /\ wpc.at = "defer"
      /\ UNCHANGED <<hooks, registered, callbacks, mutex, gpc, suspended, ingame, frame,
                     stage, saved, single_step, game_paused, work, recorder, queue, record, ncmds, done,
                     lost, seen, died>>
  BY <1>t DEF LooksUpCallback, Resting, WAt
<1> QED
  BY <1>1, <1>2

(* get_gameloop_command adds the work. *)
LEMMA PutsWorkDoes ==
  ASSUME GInv, PutsWork
  PROVE  /\ died = "no"
         /\ wpc.at = "put"
         /\ wpc'.at = "rest" /\ wpc'.cmd = "none" /\ wpc'.i = 0
         /\ wpc' \in WorkerRecords
         /\ \/ "cb_game_command" \in callbacks /\ work' = Append(work, ncmds) /\ died' = died
            \/ "cb_game_command" \notin callbacks /\ work' = work /\ died' = "put_work"
         /\ UNCHANGED <<hooks, registered, callbacks, mutex, gpc, suspended, ingame, frame,
                     stage, saved, single_step, game_paused, recorder, queue, record, ncmds, done, lost,
                     seen>>
<1>t. CodeTypes /\ PlaceTypes /\ StateTypes /\ WorkTypes /\ GamePlace
  BY DEF GInv, HTypes
<1> USE DEF codeVars, locks, stateVars, stepVars, histVars
<1>1. /\ wpc'.at = "rest" /\ wpc'.cmd = "none" /\ wpc'.i = 0
      /\ wpc' \in WorkerRecords
  BY <1>t DEF PutsWork, Resting, WAt, PlaceTypes, StateTypes, WorkerRecords, WorkerPlaces,
     CommandNames
<1>2. /\ died = "no"
      /\ wpc.at = "put"
      /\ \/ "cb_game_command" \in callbacks /\ work' = Append(work, ncmds) /\ died' = died
         \/ "cb_game_command" \notin callbacks /\ work' = work /\ died' = "put_work"
      /\ UNCHANGED <<hooks, registered, callbacks, mutex, gpc, suspended, ingame, frame,
                     stage, saved, single_step, game_paused, recorder, queue, record, ncmds, done, lost,
                     seen>>
  BY <1>t DEF PutsWork, Resting, WAt
<1> QED
  BY <1>1, <1>2

(* The recorder writes a state. *)
LEMMA RecordsDoes ==
  ASSUME GInv, Records
  PROVE  /\ died = "no"
         /\ recorder
         /\ queue # <<>>
         /\ record' = Append(record, Head(queue))
         /\ queue' = Tail(queue)
         /\ UNCHANGED <<hooks, registered, callbacks, mutex, gpc, wpc, suspended, ingame, frame,
                     stage, saved, single_step, game_paused, work, recorder, ncmds, done, lost, seen,
                     died>>
<1>t. CodeTypes /\ PlaceTypes /\ StateTypes /\ WorkTypes /\ GamePlace
  BY DEF GInv, HTypes
<1> USE DEF codeVars, locks, stateVars, stepVars, histVars
<1>1. /\ died = "no"
      /\ recorder
      /\ queue # <<>>
      /\ record' = Append(record, Head(queue))
      /\ queue' = Tail(queue)
      /\ UNCHANGED <<hooks, registered, callbacks, mutex, gpc, wpc, suspended, ingame, frame,
                     stage, saved, single_step, game_paused, work, recorder, ncmds, done, lost, seen,
                     died>>
  BY <1>t DEF Records, RecorderTakes
<1> QED
  BY <1>1

(* The recorder loses a state. *)
LEMMA FailsToRecordDoes ==
  ASSUME GInv, FailsToRecord
  PROVE  /\ died = "no"
         /\ recorder
         /\ "fails" \in habits
         /\ queue # <<>>
         /\ failed' = failed \cup {Head(queue)}
         /\ queue' = Tail(queue)
         /\ UNCHANGED <<hooks, registered, callbacks, mutex, gpc, wpc, suspended, ingame, frame,
                     stage, saved, single_step, game_paused, work, recorder, record, ncmds, done, lost,
                     seen, died>>
<1> USE DEF codeVars, locks, stateVars, stepVars, histVars
<1> QED
  BY DEF FailsToRecord, RecorderTakes

(* The recorder ends. *)
LEMMA ExpiresDoes ==
  ASSUME GInv, Expires
  PROVE  /\ died = "no"
         /\ "idle" \in habits
         /\ recorder
         /\ queue = <<>>
         /\ recorder' = FALSE
         /\ UNCHANGED <<hooks, registered, callbacks, mutex, gpc, wpc, suspended, ingame, frame,
                     stage, saved, single_step, game_paused, work, queue, record, ncmds, done, lost,
                     seen, died>>
<1>t. CodeTypes /\ PlaceTypes /\ StateTypes /\ WorkTypes /\ GamePlace
  BY DEF GInv, HTypes
<1> USE DEF codeVars, locks, stateVars, stepVars, histVars
<1>1. /\ died = "no"
      /\ "idle" \in habits
      /\ recorder
      /\ queue = <<>>
      /\ recorder' = FALSE
      /\ UNCHANGED <<hooks, registered, callbacks, mutex, gpc, wpc, suspended, ingame, frame,
                     stage, saved, single_step, game_paused, work, queue, record, ncmds, done, lost,
                     seen, died>>
  BY <1>t DEF Expires
<1> QED
  BY <1>1

(* The game reaches hooked code. *)
LEMMA GameReachesDoes ==
  ASSUME GInv, NEW h \in HookNames, GameReaches(h)
  PROVE  /\ ~suspended
         /\ died = "no"
         /\ gpc.at = "outside"
         /\ h = "load" <=> ~ingame
         /\ h = "exit" => "exit" \in habits
         /\ gpc' \in GameRecords
         /\ ingame' \in BOOLEAN
         /\ h = "frame" => frame < MaxFrames /\ frame' = frame + 1
         /\ h # "frame" => frame' = frame
         /\ h \in hooks => gpc'.at = "enter" /\ gpc'.h = h /\ gpc'.i = 1
         /\ h \notin hooks => gpc' = gpc
         /\ UNCHANGED <<hooks, registered, callbacks, mutex, wpc, suspended, stage, saved,
                     single_step, game_paused, work, recorder, queue, record, ncmds, done, lost, seen,
                     died>>
<1>t. CodeTypes /\ PlaceTypes /\ StateTypes /\ WorkTypes /\ GamePlace
  BY DEF GInv, HTypes
<1> USE DEF codeVars, locks, stateVars, stepVars, histVars
<1>1. /\ gpc' \in GameRecords
      /\ h \in hooks => gpc'.at = "enter" /\ gpc'.h = h /\ gpc'.i = 1
      /\ h \notin hooks => gpc' = gpc
  BY <1>t DEF GameReaches, Outside, GAt, Running, PlaceTypes, GameRecords, GamePlaces, HookNames
<1>2. /\ ~suspended
      /\ died = "no"
      /\ gpc.at = "outside"
      /\ h = "load" <=> ~ingame
      /\ h = "exit" => "exit" \in habits
      /\ ingame' \in BOOLEAN
      /\ h = "frame" => frame < MaxFrames /\ frame' = frame + 1
      /\ h # "frame" => frame' = frame
      /\ UNCHANGED <<hooks, registered, callbacks, mutex, wpc, suspended, stage, saved,
                     single_step, game_paused, work, recorder, queue, record, ncmds, done, lost, seen,
                     died>>
  BY <1>t DEF GameReaches, Outside, GAt, Running
<1> QED
  BY <1>1, <1>2

(* The worker takes a command. *)
LEMMA StartsDoes ==
  ASSUME GInv, NEW c \in CommandNames, Starts(c)
  PROVE  /\ died = "no"
         /\ wpc.at = "rest"
         /\ wpc.cmd = "none"
         /\ ncmds < MaxCommands
         /\ c = "hooks" => "repeat" \in habits \/ hooks = {}
         /\ c \in {"hooks", "callbacks"} => {"late", "repeat"} \cap habits # {}
         /\ wpc'.at = c /\ wpc'.cmd = c /\ wpc'.i = 1
         /\ wpc' \in WorkerRecords
         /\ ncmds' = ncmds + 1
         /\ UNCHANGED <<hooks, registered, callbacks, mutex, gpc, suspended, ingame, frame,
                     stage, saved, single_step, game_paused, work, recorder, queue, record, done, lost,
                     seen, died>>
<1>t. CodeTypes /\ PlaceTypes /\ StateTypes /\ WorkTypes /\ GamePlace
  BY DEF GInv, HTypes
<1> USE DEF codeVars, locks, stateVars, stepVars, histVars
<1>1. /\ wpc'.at = c /\ wpc'.cmd = c /\ wpc'.i = 1
      /\ wpc' \in WorkerRecords
  BY <1>t DEF Starts, Resting, WAt, PlaceTypes, StateTypes, WorkerRecords, WorkerPlaces,
     CommandNames
<1>2. /\ died = "no"
      /\ wpc.at = "rest"
      /\ wpc.cmd = "none"
      /\ ncmds < MaxCommands
      /\ c = "hooks" => "repeat" \in habits \/ hooks = {}
      /\ c \in {"hooks", "callbacks"} => {"late", "repeat"} \cap habits # {}
      /\ ncmds' = ncmds + 1
      /\ UNCHANGED <<hooks, registered, callbacks, mutex, gpc, suspended, ingame, frame,
                     stage, saved, single_step, game_paused, work, recorder, queue, record, done, lost,
                     seen, died>>
  BY <1>t DEF Starts, Resting, WAt, Commands
<1> QED
  BY <1>1, <1>2

(* The lengths are small. *)
LEMMA Lengths ==
  ASSUME CodeTypes, InOrder
  PROVE  NF \in 0..2 /\ NL \in 0..1 /\ NE \in 0..1
BY Elements DEF NF, NL, NE

(* Adding a callback keeps the order of the keys: it goes behind the others  *)
(* of its hook.                                                              *)
LEMMA Added ==
  ASSUME GInv, AddsCallback
  PROVE  /\ registered' \in [HookNames -> Seq(KeySet)] /\ InOrder'
         /\ wpc.i \in 1..4
         /\ wpc.i = 1 => NF = 0 /\ NF' = 1 /\ NL' = NL /\ NE' = NE
         /\ wpc.i = 2 => NL = 0 /\ NL' = 1 /\ NF' = NF /\ NE' = NE
         /\ wpc.i = 3 => NE = 0 /\ NE' = 1 /\ NF' = NF /\ NL' = NL
         /\ wpc.i = 4 => NF = 1 /\ NF' = 2 /\ NL' = NL /\ NE' = NE
         /\ hooks = HookNames
         /\ \A h \in HookNames : Len(registered[h])' # Len(registered[h]) => mutex[h] = "none"
<1>t. CodeTypes /\ PlaceTypes /\ InOrder /\ WorkerPlace
  BY DEF GInv, HTypes, CodeInv
<1>1. /\ wpc.at = "add" /\ MayAdd /\ mutex[Target[Adding]] = "none"
      /\ registered' = [registered EXCEPT ![Target[Adding]] = Append(@, Adding)]
  BY AddsCallbackDoes
<1>2. wpc.i \in 1..4
  <2>1. wpc.i \in 1..5 /\ wpc.i <= 4
    BY <1>t, <1>1, KeyFacts DEF WorkerPlace, MayAdd
  <2> QED
    BY <2>1
<1>3. PICK k \in KeySet : k = Keys[wpc.i] /\ Adding = k
  BY <1>2, KeyFacts DEF Adding, KeySet
<1>4. Target[k] \in HookNames
  BY KeyFacts DEF KeySet, HookNames
<1>5. hooks = HookNames
  BY <1>t, <1>1, <1>3 DEF MayAdd, CodeTypes
<1>6. ~Has(k)
  BY <1>t, <1>1, <1>3, Registered DEF MayAdd
<1>7. PICK t \in HookNames : t = Target[k]
  BY <1>4
<1>8. registered[t] \in Seq(KeySet) /\ Len(registered[t]) \in Nat
  BY <1>t DEF CodeTypes
<1>9. /\ Append(registered[t], k) \in Seq(KeySet)
      /\ Len(Append(registered[t], k)) = Len(registered[t]) + 1
      /\ \A i \in 1..Len(registered[t]) + 1 :
           Append(registered[t], k)[i] = IF i = Len(registered[t]) + 1 THEN k ELSE registered[t][i]
  BY <1>8
<1>10. /\ registered' \in [HookNames -> Seq(KeySet)]
       /\ registered'[t] = Append(registered[t], k)
       /\ \A h \in HookNames : h # t => registered'[h] = registered[h]
  BY <1>t, <1>1, <1>3, <1>7, <1>9 DEF CodeTypes
<1>11. wpc.i > 1 => 1 <= NF
  BY <1>t, <1>1 DEF WorkerPlace
<1>12. NF \in 0..2 /\ NL \in 0..1 /\ NE \in 0..1
  BY <1>t, Lengths
<1>13. /\ wpc.i = 1 => k = "cb_game_command" /\ t = "frame" /\ NF = 0
       /\ wpc.i = 2 => k = "cb_progress_update" /\ t = "load" /\ NL = 0
       /\ wpc.i = 3 => k = "gameloop_exit" /\ t = "exit" /\ NE = 0
       /\ wpc.i = 4 => k = "save_state" /\ t = "frame" /\ NF = 1
  <2>1. wpc.i = 1 => k = "cb_game_command" /\ t = "frame" /\ NF = 0
    BY <1>3, <1>6, <1>7, <1>12, KeyFacts, HasLengths
  <2>2. wpc.i = 2 => k = "cb_progress_update" /\ t = "load" /\ NL = 0
    BY <1>3, <1>6, <1>7, <1>12, KeyFacts, HasLengths
  <2>3. wpc.i = 3 => k = "gameloop_exit" /\ t = "exit" /\ NE = 0
    BY <1>3, <1>6, <1>7, <1>12, KeyFacts, HasLengths
  <2>4. wpc.i = 4 => 1 <= NF
    BY <1>11
  <2>5. wpc.i = 4 => k = "save_state" /\ t = "frame" /\ NF = 1
    BY <2>4, <1>3, <1>6, <1>7, <1>12, KeyFacts, HasLengths
  <2> QED
    BY <2>1, <2>2, <2>3, <2>5
<1>14. Len(registered[t]) + 1 = Pos[k] /\ Pos[k] <= Slots[t]
  <2>1. wpc.i = 1 \/ wpc.i = 2 \/ wpc.i = 3 \/ wpc.i = 4
    BY <1>2
  <2>2. /\ t = "frame" => Len(registered[t]) = NF
        /\ t = "load" => Len(registered[t]) = NL
        /\ t = "exit" => Len(registered[t]) = NE
    BY DEF NF, NL, NE
  <2> QED
    BY <2>1, <2>2, <1>13, KeyFacts
<1>15. InOrder'
  <2>1. \A h \in HookNames : h # t =>
          /\ Len(registered'[h]) <= Slots[h]
          /\ \A i \in 1..Len(registered'[h]) :
               Target[registered'[h][i]] = h /\ Pos[registered'[h][i]] = i
    BY <1>t, <1>10 DEF InOrder
  <2>2. Len(registered'[t]) <= Slots[t]
    BY <1>9, <1>10, <1>14
  <2>3. ASSUME NEW i \in 1..Len(registered'[t])
        PROVE  Target[registered'[t][i]] = t /\ Pos[registered'[t][i]] = i
    <3>1. i \in 1..Len(registered[t]) + 1
      BY <1>9, <1>10
    <3>2. CASE i = Len(registered[t]) + 1
      BY <3>2, <1>9, <1>10, <1>14, <1>7, <3>1
    <3>3. CASE i # Len(registered[t]) + 1
      <4>1. i \in 1..Len(registered[t]) /\ registered'[t][i] = registered[t][i]
        BY <3>1, <3>3, <1>8, <1>9, <1>10
      <4> QED
        BY <4>1, <1>t DEF InOrder
    <3> QED
      BY <3>2, <3>3
  <2> QED
    BY <2>1, <2>2, <2>3 DEF InOrder
<1>16. /\ t = "frame" => NF' = NF + 1 /\ NL' = NL /\ NE' = NE
       /\ t = "load" => NL' = NL + 1 /\ NF' = NF /\ NE' = NE
       /\ t = "exit" => NE' = NE + 1 /\ NF' = NF /\ NL' = NL
  BY <1>9, <1>10 DEF NF, NL, NE, HookNames
<1>17. \A h \in HookNames : Len(registered[h])' # Len(registered[h]) => mutex[h] = "none"
  BY <1>1, <1>3, <1>7, <1>10
<1> QED
  BY <1>2, <1>5, <1>10, <1>13, <1>15, <1>16, <1>17

(* The end of a match leaves each hook with its own callbacks or none. *)
LEMMA Exited ==
  ASSUME GInv, ExitsGame
  PROVE  /\ registered' \in [HookNames -> Seq(KeySet)] /\ InOrder'
         /\ NE' = NE
         /\ died' = "remove_callback" => NF' = NF /\ NL' = NL /\ callbacks' = callbacks
         /\ died' = died => /\ NF' = 0 /\ NL' = 0 /\ Unhooked = {}
                            /\ callbacks' = callbacks \cap {"gameloop_exit"}
         /\ died' \in {"remove_callback", died}
<1>t. /\ CodeTypes /\ GamePlace /\ InOrder
      /\ 1 <= NF => "cb_game_command" \in callbacks
      /\ 2 <= NF => "save_state" \in callbacks
      /\ 1 <= NL => "cb_progress_update" \in callbacks
  BY DEF GInv, HTypes, CodeInv
<1>1. /\ died = "no" /\ gpc.at = "gameloop_exit"
      /\ \/ died' = "remove_callback" /\ registered' = registered /\ callbacks' = callbacks
         \/ /\ died' = died /\ Unhooked = {} /\ registered' = TakenOut
            /\ callbacks' = callbacks \ Removed
  BY ExitsGameDoes
<1>2. CASE died' = "remove_callback"
  BY <1>t, <1>1, <1>2 DEF InOrder, NF, NL, NE, CodeTypes
<1>3. CASE died' = died
  <2>1. hooks = HookNames
    BY <1>t, <1>1, KeyFacts DEF GamePlace, KeySet
  <2>2. /\ registered' \in [HookNames -> Seq(KeySet)]
        /\ Len(registered'["frame"]) = 0 /\ Len(registered'["load"]) = 0
        /\ registered'["exit"] = registered["exit"]
        /\ callbacks' = callbacks \cap {"gameloop_exit"}
    BY <1>t, <1>1, <1>3, <2>1, TakenOutIs
  <2>3. InOrder'
    <3>1. ASSUME NEW h \in HookNames, h # "exit"
          PROVE  /\ Len(registered'[h]) <= Slots[h]
                 /\ \A i \in 1..Len(registered'[h]) :
                      Target[registered'[h][i]] = h /\ Pos[registered'[h][i]] = i
      <4>1. Len(registered'[h]) = 0 /\ Slots[h] >= 0
        BY <3>1, <2>2, KeyFacts DEF HookNames
      <4> QED
        BY <4>1
    <3>2. /\ Len(registered'["exit"]) <= Slots["exit"]
          /\ \A i \in 1..Len(registered'["exit"]) :
               Target[registered'["exit"][i]] = "exit" /\ Pos[registered'["exit"][i]] = i
      BY <1>t, <2>2 DEF InOrder, HookNames
    <3> QED
      BY <3>1, <3>2 DEF InOrder
  <2> QED
    BY <1>1, <1>3, <2>2, <2>3 DEF NF, NL, NE
<1> QED
  BY <1>1, <1>2, <1>3
(* The elements of a list come from where the list does. *)
LEMMA ElementsIn ==
  ASSUME NEW S, NEW s \in Seq(S)
  PROVE  ToSet(s) \subseteq S
BY DEF ToSet

(* Every step keeps the types of the hooks and callbacks. *)
LEMMA CodeTypesNext ==
  ASSUME GInv, [Next]_vars
  PROVE  CodeTypes'
<1>t. CodeTypes /\ PlaceTypes /\ StateTypes /\ WorkTypes /\ InOrder
  BY DEF GInv, HTypes, CodeInv
<1>1. CASE EntersHook /\ UNCHANGED habits
  BY <1>t, <1>1, EntersHookDoes DEF CodeTypes
<1>2. CASE LeavesHook /\ UNCHANGED habits
  BY <1>t, <1>2, LeavesHookDoes DEF CodeTypes
<1>3. CASE CallsBack /\ UNCHANGED habits
  BY <1>t, <1>3, CallsBackDoes DEF CodeTypes
<1>4. CASE UpdatesProgress /\ UNCHANGED habits
  BY <1>t, <1>4, UpdatesProgressDoes DEF CodeTypes
<1>5. CASE ParsesState /\ UNCHANGED habits
  BY <1>t, <1>5, ParsesStateDoes DEF CodeTypes
<1>6. CASE PushesState /\ UNCHANGED habits
  BY <1>t, <1>6, PushesStateDoes DEF CodeTypes
<1>7. CASE Unlocks /\ UNCHANGED habits
  BY <1>t, <1>7, UnlocksDoes DEF CodeTypes
<1>8. CASE Pauses /\ UNCHANGED habits
  BY <1>t, <1>8, PausesDoes DEF CodeTypes
<1>9. CASE Resumes /\ UNCHANGED habits
  BY <1>t, <1>9, ResumesDoes DEF CodeTypes
<1>10. CASE RunsWork /\ UNCHANGED habits
  BY <1>t, <1>10, RunsWorkDoes DEF CodeTypes
<1>11. CASE ExitsGame /\ UNCHANGED habits
  BY <1>t, <1>11, ExitsGameDoes, Exited DEF CodeTypes
<1>12. CASE SuspendsThreads /\ UNCHANGED habits
  BY <1>t, <1>12, SuspendsThreadsDoes DEF CodeTypes, HookNames
<1>13. CASE CreatesHooks /\ UNCHANGED habits
  BY <1>t, <1>13, CreatesHooksDoes DEF CodeTypes
<1>14. CASE InitCallbacks /\ UNCHANGED habits
  BY <1>t, <1>14, InitCallbacksDoes DEF CodeTypes
<1>15. CASE LocksHooks /\ UNCHANGED habits
  BY <1>t, <1>15, LocksHooksDoes DEF CodeTypes
<1>16. CASE EndsAdding /\ UNCHANGED habits
  BY <1>t, <1>16, EndsAddingDoes DEF CodeTypes
<1>17. CASE AddsCallback /\ UNCHANGED habits
  BY <1>t, <1>17, AddsCallbackDoes, Added DEF CodeTypes
<1>18. CASE Configures /\ UNCHANGED habits
  BY <1>t, <1>18, ConfiguresDoes DEF CodeTypes
<1>19. CASE LocksState /\ UNCHANGED habits
  BY <1>t, <1>19, LocksStateDoes DEF CodeTypes
<1>20. CASE YieldsState /\ UNCHANGED habits
  BY <1>t, <1>20, YieldsStateDoes DEF CodeTypes
<1>21. CASE RegainsState /\ UNCHANGED habits
  BY <1>t, <1>21, RegainsStateDoes DEF CodeTypes
<1>22. CASE CopiesState /\ UNCHANGED habits
  BY <1>t, <1>22, CopiesStateDoes DEF CodeTypes
<1>23. CASE ReleasesGame /\ UNCHANGED habits
  BY <1>t, <1>23, ReleasesGameDoes DEF CodeTypes
<1>24. CASE LooksUpCallback /\ UNCHANGED habits
  BY <1>t, <1>24, LooksUpCallbackDoes DEF CodeTypes
<1>25. CASE PutsWork /\ UNCHANGED habits
  BY <1>t, <1>25, PutsWorkDoes DEF CodeTypes
<1>26. CASE Records /\ UNCHANGED habits
  BY <1>t, <1>26, RecordsDoes DEF CodeTypes
<1>27. CASE Expires /\ UNCHANGED habits
  BY <1>t, <1>27, ExpiresDoes DEF CodeTypes
<1>28. ASSUME NEW h \in HookNames, GameReaches(h), UNCHANGED habits
      PROVE  CodeTypes'
  BY <1>t, <1>28, GameReachesDoes DEF CodeTypes
<1>29. ASSUME NEW c \in CommandNames, Starts(c), UNCHANGED habits
      PROVE  CodeTypes'
  BY <1>t, <1>29, StartsDoes DEF CodeTypes
<1>30. CASE UNCHANGED vars
  BY <1>t, <1>30 DEF vars, moving, codeVars, locks, stateVars, stepVars, histVars, CodeTypes
<1>31. CASE FailsToRecord /\ UNCHANGED habits
  BY <1>t, <1>31, FailsToRecordDoes DEF CodeTypes
<1> QED
  BY <1>1, <1>2, <1>3, <1>4, <1>5, <1>6, <1>7, <1>8, <1>9, <1>10, <1>11, <1>12, <1>13,
     <1>14, <1>15, <1>16, <1>17, <1>18, <1>19, <1>20, <1>21, <1>22, <1>23, <1>24, <1>25,
     <1>26, <1>27, <1>28, <1>29, <1>30, <1>31 DEF Next, InHook, Worker, CommandNames

(* Every step leaves the threads at places of the code. *)
LEMMA PlaceTypesNext ==
  ASSUME GInv, [Next]_vars
  PROVE  PlaceTypes'
<1>t. CodeTypes /\ PlaceTypes /\ StateTypes /\ WorkTypes /\ InOrder
  BY DEF GInv, HTypes, CodeInv
<1>1. CASE EntersHook /\ UNCHANGED habits
  BY <1>t, <1>1, EntersHookDoes DEF PlaceTypes
<1>2. CASE LeavesHook /\ UNCHANGED habits
  BY <1>t, <1>2, LeavesHookDoes DEF PlaceTypes
<1>3. CASE CallsBack /\ UNCHANGED habits
  BY <1>t, <1>3, CallsBackDoes DEF PlaceTypes
<1>4. CASE UpdatesProgress /\ UNCHANGED habits
  BY <1>t, <1>4, UpdatesProgressDoes DEF PlaceTypes
<1>5. CASE ParsesState /\ UNCHANGED habits
  BY <1>t, <1>5, ParsesStateDoes DEF PlaceTypes
<1>6. CASE PushesState /\ UNCHANGED habits
  BY <1>t, <1>6, PushesStateDoes DEF PlaceTypes
<1>7. CASE Unlocks /\ UNCHANGED habits
  BY <1>t, <1>7, UnlocksDoes DEF PlaceTypes
<1>8. CASE Pauses /\ UNCHANGED habits
  BY <1>t, <1>8, PausesDoes DEF PlaceTypes
<1>9. CASE Resumes /\ UNCHANGED habits
  BY <1>t, <1>9, ResumesDoes DEF PlaceTypes
<1>10. CASE RunsWork /\ UNCHANGED habits
  BY <1>t, <1>10, RunsWorkDoes DEF PlaceTypes
<1>11. CASE ExitsGame /\ UNCHANGED habits
  BY <1>t, <1>11, ExitsGameDoes DEF PlaceTypes
<1>12. CASE SuspendsThreads /\ UNCHANGED habits
  BY <1>t, <1>12, SuspendsThreadsDoes DEF PlaceTypes
<1>13. CASE CreatesHooks /\ UNCHANGED habits
  BY <1>t, <1>13, CreatesHooksDoes DEF PlaceTypes
<1>14. CASE InitCallbacks /\ UNCHANGED habits
  BY <1>t, <1>14, InitCallbacksDoes DEF PlaceTypes
<1>15. CASE LocksHooks /\ UNCHANGED habits
  BY <1>t, <1>15, LocksHooksDoes DEF PlaceTypes
<1>16. CASE EndsAdding /\ UNCHANGED habits
  BY <1>t, <1>16, EndsAddingDoes DEF PlaceTypes
<1>17. CASE AddsCallback /\ UNCHANGED habits
  BY <1>t, <1>17, AddsCallbackDoes DEF PlaceTypes
<1>18. CASE Configures /\ UNCHANGED habits
  BY <1>t, <1>18, ConfiguresDoes DEF PlaceTypes
<1>19. CASE LocksState /\ UNCHANGED habits
  BY <1>t, <1>19, LocksStateDoes DEF PlaceTypes
<1>20. CASE YieldsState /\ UNCHANGED habits
  BY <1>t, <1>20, YieldsStateDoes DEF PlaceTypes
<1>21. CASE RegainsState /\ UNCHANGED habits
  BY <1>t, <1>21, RegainsStateDoes DEF PlaceTypes
<1>22. CASE CopiesState /\ UNCHANGED habits
  BY <1>t, <1>22, CopiesStateDoes DEF PlaceTypes
<1>23. CASE ReleasesGame /\ UNCHANGED habits
  BY <1>t, <1>23, ReleasesGameDoes DEF PlaceTypes
<1>24. CASE LooksUpCallback /\ UNCHANGED habits
  BY <1>t, <1>24, LooksUpCallbackDoes DEF PlaceTypes
<1>25. CASE PutsWork /\ UNCHANGED habits
  BY <1>t, <1>25, PutsWorkDoes DEF PlaceTypes
<1>26. CASE Records /\ UNCHANGED habits
  BY <1>t, <1>26, RecordsDoes DEF PlaceTypes
<1>27. CASE Expires /\ UNCHANGED habits
  BY <1>t, <1>27, ExpiresDoes DEF PlaceTypes
<1>28. ASSUME NEW h \in HookNames, GameReaches(h), UNCHANGED habits
      PROVE  PlaceTypes'
  BY <1>t, <1>28, GameReachesDoes DEF PlaceTypes
<1>29. ASSUME NEW c \in CommandNames, Starts(c), UNCHANGED habits
      PROVE  PlaceTypes'
  BY <1>t, <1>29, StartsDoes DEF PlaceTypes
<1>30. CASE UNCHANGED vars
  BY <1>t, <1>30 DEF vars, moving, codeVars, locks, stateVars, stepVars, histVars, PlaceTypes
<1>31. CASE FailsToRecord /\ UNCHANGED habits
  BY <1>t, <1>31, FailsToRecordDoes DEF PlaceTypes
<1> QED
  BY <1>1, <1>2, <1>3, <1>4, <1>5, <1>6, <1>7, <1>8, <1>9, <1>10, <1>11, <1>12, <1>13,
     <1>14, <1>15, <1>16, <1>17, <1>18, <1>19, <1>20, <1>21, <1>22, <1>23, <1>24, <1>25,
     <1>26, <1>27, <1>28, <1>29, <1>30, <1>31 DEF Next, InHook, Worker, CommandNames

(* Every step keeps the types of the game state and its record. *)
LEMMA StateTypesNext ==
  ASSUME GInv, [Next]_vars
  PROVE  StateTypes'
<1>t. CodeTypes /\ PlaceTypes /\ StateTypes /\ WorkTypes /\ InOrder
  BY DEF GInv, HTypes, CodeInv
<1>1. CASE EntersHook /\ UNCHANGED habits
  BY <1>t, HooksAssumption, <1>1, EntersHookDoes DEF StateTypes
<1>2. CASE LeavesHook /\ UNCHANGED habits
  BY <1>t, HooksAssumption, <1>2, LeavesHookDoes DEF StateTypes
<1>3. CASE CallsBack /\ UNCHANGED habits
  BY <1>t, HooksAssumption, <1>3, CallsBackDoes DEF StateTypes
<1>4. CASE UpdatesProgress /\ UNCHANGED habits
  BY <1>t, HooksAssumption, <1>4, UpdatesProgressDoes DEF StateTypes
<1>5. CASE ParsesState /\ UNCHANGED habits
  BY <1>t, HooksAssumption, <1>5, ParsesStateDoes DEF StateTypes
<1>6. CASE PushesState /\ UNCHANGED habits
  BY SMTT(40), <1>t, HooksAssumption, <1>6, PushesStateDoes DEF StateTypes
<1>7. CASE Unlocks /\ UNCHANGED habits
  BY <1>t, HooksAssumption, <1>7, UnlocksDoes DEF StateTypes
<1>8. CASE Pauses /\ UNCHANGED habits
  BY <1>t, HooksAssumption, <1>8, PausesDoes DEF StateTypes
<1>9. CASE Resumes /\ UNCHANGED habits
  BY <1>t, HooksAssumption, <1>9, ResumesDoes DEF StateTypes
<1>10. CASE RunsWork /\ UNCHANGED habits
  BY <1>t, HooksAssumption, <1>10, RunsWorkDoes DEF StateTypes
<1>11. CASE ExitsGame /\ UNCHANGED habits
  <2>1. /\ UNCHANGED <<ingame, single_step, game_paused, frame, saved, seen>>
        /\ stage' = "exit" /\ died' \in {"remove_callback", died}
        /\ record' = record /\ queue' \in {queue, <<>>}
        /\ recorder' \in {recorder, FALSE}
    BY <1>11, ExitsGameDoes
  <2>2. <<>> \in Seq(Nat) /\ Len(<<>>) <= RecorderSize
    BY <1>t, HooksAssumption DEF StateTypes
  <2>3. /\ record' \in Seq(Nat) /\ queue' \in Seq(Nat) /\ Len(queue') <= RecorderSize
        /\ recorder' \in BOOLEAN
    BY <1>t, <2>1, <2>2 DEF StateTypes
  <2> QED
    BY <1>t, <2>1, <2>3 DEF StateTypes
<1>12. CASE SuspendsThreads /\ UNCHANGED habits
  BY <1>t, HooksAssumption, <1>12, SuspendsThreadsDoes DEF StateTypes
<1>13. CASE CreatesHooks /\ UNCHANGED habits
  BY <1>t, HooksAssumption, <1>13, CreatesHooksDoes DEF StateTypes
<1>14. CASE InitCallbacks /\ UNCHANGED habits
  BY <1>t, HooksAssumption, <1>14, InitCallbacksDoes DEF StateTypes
<1>15. CASE LocksHooks /\ UNCHANGED habits
  BY <1>t, HooksAssumption, <1>15, LocksHooksDoes DEF StateTypes
<1>16. CASE EndsAdding /\ UNCHANGED habits
  BY <1>t, HooksAssumption, <1>16, EndsAddingDoes DEF StateTypes
<1>17. CASE AddsCallback /\ UNCHANGED habits
  BY <1>t, HooksAssumption, <1>17, AddsCallbackDoes DEF StateTypes
<1>18. CASE Configures /\ UNCHANGED habits
  BY <1>t, HooksAssumption, <1>18, ConfiguresDoes DEF StateTypes
<1>19. CASE LocksState /\ UNCHANGED habits
  BY <1>t, HooksAssumption, <1>19, LocksStateDoes DEF StateTypes
<1>20. CASE YieldsState /\ UNCHANGED habits
  BY <1>t, HooksAssumption, <1>20, YieldsStateDoes DEF StateTypes
<1>21. CASE RegainsState /\ UNCHANGED habits
  BY <1>t, HooksAssumption, <1>21, RegainsStateDoes DEF StateTypes
<1>22. CASE CopiesState /\ UNCHANGED habits
  BY <1>t, HooksAssumption, <1>22, CopiesStateDoes DEF StateTypes
<1>23. CASE ReleasesGame /\ UNCHANGED habits
  BY <1>t, HooksAssumption, <1>23, ReleasesGameDoes DEF StateTypes, PlaceTypes, WorkerRecords
<1>24. CASE LooksUpCallback /\ UNCHANGED habits
  BY <1>t, HooksAssumption, <1>24, LooksUpCallbackDoes DEF StateTypes
<1>25. CASE PutsWork /\ UNCHANGED habits
  BY <1>t, HooksAssumption, <1>25, PutsWorkDoes DEF StateTypes
<1>26. CASE Records /\ UNCHANGED habits
  <2>1. /\ record' = Append(record, Head(queue)) /\ queue' = Tail(queue) /\ queue # <<>>
        /\ UNCHANGED <<ingame, recorder, single_step, game_paused, frame, saved, seen, stage, died>>
    BY <1>26, RecordsDoes
  <2>2. queue \in Seq(Nat) /\ record \in Seq(Nat) /\ Len(queue) <= RecorderSize
    BY <1>t DEF StateTypes
  <2>3. /\ Head(queue) \in Nat /\ Tail(queue) \in Seq(Nat) /\ Len(Tail(queue)) = Len(queue) - 1
        /\ Len(queue) \in Nat
    BY <2>1, <2>2
  <2>4. record' \in Seq(Nat) /\ queue' \in Seq(Nat)
    BY <2>1, <2>2, <2>3
  <2>5. Len(queue') <= RecorderSize
    BY <2>1, <2>2, <2>3, HooksAssumption
  <2> QED
    BY <1>t, <2>1, <2>4, <2>5 DEF StateTypes
<1>27. CASE Expires /\ UNCHANGED habits
  BY <1>t, HooksAssumption, <1>27, ExpiresDoes DEF StateTypes
<1>28. ASSUME NEW h \in HookNames, GameReaches(h), UNCHANGED habits
      PROVE  StateTypes'
  BY <1>t, HooksAssumption, <1>28, GameReachesDoes DEF StateTypes
<1>29. ASSUME NEW c \in CommandNames, Starts(c), UNCHANGED habits
      PROVE  StateTypes'
  BY <1>t, HooksAssumption, <1>29, StartsDoes DEF StateTypes
<1>30. CASE UNCHANGED vars
  BY <1>t, HooksAssumption, <1>30 DEF vars, moving, codeVars, locks, stateVars, stepVars,
     histVars, StateTypes
<1>31. CASE FailsToRecord /\ UNCHANGED habits
  <2>1. /\ record' = record /\ queue' = Tail(queue) /\ queue # <<>>
        /\ UNCHANGED <<ingame, recorder, single_step, game_paused, frame, saved, seen, stage, died>>
    BY <1>31, FailsToRecordDoes
  <2>2. queue \in Seq(Nat) /\ record \in Seq(Nat) /\ Len(queue) <= RecorderSize
    BY <1>t DEF StateTypes
  <2>3. /\ Head(queue) \in Nat /\ Tail(queue) \in Seq(Nat) /\ Len(Tail(queue)) = Len(queue) - 1
        /\ Len(queue) \in Nat
    BY <2>1, <2>2
  <2>4. record' \in Seq(Nat) /\ queue' \in Seq(Nat)
    BY <2>1, <2>2, <2>3
  <2>5. Len(queue') <= RecorderSize
    BY <2>1, <2>2, <2>3, HooksAssumption
  <2> QED
    BY <1>t, <2>1, <2>4, <2>5 DEF StateTypes
<1> QED
  BY <1>1, <1>2, <1>3, <1>4, <1>5, <1>6, <1>7, <1>8, <1>9, <1>10, <1>11, <1>12, <1>13,
     <1>14, <1>15, <1>16, <1>17, <1>18, <1>19, <1>20, <1>21, <1>22, <1>23, <1>24, <1>25,
     <1>26, <1>27, <1>28, <1>29, <1>30, <1>31 DEF Next, InHook, Worker, CommandNames

(* Every step keeps the types of the deferred work. *)
LEMMA WorkTypesNext ==
  ASSUME GInv, [Next]_vars
  PROVE  WorkTypes'
<1>t. CodeTypes /\ PlaceTypes /\ StateTypes /\ WorkTypes /\ InOrder
  BY DEF GInv, HTypes, CodeInv
<1>1. CASE EntersHook /\ UNCHANGED habits
  BY <1>t, HooksAssumption, <1>1, EntersHookDoes DEF WorkTypes
<1>2. CASE LeavesHook /\ UNCHANGED habits
  BY <1>t, HooksAssumption, <1>2, LeavesHookDoes DEF WorkTypes
<1>3. CASE CallsBack /\ UNCHANGED habits
  BY <1>t, HooksAssumption, <1>3, CallsBackDoes DEF WorkTypes
<1>4. CASE UpdatesProgress /\ UNCHANGED habits
  BY <1>t, HooksAssumption, <1>4, UpdatesProgressDoes DEF WorkTypes
<1>5. CASE ParsesState /\ UNCHANGED habits
  BY <1>t, HooksAssumption, <1>5, ParsesStateDoes DEF WorkTypes
<1>6. CASE PushesState /\ UNCHANGED habits
  BY <1>t, HooksAssumption, <1>6, PushesStateDoes DEF WorkTypes
<1>7. CASE Unlocks /\ UNCHANGED habits
  BY <1>t, HooksAssumption, <1>7, UnlocksDoes DEF WorkTypes
<1>8. CASE Pauses /\ UNCHANGED habits
  BY <1>t, HooksAssumption, <1>8, PausesDoes DEF WorkTypes
<1>9. CASE Resumes /\ UNCHANGED habits
  BY <1>t, HooksAssumption, <1>9, ResumesDoes DEF WorkTypes
<1>10. CASE RunsWork /\ UNCHANGED habits
  <2>1. done' = done \o work /\ work' = <<>> /\ UNCHANGED <<ncmds, lost>>
    BY <1>10, RunsWorkDoes
  <2>2. done \o work \in Seq(1..MaxCommands)
    BY <1>t DEF WorkTypes
  <2> QED
    BY <1>t, <2>1, <2>2 DEF WorkTypes
<1>11. CASE ExitsGame /\ UNCHANGED habits
  <2>1. /\ UNCHANGED <<ncmds, done>> /\ work' \in {work, <<>>}
        /\ lost' \in {lost, lost \cup ToSet(work)}
    BY <1>11, ExitsGameDoes
  <2>2. ToSet(work) \subseteq 1..MaxCommands
    BY <1>t, ElementsIn DEF WorkTypes
  <2>3. lost' \in SUBSET (1..MaxCommands)
    BY <1>t, <2>1, <2>2 DEF WorkTypes
  <2>4. work' \in Seq(1..MaxCommands)
    <3>1. work \in Seq(1..MaxCommands) /\ <<>> \in Seq(1..MaxCommands)
      BY <1>t DEF WorkTypes
    <3> QED
      BY <2>1, <3>1
  <2> QED
    BY <1>t, <2>1, <2>3, <2>4 DEF WorkTypes
<1>12. CASE SuspendsThreads /\ UNCHANGED habits
  BY <1>t, HooksAssumption, <1>12, SuspendsThreadsDoes DEF WorkTypes
<1>13. CASE CreatesHooks /\ UNCHANGED habits
  BY <1>t, HooksAssumption, <1>13, CreatesHooksDoes DEF WorkTypes
<1>14. CASE InitCallbacks /\ UNCHANGED habits
  BY <1>t, HooksAssumption, <1>14, InitCallbacksDoes DEF WorkTypes
<1>15. CASE LocksHooks /\ UNCHANGED habits
  BY <1>t, HooksAssumption, <1>15, LocksHooksDoes DEF WorkTypes
<1>16. CASE EndsAdding /\ UNCHANGED habits
  BY <1>t, HooksAssumption, <1>16, EndsAddingDoes DEF WorkTypes
<1>17. CASE AddsCallback /\ UNCHANGED habits
  BY <1>t, HooksAssumption, <1>17, AddsCallbackDoes DEF WorkTypes
<1>18. CASE Configures /\ UNCHANGED habits
  BY <1>t, HooksAssumption, <1>18, ConfiguresDoes DEF WorkTypes
<1>19. CASE LocksState /\ UNCHANGED habits
  BY <1>t, HooksAssumption, <1>19, LocksStateDoes DEF WorkTypes
<1>20. CASE YieldsState /\ UNCHANGED habits
  BY <1>t, HooksAssumption, <1>20, YieldsStateDoes DEF WorkTypes
<1>21. CASE RegainsState /\ UNCHANGED habits
  BY <1>t, HooksAssumption, <1>21, RegainsStateDoes DEF WorkTypes
<1>22. CASE CopiesState /\ UNCHANGED habits
  BY <1>t, HooksAssumption, <1>22, CopiesStateDoes DEF WorkTypes
<1>23. CASE ReleasesGame /\ UNCHANGED habits
  BY <1>t, HooksAssumption, <1>23, ReleasesGameDoes DEF WorkTypes
<1>24. CASE LooksUpCallback /\ UNCHANGED habits
  BY <1>t, HooksAssumption, <1>24, LooksUpCallbackDoes DEF WorkTypes
<1>25. CASE PutsWork /\ UNCHANGED habits
  <2>1. /\ UNCHANGED <<ncmds, done, lost>> /\ work' \in {work, Append(work, ncmds)}
        /\ wpc.at = "put"
    BY <1>25, PutsWorkDoes
  <2>2. ncmds \in 1..MaxCommands
    BY <1>t, <2>1 DEF WorkTypes, GInv, WorkInv
  <2>3. Append(work, ncmds) \in Seq(1..MaxCommands)
    BY <1>t, <2>2 DEF WorkTypes
  <2> QED
    BY <1>t, <2>1, <2>3 DEF WorkTypes
<1>26. CASE Records /\ UNCHANGED habits
  BY <1>t, HooksAssumption, <1>26, RecordsDoes DEF WorkTypes
<1>27. CASE Expires /\ UNCHANGED habits
  BY <1>t, HooksAssumption, <1>27, ExpiresDoes DEF WorkTypes
<1>28. ASSUME NEW h \in HookNames, GameReaches(h), UNCHANGED habits
      PROVE  WorkTypes'
  BY <1>t, HooksAssumption, <1>28, GameReachesDoes DEF WorkTypes
<1>29. ASSUME NEW c \in CommandNames, Starts(c), UNCHANGED habits
      PROVE  WorkTypes'
  <2>1. /\ UNCHANGED <<work, done, lost>> /\ ncmds' = ncmds + 1 /\ ncmds < MaxCommands
    BY <1>29, StartsDoes
  <2>2. ncmds' \in 0..MaxCommands
    BY <1>t, <2>1, HooksAssumption DEF WorkTypes
  <2> QED
    BY <1>t, <2>1, <2>2 DEF WorkTypes
<1>30. CASE UNCHANGED vars
  BY <1>t, HooksAssumption, <1>30 DEF vars, moving, codeVars, locks, stateVars, stepVars,
     histVars, WorkTypes
<1>31. CASE FailsToRecord /\ UNCHANGED habits
  BY <1>t, HooksAssumption, <1>31, FailsToRecordDoes DEF WorkTypes
<1> QED
  BY <1>1, <1>2, <1>3, <1>4, <1>5, <1>6, <1>7, <1>8, <1>9, <1>10, <1>11, <1>12, <1>13,
     <1>14, <1>15, <1>16, <1>17, <1>18, <1>19, <1>20, <1>21, <1>22, <1>23, <1>24, <1>25,
     <1>26, <1>27, <1>28, <1>29, <1>30, <1>31 DEF Next, InHook, Worker, CommandNames

(* Every step leaves the game thread where its hook and callback allow. *)
LEMMA GamePlaceNext ==
  ASSUME GInv, [Next]_vars
  PROVE  GamePlace'
<1>t. /\ CodeTypes /\ PlaceTypes /\ StateTypes /\ WorkTypes /\ GamePlace /\ LockInv /\ WorkerPlace
      /\ LoadInv /\ CodeInv /\ InOrder
  BY DEF GInv, HTypes, CodeInv
<1>n. NF \in 0..2 /\ NL \in 0..1 /\ NE \in 0..1
  BY <1>t, Lengths
<1>r. registered' = registered => NF' = NF /\ NL' = NL /\ NE' = NE
  BY DEF NF, NL, NE
<1>h. gpc.h \in HookNames \cup {"none"} /\ gpc.i \in Nat /\ wpc.i \in Nat
  BY <1>t DEF PlaceTypes, GameRecords, WorkerRecords
<1>g. gpc' = gpc => gpc'.at = gpc.at /\ gpc'.h = gpc.h /\ gpc'.i = gpc.i
  OBVIOUS
<1>w. wpc' = wpc => wpc'.at = wpc.at /\ wpc'.cmd = wpc.cmd /\ wpc'.i = wpc.i
  OBVIOUS
<1>o. registered' = registered => InOrder'
  BY <1>t DEF InOrder
<1>e. HookNames # {} /\ hooks \in {{}, HookNames}
  BY <1>t DEF HookNames, CodeTypes
<1>1. CASE EntersHook /\ UNCHANGED habits
  BY <1>t, <1>n, <1>r, <1>h, <1>1, EntersHookDoes DEF GamePlace, HookNames, LockInv
<1>2. CASE LeavesHook /\ UNCHANGED habits
  BY <1>t, <1>n, <1>r, <1>h, <1>2, LeavesHookDoes DEF GamePlace, HookNames, LockInv
<1>3. CASE CallsBack /\ UNCHANGED habits
  <2>1. /\ gpc.at = "next" /\ gpc.i <= Len(registered[gpc.h]) /\ gpc'.at = registered[gpc.h][gpc.i]
        /\ gpc'.h = gpc.h /\ gpc'.i = gpc.i /\ UNCHANGED <<registered, hooks>>
    BY <1>3, CallsBackDoes
  <2>2. /\ gpc.h = "frame" /\ gpc.i = 1 => gpc'.at = "cb_game_command"
        /\ gpc.h = "frame" /\ gpc.i = 2 => gpc'.at = "save_state"
        /\ gpc.h = "load" /\ gpc.i = 1 => gpc'.at = "cb_progress_update"
        /\ gpc.h = "exit" /\ gpc.i = 1 => gpc'.at = "gameloop_exit"
    BY <1>t, <2>1, Elements
  <2>3. /\ gpc.h = "frame" => gpc.i \in 1..NF /\ gpc.i \in 1..2
        /\ gpc.h = "load" => gpc.i = 1 /\ 1 <= NL
        /\ gpc.h = "exit" => gpc.i = 1 /\ 1 <= NE
        /\ gpc.h \in {"frame", "load", "exit"}
    BY <1>t, <1>n, <1>h, <2>1 DEF GamePlace, NF, NL, NE, HookNames
  <2> QED
    BY <1>t, <1>n, <1>r, <1>3, <2>1, <2>2, <2>3 DEF GamePlace
<1>4. CASE UpdatesProgress /\ UNCHANGED habits
  BY <1>t, <1>n, <1>r, <1>h, <1>4, UpdatesProgressDoes DEF GamePlace, HookNames, LockInv
<1>5. CASE ParsesState /\ UNCHANGED habits
  BY <1>t, <1>n, <1>r, <1>h, <1>5, ParsesStateDoes DEF GamePlace, HookNames, LockInv
<1>6. CASE PushesState /\ UNCHANGED habits
  BY <1>t, <1>n, <1>r, <1>h, <1>6, PushesStateDoes DEF GamePlace, HookNames, LockInv
<1>7. CASE Unlocks /\ UNCHANGED habits
  BY <1>t, <1>n, <1>r, <1>h, <1>7, UnlocksDoes DEF GamePlace, HookNames, LockInv
<1>8. CASE Pauses /\ UNCHANGED habits
  BY <1>t, <1>n, <1>r, <1>h, <1>8, PausesDoes DEF GamePlace, HookNames, LockInv
<1>9. CASE Resumes /\ UNCHANGED habits
  BY <1>t, <1>n, <1>r, <1>h, <1>9, ResumesDoes DEF GamePlace, HookNames, LockInv
<1>10. CASE RunsWork /\ UNCHANGED habits
  BY <1>t, <1>n, <1>r, <1>h, <1>10, RunsWorkDoes DEF GamePlace, HookNames, LockInv
<1>11. CASE ExitsGame /\ UNCHANGED habits
  BY <1>t, <1>n, <1>r, <1>h, <1>11, ExitsGameDoes, Exited DEF GamePlace, HookNames, LockInv
<1>12. CASE SuspendsThreads /\ UNCHANGED habits
  BY <1>t, <1>n, <1>r, <1>h, <1>12, SuspendsThreadsDoes DEF GamePlace, HookNames, LockInv
<1>13. CASE CreatesHooks /\ UNCHANGED habits
  <2>1. registered' = registered /\ gpc' = gpc /\ (hooks' = hooks \/ hooks' = HookNames)
    BY <1>13, CreatesHooksDoes
  <2> QED
    BY <1>t, <1>r, <1>g, <1>13, <2>1 DEF GamePlace
<1>14. CASE InitCallbacks /\ UNCHANGED habits
  BY <1>t, <1>n, <1>r, <1>h, <1>14, InitCallbacksDoes DEF GamePlace, HookNames, LockInv
<1>15. CASE LocksHooks /\ UNCHANGED habits
  BY <1>t, <1>n, <1>r, <1>h, <1>15, LocksHooksDoes DEF GamePlace, HookNames, LockInv
<1>16. CASE EndsAdding /\ UNCHANGED habits
  BY <1>t, <1>n, <1>r, <1>h, <1>16, EndsAddingDoes DEF GamePlace, HookNames, LockInv,
     WorkerPlace, Loads
<1>17. CASE AddsCallback /\ UNCHANGED habits
  BY <1>t, <1>n, <1>r, <1>h, <1>17, AddsCallbackDoes, Added DEF GamePlace, HookNames, LockInv
<1>18. CASE Configures /\ UNCHANGED habits
  BY <1>t, <1>n, <1>r, <1>h, <1>18, ConfiguresDoes DEF GamePlace, HookNames, LockInv
<1>19. CASE LocksState /\ UNCHANGED habits
  BY <1>t, <1>n, <1>r, <1>h, <1>19, LocksStateDoes DEF GamePlace, HookNames, LockInv
<1>20. CASE YieldsState /\ UNCHANGED habits
  BY <1>t, <1>n, <1>r, <1>h, <1>20, YieldsStateDoes DEF GamePlace, HookNames, LockInv
<1>21. CASE RegainsState /\ UNCHANGED habits
  BY <1>t, <1>n, <1>r, <1>h, <1>21, RegainsStateDoes DEF GamePlace, HookNames, LockInv
<1>22. CASE CopiesState /\ UNCHANGED habits
  BY <1>t, <1>n, <1>r, <1>h, <1>22, CopiesStateDoes DEF GamePlace, HookNames, LockInv
<1>23. CASE ReleasesGame /\ UNCHANGED habits
  BY <1>t, <1>n, <1>r, <1>h, <1>23, ReleasesGameDoes DEF GamePlace, HookNames, LockInv
<1>24. CASE LooksUpCallback /\ UNCHANGED habits
  BY <1>t, <1>n, <1>r, <1>h, <1>24, LooksUpCallbackDoes DEF GamePlace, HookNames, LockInv
<1>25. CASE PutsWork /\ UNCHANGED habits
  BY <1>t, <1>n, <1>r, <1>h, <1>25, PutsWorkDoes DEF GamePlace, HookNames, LockInv
<1>26. CASE Records /\ UNCHANGED habits
  BY <1>t, <1>n, <1>r, <1>h, <1>26, RecordsDoes DEF GamePlace, HookNames, LockInv
<1>27. CASE Expires /\ UNCHANGED habits
  BY <1>t, <1>n, <1>r, <1>h, <1>27, ExpiresDoes DEF GamePlace, HookNames, LockInv
<1>28. ASSUME NEW h \in HookNames, GameReaches(h), UNCHANGED habits
      PROVE  GamePlace'
  <2>1. CASE h \in hooks
    <3>1. /\ gpc'.at = "enter" /\ gpc'.h = h /\ gpc'.i = 1 /\ UNCHANGED <<hooks, registered>>
          /\ (h = "exit" => "exit" \in habits) /\ h # "none" /\ hooks = HookNames
      BY <1>28, <2>1, <1>e, GameReachesDoes DEF HookNames
    <3> QED
      BY <1>28, <3>1 DEF GamePlace
  <2>2. CASE h \notin hooks
    <3>1. gpc' = gpc /\ UNCHANGED <<hooks, registered>>
      BY <1>28, <2>2, GameReachesDoes
    <3> QED
      BY <1>t, <1>r, <1>g, <1>28, <3>1 DEF GamePlace
  <2> QED
    BY <2>1, <2>2
<1>29. ASSUME NEW c \in CommandNames, Starts(c), UNCHANGED habits
      PROVE  GamePlace'
  BY <1>t, <1>n, <1>r, <1>h, <1>29, StartsDoes DEF GamePlace, HookNames, LockInv, CommandNames
<1>30. CASE UNCHANGED vars
  BY <1>t, <1>n, <1>r, <1>h, <1>30 DEF vars, moving, codeVars, locks, stateVars, stepVars,
     histVars, GamePlace, HookNames, LockInv
<1>31. CASE FailsToRecord /\ UNCHANGED habits
  BY <1>t, <1>n, <1>r, <1>h, <1>31, FailsToRecordDoes DEF GamePlace, HookNames, LockInv
<1> QED
  BY <1>1, <1>2, <1>3, <1>4, <1>5, <1>6, <1>7, <1>8, <1>9, <1>10, <1>11, <1>12, <1>13,
     <1>14, <1>15, <1>16, <1>17, <1>18, <1>19, <1>20, <1>21, <1>22, <1>23, <1>24, <1>25,
     <1>26, <1>27, <1>28, <1>29, <1>30, <1>31 DEF Next, InHook, Worker, CommandNames

(* Every step leaves each mutex with the thread that is inside. *)
LEMMA LockNext ==
  ASSUME GInv, [Next]_vars
  PROVE  LockInv'
<1>t. /\ CodeTypes /\ PlaceTypes /\ StateTypes /\ WorkTypes /\ GamePlace /\ LockInv /\ WorkerPlace
      /\ LoadInv /\ CodeInv /\ InOrder
  BY DEF GInv, HTypes, CodeInv
<1>n. NF \in 0..2 /\ NL \in 0..1 /\ NE \in 0..1
  BY <1>t, Lengths
<1>r. registered' = registered => NF' = NF /\ NL' = NL /\ NE' = NE
  BY DEF NF, NL, NE
<1>h. gpc.h \in HookNames \cup {"none"} /\ gpc.i \in Nat /\ wpc.i \in Nat
  BY <1>t DEF PlaceTypes, GameRecords, WorkerRecords
<1>g. gpc' = gpc => gpc'.at = gpc.at /\ gpc'.h = gpc.h /\ gpc'.i = gpc.i
  OBVIOUS
<1>w. wpc' = wpc => wpc'.at = wpc.at /\ wpc'.cmd = wpc.cmd /\ wpc'.i = wpc.i
  OBVIOUS
<1>o. registered' = registered => InOrder'
  BY <1>t DEF InOrder
<1>e. HookNames # {} /\ hooks \in {{}, HookNames}
  BY <1>t DEF HookNames, CodeTypes
<1>1. CASE EntersHook /\ UNCHANGED habits
  BY <1>t, <1>n, <1>r, <1>h, <1>1, EntersHookDoes DEF GamePlace, HookNames, LockInv,
     GameHolds, WorkerHolds, KeySet, Mutexes
<1>2. CASE LeavesHook /\ UNCHANGED habits
  BY <1>t, <1>n, <1>r, <1>h, <1>2, LeavesHookDoes DEF GamePlace, HookNames, LockInv,
     GameHolds, WorkerHolds, KeySet, Mutexes
<1>3. CASE CallsBack /\ UNCHANGED habits
  <2>1. /\ gpc.at = "next" /\ gpc.i <= Len(registered[gpc.h]) /\ gpc'.at = registered[gpc.h][gpc.i]
        /\ gpc'.h = gpc.h /\ gpc'.i = gpc.i /\ UNCHANGED <<registered, hooks>>
    BY <1>3, CallsBackDoes
  <2>2. /\ gpc.h = "frame" /\ gpc.i = 1 => gpc'.at = "cb_game_command"
        /\ gpc.h = "frame" /\ gpc.i = 2 => gpc'.at = "save_state"
        /\ gpc.h = "load" /\ gpc.i = 1 => gpc'.at = "cb_progress_update"
        /\ gpc.h = "exit" /\ gpc.i = 1 => gpc'.at = "gameloop_exit"
    BY <1>t, <2>1, Elements
  <2>3. /\ gpc.h = "frame" => gpc.i \in 1..NF /\ gpc.i \in 1..2
        /\ gpc.h = "load" => gpc.i = 1 /\ 1 <= NL
        /\ gpc.h = "exit" => gpc.i = 1 /\ 1 <= NE
        /\ gpc.h \in {"frame", "load", "exit"}
    BY <1>t, <1>n, <1>h, <2>1 DEF GamePlace, NF, NL, NE, HookNames
  <2>4. /\ mutex["storage"] = "none" /\ wpc' = wpc
        /\ \A m \in Mutexes : mutex'[m] = IF m = "storage" THEN "game" ELSE mutex[m]
    BY <1>3, CallsBackDoes
  <2> QED
    BY <1>t, <1>n, <1>r, <1>3, <2>1, <2>2, <2>3, <2>4 DEF LockInv, HookNames, GameHolds,
       WorkerHolds, KeySet, Mutexes
<1>4. CASE UpdatesProgress /\ UNCHANGED habits
  BY <1>t, <1>n, <1>r, <1>h, <1>4, UpdatesProgressDoes DEF GamePlace, HookNames, LockInv,
     GameHolds, WorkerHolds, KeySet, Mutexes
<1>5. CASE ParsesState /\ UNCHANGED habits
  BY <1>t, <1>n, <1>r, <1>h, <1>5, ParsesStateDoes DEF GamePlace, HookNames, LockInv,
     GameHolds, WorkerHolds, KeySet, Mutexes
<1>6. CASE PushesState /\ UNCHANGED habits
  BY <1>t, <1>n, <1>r, <1>h, <1>6, PushesStateDoes DEF GamePlace, HookNames, LockInv,
     GameHolds, WorkerHolds, KeySet, Mutexes
<1>7. CASE Unlocks /\ UNCHANGED habits
  BY <1>t, <1>n, <1>r, <1>h, <1>7, UnlocksDoes DEF GamePlace, HookNames, LockInv, GameHolds,
     WorkerHolds, KeySet, Mutexes
<1>8. CASE Pauses /\ UNCHANGED habits
  BY <1>t, <1>n, <1>r, <1>h, <1>8, PausesDoes DEF GamePlace, HookNames, LockInv, GameHolds,
     WorkerHolds, KeySet, Mutexes
<1>9. CASE Resumes /\ UNCHANGED habits
  BY <1>t, <1>n, <1>r, <1>h, <1>9, ResumesDoes DEF GamePlace, HookNames, LockInv, GameHolds,
     WorkerHolds, KeySet, Mutexes
<1>10. CASE RunsWork /\ UNCHANGED habits
  BY <1>t, <1>n, <1>r, <1>h, <1>10, RunsWorkDoes DEF GamePlace, HookNames, LockInv, GameHolds,
     WorkerHolds, KeySet, Mutexes
<1>11. CASE ExitsGame /\ UNCHANGED habits
  BY <1>t, <1>n, <1>r, <1>h, <1>11, ExitsGameDoes, Exited DEF GamePlace, HookNames, LockInv,
     GameHolds, WorkerHolds, KeySet, Mutexes
<1>12. CASE SuspendsThreads /\ UNCHANGED habits
  BY <1>t, <1>n, <1>r, <1>h, <1>12, SuspendsThreadsDoes DEF GamePlace, HookNames, LockInv,
     GameHolds, WorkerHolds, KeySet, Mutexes
<1>13. CASE CreatesHooks /\ UNCHANGED habits
  BY <1>t, <1>n, <1>r, <1>h, <1>13, CreatesHooksDoes DEF GamePlace, HookNames, LockInv,
     GameHolds, WorkerHolds, KeySet, Mutexes
<1>14. CASE InitCallbacks /\ UNCHANGED habits
  BY <1>t, <1>n, <1>r, <1>h, <1>14, InitCallbacksDoes DEF GamePlace, HookNames, LockInv,
     GameHolds, WorkerHolds, KeySet, Mutexes
<1>15. CASE LocksHooks /\ UNCHANGED habits
  BY <1>t, <1>n, <1>r, <1>h, <1>15, LocksHooksDoes DEF GamePlace, HookNames, LockInv,
     GameHolds, WorkerHolds, KeySet, Mutexes
<1>16. CASE EndsAdding /\ UNCHANGED habits
  BY <1>t, <1>n, <1>r, <1>h, <1>16, EndsAddingDoes DEF GamePlace, HookNames, LockInv,
     GameHolds, WorkerHolds, KeySet, Mutexes, WorkerPlace, Loads
<1>17. CASE AddsCallback /\ UNCHANGED habits
  BY <1>t, <1>n, <1>r, <1>h, <1>17, AddsCallbackDoes, Added DEF GamePlace, HookNames, LockInv,
     GameHolds, WorkerHolds, KeySet, Mutexes
<1>18. CASE Configures /\ UNCHANGED habits
  BY <1>t, <1>n, <1>r, <1>h, <1>18, ConfiguresDoes DEF GamePlace, HookNames, LockInv,
     GameHolds, WorkerHolds, KeySet, Mutexes
<1>19. CASE LocksState /\ UNCHANGED habits
  BY <1>t, <1>n, <1>r, <1>h, <1>19, LocksStateDoes DEF GamePlace, HookNames, LockInv,
     GameHolds, WorkerHolds, KeySet, Mutexes
<1>20. CASE YieldsState /\ UNCHANGED habits
  BY <1>t, <1>n, <1>r, <1>h, <1>20, YieldsStateDoes DEF GamePlace, HookNames, LockInv,
     GameHolds, WorkerHolds, KeySet, Mutexes
<1>21. CASE RegainsState /\ UNCHANGED habits
  BY <1>t, <1>n, <1>r, <1>h, <1>21, RegainsStateDoes DEF GamePlace, HookNames, LockInv,
     GameHolds, WorkerHolds, KeySet, Mutexes
<1>22. CASE CopiesState /\ UNCHANGED habits
  BY <1>t, <1>n, <1>r, <1>h, <1>22, CopiesStateDoes DEF GamePlace, HookNames, LockInv,
     GameHolds, WorkerHolds, KeySet, Mutexes
<1>23. CASE ReleasesGame /\ UNCHANGED habits
  BY <1>t, <1>n, <1>r, <1>h, <1>23, ReleasesGameDoes DEF GamePlace, HookNames, LockInv,
     GameHolds, WorkerHolds, KeySet, Mutexes
<1>24. CASE LooksUpCallback /\ UNCHANGED habits
  BY <1>t, <1>n, <1>r, <1>h, <1>24, LooksUpCallbackDoes DEF GamePlace, HookNames, LockInv,
     GameHolds, WorkerHolds, KeySet, Mutexes
<1>25. CASE PutsWork /\ UNCHANGED habits
  BY <1>t, <1>n, <1>r, <1>h, <1>25, PutsWorkDoes DEF GamePlace, HookNames, LockInv, GameHolds,
     WorkerHolds, KeySet, Mutexes
<1>26. CASE Records /\ UNCHANGED habits
  BY <1>t, <1>n, <1>r, <1>h, <1>26, RecordsDoes DEF GamePlace, HookNames, LockInv, GameHolds,
     WorkerHolds, KeySet, Mutexes
<1>27. CASE Expires /\ UNCHANGED habits
  BY <1>t, <1>n, <1>r, <1>h, <1>27, ExpiresDoes DEF GamePlace, HookNames, LockInv, GameHolds,
     WorkerHolds, KeySet, Mutexes
<1>28. ASSUME NEW h \in HookNames, GameReaches(h), UNCHANGED habits
      PROVE  LockInv'
  BY <1>t, <1>n, <1>r, <1>h, <1>28, GameReachesDoes DEF GamePlace, HookNames, LockInv,
     GameHolds, WorkerHolds, KeySet, Mutexes, CodeTypes
<1>29. ASSUME NEW c \in CommandNames, Starts(c), UNCHANGED habits
      PROVE  LockInv'
  BY <1>t, <1>n, <1>r, <1>h, <1>29, StartsDoes DEF GamePlace, HookNames, LockInv, GameHolds,
     WorkerHolds, KeySet, Mutexes, CommandNames
<1>30. CASE UNCHANGED vars
  BY <1>t, <1>n, <1>r, <1>h, <1>30 DEF vars, moving, codeVars, locks, stateVars, stepVars,
     histVars, GamePlace, HookNames, LockInv, GameHolds, WorkerHolds, KeySet, Mutexes
<1>31. CASE FailsToRecord /\ UNCHANGED habits
  BY <1>t, <1>n, <1>r, <1>h, <1>31, FailsToRecordDoes DEF GamePlace, HookNames, LockInv, GameHolds,
     WorkerHolds, KeySet, Mutexes
<1> QED
  BY <1>1, <1>2, <1>3, <1>4, <1>5, <1>6, <1>7, <1>8, <1>9, <1>10, <1>11, <1>12, <1>13,
     <1>14, <1>15, <1>16, <1>17, <1>18, <1>19, <1>20, <1>21, <1>22, <1>23, <1>24, <1>25,
     <1>26, <1>27, <1>28, <1>29, <1>30, <1>31 DEF Next, InHook, Worker, CommandNames

(* Every step keeps what the worker relies on. *)
LEMMA WorkerPlaceNext ==
  ASSUME GInv, [Next]_vars
  PROVE  WorkerPlace'
<1>t. /\ CodeTypes /\ PlaceTypes /\ StateTypes /\ WorkTypes /\ GamePlace /\ LockInv /\ WorkerPlace
      /\ LoadInv /\ CodeInv /\ InOrder
  BY DEF GInv, HTypes, CodeInv
<1>n. NF \in 0..2 /\ NL \in 0..1 /\ NE \in 0..1
  BY <1>t, Lengths
<1>r. registered' = registered => NF' = NF /\ NL' = NL /\ NE' = NE
  BY DEF NF, NL, NE
<1>h. gpc.h \in HookNames \cup {"none"} /\ gpc.i \in Nat /\ wpc.i \in Nat
  BY <1>t DEF PlaceTypes, GameRecords, WorkerRecords
<1>g. gpc' = gpc => gpc'.at = gpc.at /\ gpc'.h = gpc.h /\ gpc'.i = gpc.i
  OBVIOUS
<1>w. wpc' = wpc => wpc'.at = wpc.at /\ wpc'.cmd = wpc.cmd /\ wpc'.i = wpc.i
  OBVIOUS
<1>o. registered' = registered => InOrder'
  BY <1>t DEF InOrder
<1>e. HookNames # {} /\ hooks \in {{}, HookNames}
  BY <1>t DEF HookNames, CodeTypes
<1>1. CASE EntersHook /\ UNCHANGED habits
  BY <1>t, <1>n, <1>r, <1>h, <1>g, <1>w, <1>o, <1>e, <1>1, EntersHookDoes DEF GamePlace,
     LockInv, WorkerPlace, LoadInv, CodeInv, Loads, GameHolds, WorkerHolds, KeySet
<1>2. CASE LeavesHook /\ UNCHANGED habits
  BY <1>t, <1>n, <1>r, <1>h, <1>g, <1>w, <1>o, <1>e, <1>2, LeavesHookDoes DEF GamePlace,
     LockInv, WorkerPlace, LoadInv, CodeInv, Loads, GameHolds, WorkerHolds, KeySet
<1>3. CASE CallsBack /\ UNCHANGED habits
  <2>1. /\ gpc.at = "next" /\ gpc.i <= Len(registered[gpc.h]) /\ gpc'.at = registered[gpc.h][gpc.i]
        /\ gpc'.h = gpc.h /\ gpc'.i = gpc.i /\ UNCHANGED <<registered, hooks>>
    BY <1>3, CallsBackDoes
  <2>2. /\ gpc.h = "frame" /\ gpc.i = 1 => gpc'.at = "cb_game_command"
        /\ gpc.h = "frame" /\ gpc.i = 2 => gpc'.at = "save_state"
        /\ gpc.h = "load" /\ gpc.i = 1 => gpc'.at = "cb_progress_update"
        /\ gpc.h = "exit" /\ gpc.i = 1 => gpc'.at = "gameloop_exit"
    BY <1>t, <2>1, Elements
  <2>3. /\ gpc.h = "frame" => gpc.i \in 1..NF /\ gpc.i \in 1..2
        /\ gpc.h = "load" => gpc.i = 1 /\ 1 <= NL
        /\ gpc.h = "exit" => gpc.i = 1 /\ 1 <= NE
        /\ gpc.h \in {"frame", "load", "exit"}
    BY <1>t, <1>n, <1>h, <2>1 DEF GamePlace, NF, NL, NE, HookNames
  <2>4. gpc'.at \in KeySet
    BY <2>2, <2>3 DEF KeySet
  <2> QED
    BY <1>t, <1>n, <1>r, <1>h, <1>g, <1>w, <1>o, <1>e, <1>3, <2>4, CallsBackDoes DEF
       GamePlace, LockInv, WorkerPlace, LoadInv, CodeInv, Loads, GameHolds, WorkerHolds,
       KeySet
<1>4. CASE UpdatesProgress /\ UNCHANGED habits
  BY <1>t, <1>n, <1>r, <1>h, <1>g, <1>w, <1>o, <1>e, <1>4, UpdatesProgressDoes DEF GamePlace,
     LockInv, WorkerPlace, LoadInv, CodeInv, Loads, GameHolds, WorkerHolds, KeySet
<1>5. CASE ParsesState /\ UNCHANGED habits
  BY <1>t, <1>n, <1>r, <1>h, <1>g, <1>w, <1>o, <1>e, <1>5, ParsesStateDoes DEF GamePlace,
     LockInv, WorkerPlace, LoadInv, CodeInv, Loads, GameHolds, WorkerHolds, KeySet
<1>6. CASE PushesState /\ UNCHANGED habits
  BY <1>t, <1>n, <1>r, <1>h, <1>g, <1>w, <1>o, <1>e, <1>6, PushesStateDoes DEF GamePlace,
     LockInv, WorkerPlace, LoadInv, CodeInv, Loads, GameHolds, WorkerHolds, KeySet
<1>7. CASE Unlocks /\ UNCHANGED habits
  BY <1>t, <1>n, <1>r, <1>h, <1>g, <1>w, <1>o, <1>e, <1>7, UnlocksDoes DEF GamePlace, LockInv,
     WorkerPlace, LoadInv, CodeInv, Loads, GameHolds, WorkerHolds, KeySet
<1>8. CASE Pauses /\ UNCHANGED habits
  BY <1>t, <1>n, <1>r, <1>h, <1>g, <1>w, <1>o, <1>e, <1>8, PausesDoes DEF GamePlace, LockInv,
     WorkerPlace, LoadInv, CodeInv, Loads, GameHolds, WorkerHolds, KeySet
<1>9. CASE Resumes /\ UNCHANGED habits
  BY <1>t, <1>n, <1>r, <1>h, <1>g, <1>w, <1>o, <1>e, <1>9, ResumesDoes DEF GamePlace, LockInv,
     WorkerPlace, LoadInv, CodeInv, Loads, GameHolds, WorkerHolds, KeySet
<1>10. CASE RunsWork /\ UNCHANGED habits
  BY <1>t, <1>n, <1>r, <1>h, <1>g, <1>w, <1>o, <1>e, <1>10, RunsWorkDoes DEF GamePlace,
     LockInv, WorkerPlace, LoadInv, CodeInv, Loads, GameHolds, WorkerHolds, KeySet
<1>11. CASE ExitsGame /\ UNCHANGED habits
  BY <1>t, <1>n, <1>r, <1>h, <1>g, <1>w, <1>o, <1>e, <1>11, ExitsGameDoes, Exited DEF
     GamePlace, LockInv, WorkerPlace, LoadInv, CodeInv, Loads, GameHolds, WorkerHolds, KeySet
<1>12. CASE SuspendsThreads /\ UNCHANGED habits
  BY <1>t, <1>n, <1>r, <1>h, <1>g, <1>w, <1>o, <1>e, <1>12, SuspendsThreadsDoes DEF GamePlace,
     LockInv, WorkerPlace, LoadInv, CodeInv, Loads, GameHolds, WorkerHolds, KeySet
<1>13. CASE CreatesHooks /\ UNCHANGED habits
  BY <1>t, <1>n, <1>r, <1>h, <1>g, <1>w, <1>o, <1>e, <1>13, CreatesHooksDoes DEF GamePlace,
     LockInv, WorkerPlace, LoadInv, CodeInv, Loads, GameHolds, WorkerHolds, KeySet
<1>14. CASE InitCallbacks /\ UNCHANGED habits
  BY <1>t, <1>n, <1>r, <1>h, <1>g, <1>w, <1>o, <1>e, <1>14, InitCallbacksDoes DEF GamePlace,
     LockInv, WorkerPlace, LoadInv, CodeInv, Loads, GameHolds, WorkerHolds, KeySet
<1>15. CASE LocksHooks /\ UNCHANGED habits
  BY <1>t, <1>n, <1>r, <1>h, <1>g, <1>w, <1>o, <1>e, <1>15, LocksHooksDoes DEF GamePlace,
     LockInv, WorkerPlace, LoadInv, CodeInv, Loads, GameHolds, WorkerHolds, KeySet
<1>16. CASE EndsAdding /\ UNCHANGED habits
  BY <1>t, <1>n, <1>r, <1>h, <1>g, <1>w, <1>o, <1>e, <1>16, EndsAddingDoes DEF GamePlace,
     LockInv, WorkerPlace, LoadInv, CodeInv, Loads, GameHolds, WorkerHolds, KeySet
<1>17. CASE AddsCallback /\ UNCHANGED habits
  BY <1>t, <1>n, <1>r, <1>h, <1>g, <1>w, <1>o, <1>e, <1>17, AddsCallbackDoes, Added DEF
     GamePlace, LockInv, WorkerPlace, LoadInv, CodeInv, Loads, GameHolds, WorkerHolds, KeySet
<1>18. CASE Configures /\ UNCHANGED habits
  BY <1>t, <1>n, <1>r, <1>h, <1>g, <1>w, <1>o, <1>e, <1>18, ConfiguresDoes DEF GamePlace,
     LockInv, WorkerPlace, LoadInv, CodeInv, Loads, GameHolds, WorkerHolds, KeySet
<1>19. CASE LocksState /\ UNCHANGED habits
  BY <1>t, <1>n, <1>r, <1>h, <1>g, <1>w, <1>o, <1>e, <1>19, LocksStateDoes DEF GamePlace,
     LockInv, WorkerPlace, LoadInv, CodeInv, Loads, GameHolds, WorkerHolds, KeySet
<1>20. CASE YieldsState /\ UNCHANGED habits
  BY <1>t, <1>n, <1>r, <1>h, <1>g, <1>w, <1>o, <1>e, <1>20, YieldsStateDoes DEF GamePlace,
     LockInv, WorkerPlace, LoadInv, CodeInv, Loads, GameHolds, WorkerHolds, KeySet
<1>21. CASE RegainsState /\ UNCHANGED habits
  BY <1>t, <1>n, <1>r, <1>h, <1>g, <1>w, <1>o, <1>e, <1>21, RegainsStateDoes DEF GamePlace,
     LockInv, WorkerPlace, LoadInv, CodeInv, Loads, GameHolds, WorkerHolds, KeySet
<1>22. CASE CopiesState /\ UNCHANGED habits
  BY <1>t, <1>n, <1>r, <1>h, <1>g, <1>w, <1>o, <1>e, <1>22, CopiesStateDoes DEF GamePlace,
     LockInv, WorkerPlace, LoadInv, CodeInv, Loads, GameHolds, WorkerHolds, KeySet
<1>23. CASE ReleasesGame /\ UNCHANGED habits
  BY <1>t, <1>n, <1>r, <1>h, <1>g, <1>w, <1>o, <1>e, <1>23, ReleasesGameDoes DEF GamePlace,
     LockInv, WorkerPlace, LoadInv, CodeInv, Loads, GameHolds, WorkerHolds, KeySet
<1>24. CASE LooksUpCallback /\ UNCHANGED habits
  BY <1>t, <1>n, <1>r, <1>h, <1>g, <1>w, <1>o, <1>e, <1>24, LooksUpCallbackDoes DEF GamePlace,
     LockInv, WorkerPlace, LoadInv, CodeInv, Loads, GameHolds, WorkerHolds, KeySet
<1>25. CASE PutsWork /\ UNCHANGED habits
  BY <1>t, <1>n, <1>r, <1>h, <1>g, <1>w, <1>o, <1>e, <1>25, PutsWorkDoes DEF GamePlace,
     LockInv, WorkerPlace, LoadInv, CodeInv, Loads, GameHolds, WorkerHolds, KeySet
<1>26. CASE Records /\ UNCHANGED habits
  BY <1>t, <1>n, <1>r, <1>h, <1>g, <1>w, <1>o, <1>e, <1>26, RecordsDoes DEF GamePlace,
     LockInv, WorkerPlace, LoadInv, CodeInv, Loads, GameHolds, WorkerHolds, KeySet
<1>27. CASE Expires /\ UNCHANGED habits
  BY <1>t, <1>n, <1>r, <1>h, <1>g, <1>w, <1>o, <1>e, <1>27, ExpiresDoes DEF GamePlace,
     LockInv, WorkerPlace, LoadInv, CodeInv, Loads, GameHolds, WorkerHolds, KeySet
<1>28. ASSUME NEW h \in HookNames, GameReaches(h), UNCHANGED habits
      PROVE  WorkerPlace'
  BY <1>t, <1>n, <1>r, <1>h, <1>g, <1>w, <1>o, <1>e, <1>28, GameReachesDoes DEF GamePlace,
     LockInv, WorkerPlace, LoadInv, CodeInv, Loads, GameHolds, WorkerHolds, KeySet
<1>29. ASSUME NEW c \in CommandNames, Starts(c), UNCHANGED habits
      PROVE  WorkerPlace'
  BY <1>t, <1>n, <1>r, <1>h, <1>g, <1>w, <1>o, <1>e, <1>29, StartsDoes DEF GamePlace, LockInv,
     WorkerPlace, LoadInv, CodeInv, Loads, GameHolds, WorkerHolds, KeySet, CommandNames
<1>30. CASE UNCHANGED vars
  BY <1>t, <1>n, <1>r, <1>h, <1>g, <1>w, <1>o, <1>e, <1>30 DEF vars, moving, codeVars, locks,
     stateVars, stepVars, histVars, GamePlace, LockInv, WorkerPlace, LoadInv, CodeInv, Loads,
     GameHolds, WorkerHolds, KeySet
<1>31. CASE FailsToRecord /\ UNCHANGED habits
  BY <1>t, <1>n, <1>r, <1>h, <1>g, <1>w, <1>o, <1>e, <1>31, FailsToRecordDoes DEF GamePlace,
     LockInv, WorkerPlace, LoadInv, CodeInv, Loads, GameHolds, WorkerHolds, KeySet
<1> QED
  BY <1>1, <1>2, <1>3, <1>4, <1>5, <1>6, <1>7, <1>8, <1>9, <1>10, <1>11, <1>12, <1>13,
     <1>14, <1>15, <1>16, <1>17, <1>18, <1>19, <1>20, <1>21, <1>22, <1>23, <1>24, <1>25,
     <1>26, <1>27, <1>28, <1>29, <1>30, <1>31 DEF Next, InHook, Worker, CommandNames

(* Every step keeps the game at its start until the service has started. *)
LEMMA LoadNext ==
  ASSUME GInv, [Next]_vars
  PROVE  LoadInv'
<1>t. /\ CodeTypes /\ PlaceTypes /\ StateTypes /\ WorkTypes /\ GamePlace /\ LockInv /\ WorkerPlace
      /\ LoadInv /\ CodeInv /\ InOrder
  BY DEF GInv, HTypes, CodeInv
<1>n. NF \in 0..2 /\ NL \in 0..1 /\ NE \in 0..1
  BY <1>t, Lengths
<1>r. registered' = registered => NF' = NF /\ NL' = NL /\ NE' = NE
  BY DEF NF, NL, NE
<1>h. gpc.h \in HookNames \cup {"none"} /\ gpc.i \in Nat /\ wpc.i \in Nat
  BY <1>t DEF PlaceTypes, GameRecords, WorkerRecords
<1>g. gpc' = gpc => gpc'.at = gpc.at /\ gpc'.h = gpc.h /\ gpc'.i = gpc.i
  OBVIOUS
<1>w. wpc' = wpc => wpc'.at = wpc.at /\ wpc'.cmd = wpc.cmd /\ wpc'.i = wpc.i
  OBVIOUS
<1>o. registered' = registered => InOrder'
  BY <1>t DEF InOrder
<1>e. HookNames # {} /\ hooks \in {{}, HookNames}
  BY <1>t DEF HookNames, CodeTypes
<1>1. CASE EntersHook /\ UNCHANGED habits
  BY <1>t, <1>n, <1>r, <1>h, <1>g, <1>w, <1>o, <1>e, <1>1, EntersHookDoes DEF GamePlace,
     LockInv, WorkerPlace, LoadInv, CodeInv, Loads, GameHolds, WorkerHolds, KeySet
<1>2. CASE LeavesHook /\ UNCHANGED habits
  BY <1>t, <1>n, <1>r, <1>h, <1>g, <1>w, <1>o, <1>e, <1>2, LeavesHookDoes DEF GamePlace,
     LockInv, WorkerPlace, LoadInv, CodeInv, Loads, GameHolds, WorkerHolds, KeySet
<1>3. CASE CallsBack /\ UNCHANGED habits
  <2>1. /\ gpc.at = "next" /\ gpc.i <= Len(registered[gpc.h]) /\ gpc'.at = registered[gpc.h][gpc.i]
        /\ gpc'.h = gpc.h /\ gpc'.i = gpc.i /\ UNCHANGED <<registered, hooks>>
    BY <1>3, CallsBackDoes
  <2>2. /\ gpc.h = "frame" /\ gpc.i = 1 => gpc'.at = "cb_game_command"
        /\ gpc.h = "frame" /\ gpc.i = 2 => gpc'.at = "save_state"
        /\ gpc.h = "load" /\ gpc.i = 1 => gpc'.at = "cb_progress_update"
        /\ gpc.h = "exit" /\ gpc.i = 1 => gpc'.at = "gameloop_exit"
    BY <1>t, <2>1, Elements
  <2>3. /\ gpc.h = "frame" => gpc.i \in 1..NF /\ gpc.i \in 1..2
        /\ gpc.h = "load" => gpc.i = 1 /\ 1 <= NL
        /\ gpc.h = "exit" => gpc.i = 1 /\ 1 <= NE
        /\ gpc.h \in {"frame", "load", "exit"}
    BY <1>t, <1>n, <1>h, <2>1 DEF GamePlace, NF, NL, NE, HookNames
  <2>4. gpc'.at \in KeySet
    BY <2>2, <2>3 DEF KeySet
  <2> QED
    BY <1>t, <1>n, <1>r, <1>h, <1>g, <1>w, <1>o, <1>e, <1>3, <2>4, CallsBackDoes DEF
       GamePlace, LockInv, WorkerPlace, LoadInv, CodeInv, Loads, GameHolds, WorkerHolds,
       KeySet
<1>4. CASE UpdatesProgress /\ UNCHANGED habits
  BY <1>t, <1>n, <1>r, <1>h, <1>g, <1>w, <1>o, <1>e, <1>4, UpdatesProgressDoes DEF GamePlace,
     LockInv, WorkerPlace, LoadInv, CodeInv, Loads, GameHolds, WorkerHolds, KeySet
<1>5. CASE ParsesState /\ UNCHANGED habits
  BY <1>t, <1>n, <1>r, <1>h, <1>g, <1>w, <1>o, <1>e, <1>5, ParsesStateDoes DEF GamePlace,
     LockInv, WorkerPlace, LoadInv, CodeInv, Loads, GameHolds, WorkerHolds, KeySet
<1>6. CASE PushesState /\ UNCHANGED habits
  BY <1>t, <1>n, <1>r, <1>h, <1>g, <1>w, <1>o, <1>e, <1>6, PushesStateDoes DEF GamePlace,
     LockInv, WorkerPlace, LoadInv, CodeInv, Loads, GameHolds, WorkerHolds, KeySet
<1>7. CASE Unlocks /\ UNCHANGED habits
  BY <1>t, <1>n, <1>r, <1>h, <1>g, <1>w, <1>o, <1>e, <1>7, UnlocksDoes DEF GamePlace, LockInv,
     WorkerPlace, LoadInv, CodeInv, Loads, GameHolds, WorkerHolds, KeySet
<1>8. CASE Pauses /\ UNCHANGED habits
  BY <1>t, <1>n, <1>r, <1>h, <1>g, <1>w, <1>o, <1>e, <1>8, PausesDoes DEF GamePlace, LockInv,
     WorkerPlace, LoadInv, CodeInv, Loads, GameHolds, WorkerHolds, KeySet
<1>9. CASE Resumes /\ UNCHANGED habits
  BY <1>t, <1>n, <1>r, <1>h, <1>g, <1>w, <1>o, <1>e, <1>9, ResumesDoes DEF GamePlace, LockInv,
     WorkerPlace, LoadInv, CodeInv, Loads, GameHolds, WorkerHolds, KeySet
<1>10. CASE RunsWork /\ UNCHANGED habits
  BY <1>t, <1>n, <1>r, <1>h, <1>g, <1>w, <1>o, <1>e, <1>10, RunsWorkDoes DEF GamePlace,
     LockInv, WorkerPlace, LoadInv, CodeInv, Loads, GameHolds, WorkerHolds, KeySet
<1>11. CASE ExitsGame /\ UNCHANGED habits
  BY <1>t, <1>n, <1>r, <1>h, <1>g, <1>w, <1>o, <1>e, <1>11, ExitsGameDoes, Exited DEF
     GamePlace, LockInv, WorkerPlace, LoadInv, CodeInv, Loads, GameHolds, WorkerHolds, KeySet
<1>12. CASE SuspendsThreads /\ UNCHANGED habits
  BY <1>t, <1>n, <1>r, <1>h, <1>g, <1>w, <1>o, <1>e, <1>12, SuspendsThreadsDoes DEF GamePlace,
     LockInv, WorkerPlace, LoadInv, CodeInv, Loads, GameHolds, WorkerHolds, KeySet
<1>13. CASE CreatesHooks /\ UNCHANGED habits
  BY <1>t, <1>n, <1>r, <1>h, <1>g, <1>w, <1>o, <1>e, <1>13, CreatesHooksDoes DEF GamePlace,
     LockInv, WorkerPlace, LoadInv, CodeInv, Loads, GameHolds, WorkerHolds, KeySet
<1>14. CASE InitCallbacks /\ UNCHANGED habits
  BY <1>t, <1>n, <1>r, <1>h, <1>g, <1>w, <1>o, <1>e, <1>14, InitCallbacksDoes DEF GamePlace,
     LockInv, WorkerPlace, LoadInv, CodeInv, Loads, GameHolds, WorkerHolds, KeySet
<1>15. CASE LocksHooks /\ UNCHANGED habits
  BY <1>t, <1>n, <1>r, <1>h, <1>g, <1>w, <1>o, <1>e, <1>15, LocksHooksDoes DEF GamePlace,
     LockInv, WorkerPlace, LoadInv, CodeInv, Loads, GameHolds, WorkerHolds, KeySet
<1>16. CASE EndsAdding /\ UNCHANGED habits
  BY <1>t, <1>n, <1>r, <1>h, <1>g, <1>w, <1>o, <1>e, <1>16, EndsAddingDoes DEF GamePlace,
     LockInv, WorkerPlace, LoadInv, CodeInv, Loads, GameHolds, WorkerHolds, KeySet
<1>17. CASE AddsCallback /\ UNCHANGED habits
  BY <1>t, <1>n, <1>r, <1>h, <1>g, <1>w, <1>o, <1>e, <1>17, AddsCallbackDoes, Added DEF
     GamePlace, LockInv, WorkerPlace, LoadInv, CodeInv, Loads, GameHolds, WorkerHolds, KeySet
<1>18. CASE Configures /\ UNCHANGED habits
  BY <1>t, <1>n, <1>r, <1>h, <1>g, <1>w, <1>o, <1>e, <1>18, ConfiguresDoes DEF GamePlace,
     LockInv, WorkerPlace, LoadInv, CodeInv, Loads, GameHolds, WorkerHolds, KeySet
<1>19. CASE LocksState /\ UNCHANGED habits
  BY <1>t, <1>n, <1>r, <1>h, <1>g, <1>w, <1>o, <1>e, <1>19, LocksStateDoes DEF GamePlace,
     LockInv, WorkerPlace, LoadInv, CodeInv, Loads, GameHolds, WorkerHolds, KeySet
<1>20. CASE YieldsState /\ UNCHANGED habits
  BY <1>t, <1>n, <1>r, <1>h, <1>g, <1>w, <1>o, <1>e, <1>20, YieldsStateDoes DEF GamePlace,
     LockInv, WorkerPlace, LoadInv, CodeInv, Loads, GameHolds, WorkerHolds, KeySet
<1>21. CASE RegainsState /\ UNCHANGED habits
  BY <1>t, <1>n, <1>r, <1>h, <1>g, <1>w, <1>o, <1>e, <1>21, RegainsStateDoes DEF GamePlace,
     LockInv, WorkerPlace, LoadInv, CodeInv, Loads, GameHolds, WorkerHolds, KeySet
<1>22. CASE CopiesState /\ UNCHANGED habits
  BY <1>t, <1>n, <1>r, <1>h, <1>g, <1>w, <1>o, <1>e, <1>22, CopiesStateDoes DEF GamePlace,
     LockInv, WorkerPlace, LoadInv, CodeInv, Loads, GameHolds, WorkerHolds, KeySet
<1>23. CASE ReleasesGame /\ UNCHANGED habits
  BY <1>t, <1>n, <1>r, <1>h, <1>g, <1>w, <1>o, <1>e, <1>23, ReleasesGameDoes DEF GamePlace,
     LockInv, WorkerPlace, LoadInv, CodeInv, Loads, GameHolds, WorkerHolds, KeySet
<1>24. CASE LooksUpCallback /\ UNCHANGED habits
  BY <1>t, <1>n, <1>r, <1>h, <1>g, <1>w, <1>o, <1>e, <1>24, LooksUpCallbackDoes DEF GamePlace,
     LockInv, WorkerPlace, LoadInv, CodeInv, Loads, GameHolds, WorkerHolds, KeySet
<1>25. CASE PutsWork /\ UNCHANGED habits
  BY <1>t, <1>n, <1>r, <1>h, <1>g, <1>w, <1>o, <1>e, <1>25, PutsWorkDoes DEF GamePlace,
     LockInv, WorkerPlace, LoadInv, CodeInv, Loads, GameHolds, WorkerHolds, KeySet
<1>26. CASE Records /\ UNCHANGED habits
  BY <1>t, <1>n, <1>r, <1>h, <1>g, <1>w, <1>o, <1>e, <1>26, RecordsDoes DEF GamePlace,
     LockInv, WorkerPlace, LoadInv, CodeInv, Loads, GameHolds, WorkerHolds, KeySet
<1>27. CASE Expires /\ UNCHANGED habits
  BY <1>t, <1>n, <1>r, <1>h, <1>g, <1>w, <1>o, <1>e, <1>27, ExpiresDoes DEF GamePlace,
     LockInv, WorkerPlace, LoadInv, CodeInv, Loads, GameHolds, WorkerHolds, KeySet
<1>28. ASSUME NEW h \in HookNames, GameReaches(h), UNCHANGED habits
      PROVE  LoadInv'
  BY <1>t, <1>n, <1>r, <1>h, <1>g, <1>w, <1>o, <1>e, <1>28, GameReachesDoes DEF GamePlace,
     LockInv, WorkerPlace, LoadInv, CodeInv, Loads, GameHolds, WorkerHolds, KeySet
<1>29. ASSUME NEW c \in CommandNames, Starts(c), UNCHANGED habits
      PROVE  LoadInv'
  BY <1>t, <1>n, <1>r, <1>h, <1>g, <1>w, <1>o, <1>e, <1>29, StartsDoes DEF GamePlace, LockInv,
     WorkerPlace, LoadInv, CodeInv, Loads, GameHolds, WorkerHolds, KeySet, CommandNames
<1>30. CASE UNCHANGED vars
  BY <1>t, <1>n, <1>r, <1>h, <1>g, <1>w, <1>o, <1>e, <1>30 DEF vars, moving, codeVars, locks,
     stateVars, stepVars, histVars, GamePlace, LockInv, WorkerPlace, LoadInv, CodeInv, Loads,
     GameHolds, WorkerHolds, KeySet
<1>31. CASE FailsToRecord /\ UNCHANGED habits
  BY <1>t, <1>n, <1>r, <1>h, <1>g, <1>w, <1>o, <1>e, <1>31, FailsToRecordDoes DEF GamePlace,
     LockInv, WorkerPlace, LoadInv, CodeInv, Loads, GameHolds, WorkerHolds, KeySet
<1> QED
  BY <1>1, <1>2, <1>3, <1>4, <1>5, <1>6, <1>7, <1>8, <1>9, <1>10, <1>11, <1>12, <1>13,
     <1>14, <1>15, <1>16, <1>17, <1>18, <1>19, <1>20, <1>21, <1>22, <1>23, <1>24, <1>25,
     <1>26, <1>27, <1>28, <1>29, <1>30, <1>31 DEF Next, InHook, Worker, CommandNames

(* Before the game goes on CreateCallbacks ends only when it has added every *)
(* callback.                                                                 *)
LEMMA InitEnds ==
  ASSUME GInv, EndsAdding, wpc.cmd = "init"
  PROVE  NF = 2 /\ NL = 1 /\ NE = 1
<1>t. /\ CodeTypes /\ PlaceTypes /\ LoadInv /\ WorkerPlace /\ InOrder
  BY DEF GInv, HTypes, CodeInv
<1>1. wpc.at = "add" /\ ~MayAdd /\ Loads /\ hooks = HookNames /\ wpc.i \in 1..5
  BY <1>t, EndsAddingDoes DEF WorkerPlace, LoadInv
<1>2. /\ wpc.i = 1 => NF = 0
      /\ wpc.i = 2 => NL = 0
      /\ wpc.i = 3 => NE = 0
      /\ wpc.i = 4 => NF < 2
      /\ NF \in 0..2 /\ NL \in 0..1 /\ NE \in 0..1
  BY <1>t, <1>1, Lengths DEF LoadInv
<1>3. wpc.i \in 1..4 => ~Has(Keys[wpc.i]) /\ Keys[wpc.i] \in KeySet
  <2>1. wpc.i = 1 => ~Has(Keys[wpc.i]) /\ Keys[wpc.i] \in KeySet
    BY <1>2, KeyFacts, HasLengths DEF KeySet
  <2>2. wpc.i = 2 => ~Has(Keys[wpc.i]) /\ Keys[wpc.i] \in KeySet
    BY <1>2, KeyFacts, HasLengths DEF KeySet
  <2>3. wpc.i = 3 => ~Has(Keys[wpc.i]) /\ Keys[wpc.i] \in KeySet
    BY <1>2, KeyFacts, HasLengths DEF KeySet
  <2>4. wpc.i = 4 => ~Has(Keys[wpc.i]) /\ Keys[wpc.i] \in KeySet
    BY <1>2, KeyFacts, HasLengths DEF KeySet
  <2> QED
    BY <2>1, <2>2, <2>3, <2>4
<1>4. \A k \in KeySet : Target[k] \in HookNames
  BY KeyFacts DEF KeySet, HookNames
<1>5. wpc.i \in 1..4 => MayAdd
  <2>1. wpc.i \in 1..4 => wpc.i <= Len(Keys)
    BY KeyFacts
  <2>2. wpc.i \in 1..4 => Target[Keys[wpc.i]] \in hooks
    BY <1>1, <1>3, <1>4
  <2>3. wpc.i \in 1..4 => Keys[wpc.i] \notin ToSet(registered[Target[Keys[wpc.i]]])
    BY <1>t, <1>3, Registered
  <2> QED
    BY <2>1, <2>2, <2>3 DEF MayAdd, Adding
<1>6. wpc.i = 5
  BY <1>1, <1>5
<1> QED
  BY <1>t, <1>1, <1>2, <1>6 DEF WorkerPlace

(* remove_callback throws only after callbacks were created once more. *)
LEMMA RemoveThrows ==
  ASSUME GInv, ExitsGame, Unhooked # {}
  PROVE  {"repeat", "late"} \cap habits # {}
<1>t. /\ CodeTypes /\ CodeInv /\ InOrder
  BY DEF GInv, HTypes, CodeInv
<1>1. gpc.at = "gameloop_exit" /\ ~Loads
  BY ExitsGameDoes DEF Loads
<1>2. PICK k \in KeySet : /\ k \in callbacks /\ k # "gameloop_exit"
                          /\ k \notin ToSet(registered[Target[k]])
  BY <1>t DEF Unhooked, CodeTypes
<1>3. ~Has(k)
  BY <1>t, <1>2, Registered
<1>4. SUFFICES ASSUME {"repeat", "late"} \cap habits = {} PROVE FALSE
  OBVIOUS
<1>5. /\ "cb_game_command" \in callbacks => 1 <= NF
      /\ "save_state" \in callbacks => 2 <= NF
      /\ "cb_progress_update" \in callbacks => 1 <= NL
  BY <1>t, <1>1, <1>4 DEF CodeInv
<1> QED
  BY <1>2, <1>3, <1>5, HasLengths DEF KeySet

(* Every step keeps objects and registrations together. *)
LEMMA CodeNext ==
  ASSUME GInv, [Next]_vars
  PROVE  CodeInv'
<1>t. /\ CodeTypes /\ PlaceTypes /\ StateTypes /\ WorkTypes /\ GamePlace /\ LockInv /\ WorkerPlace
      /\ LoadInv /\ CodeInv /\ InOrder
  BY DEF GInv, HTypes, CodeInv
<1>n. NF \in 0..2 /\ NL \in 0..1 /\ NE \in 0..1
  BY <1>t, Lengths
<1>r. registered' = registered => NF' = NF /\ NL' = NL /\ NE' = NE
  BY DEF NF, NL, NE
<1>h. gpc.h \in HookNames \cup {"none"} /\ gpc.i \in Nat /\ wpc.i \in Nat
  BY <1>t DEF PlaceTypes, GameRecords, WorkerRecords
<1>g. gpc' = gpc => gpc'.at = gpc.at /\ gpc'.h = gpc.h /\ gpc'.i = gpc.i
  OBVIOUS
<1>w. wpc' = wpc => wpc'.at = wpc.at /\ wpc'.cmd = wpc.cmd /\ wpc'.i = wpc.i
  OBVIOUS
<1>o. registered' = registered => InOrder'
  BY <1>t DEF InOrder
<1>e. HookNames # {} /\ hooks \in {{}, HookNames}
  BY <1>t DEF HookNames, CodeTypes
<1>1. CASE EntersHook /\ UNCHANGED habits
  BY <1>t, <1>n, <1>r, <1>h, <1>g, <1>w, <1>o, <1>e, <1>1, EntersHookDoes DEF GamePlace,
     LockInv, WorkerPlace, LoadInv, CodeInv, Loads, GameHolds, WorkerHolds, KeySet
<1>2. CASE LeavesHook /\ UNCHANGED habits
  BY <1>t, <1>n, <1>r, <1>h, <1>g, <1>w, <1>o, <1>e, <1>2, LeavesHookDoes DEF GamePlace,
     LockInv, WorkerPlace, LoadInv, CodeInv, Loads, GameHolds, WorkerHolds, KeySet
<1>3. CASE CallsBack /\ UNCHANGED habits
  <2>1. /\ gpc.at = "next" /\ gpc.i <= Len(registered[gpc.h]) /\ gpc'.at = registered[gpc.h][gpc.i]
        /\ gpc'.h = gpc.h /\ gpc'.i = gpc.i /\ UNCHANGED <<registered, hooks>>
    BY <1>3, CallsBackDoes
  <2>2. /\ gpc.h = "frame" /\ gpc.i = 1 => gpc'.at = "cb_game_command"
        /\ gpc.h = "frame" /\ gpc.i = 2 => gpc'.at = "save_state"
        /\ gpc.h = "load" /\ gpc.i = 1 => gpc'.at = "cb_progress_update"
        /\ gpc.h = "exit" /\ gpc.i = 1 => gpc'.at = "gameloop_exit"
    BY <1>t, <2>1, Elements
  <2>3. /\ gpc.h = "frame" => gpc.i \in 1..NF /\ gpc.i \in 1..2
        /\ gpc.h = "load" => gpc.i = 1 /\ 1 <= NL
        /\ gpc.h = "exit" => gpc.i = 1 /\ 1 <= NE
        /\ gpc.h \in {"frame", "load", "exit"}
    BY <1>t, <1>n, <1>h, <2>1 DEF GamePlace, NF, NL, NE, HookNames
  <2>4. gpc'.at \in KeySet
    BY <2>2, <2>3 DEF KeySet
  <2> QED
    BY <1>t, <1>n, <1>r, <1>h, <1>g, <1>w, <1>o, <1>e, <1>3, <2>4, CallsBackDoes DEF
       GamePlace, LockInv, WorkerPlace, LoadInv, CodeInv, Loads, GameHolds, WorkerHolds,
       KeySet
<1>4. CASE UpdatesProgress /\ UNCHANGED habits
  BY <1>t, <1>n, <1>r, <1>h, <1>g, <1>w, <1>o, <1>e, <1>4, UpdatesProgressDoes DEF GamePlace,
     LockInv, WorkerPlace, LoadInv, CodeInv, Loads, GameHolds, WorkerHolds, KeySet
<1>5. CASE ParsesState /\ UNCHANGED habits
  BY <1>t, <1>n, <1>r, <1>h, <1>g, <1>w, <1>o, <1>e, <1>5, ParsesStateDoes DEF GamePlace,
     LockInv, WorkerPlace, LoadInv, CodeInv, Loads, GameHolds, WorkerHolds, KeySet
<1>6. CASE PushesState /\ UNCHANGED habits
  BY <1>t, <1>n, <1>r, <1>h, <1>g, <1>w, <1>o, <1>e, <1>6, PushesStateDoes DEF GamePlace,
     LockInv, WorkerPlace, LoadInv, CodeInv, Loads, GameHolds, WorkerHolds, KeySet
<1>7. CASE Unlocks /\ UNCHANGED habits
  BY <1>t, <1>n, <1>r, <1>h, <1>g, <1>w, <1>o, <1>e, <1>7, UnlocksDoes DEF GamePlace, LockInv,
     WorkerPlace, LoadInv, CodeInv, Loads, GameHolds, WorkerHolds, KeySet
<1>8. CASE Pauses /\ UNCHANGED habits
  BY <1>t, <1>n, <1>r, <1>h, <1>g, <1>w, <1>o, <1>e, <1>8, PausesDoes DEF GamePlace, LockInv,
     WorkerPlace, LoadInv, CodeInv, Loads, GameHolds, WorkerHolds, KeySet
<1>9. CASE Resumes /\ UNCHANGED habits
  BY <1>t, <1>n, <1>r, <1>h, <1>g, <1>w, <1>o, <1>e, <1>9, ResumesDoes DEF GamePlace, LockInv,
     WorkerPlace, LoadInv, CodeInv, Loads, GameHolds, WorkerHolds, KeySet
<1>10. CASE RunsWork /\ UNCHANGED habits
  BY <1>t, <1>n, <1>r, <1>h, <1>g, <1>w, <1>o, <1>e, <1>10, RunsWorkDoes DEF GamePlace,
     LockInv, WorkerPlace, LoadInv, CodeInv, Loads, GameHolds, WorkerHolds, KeySet
<1>11. CASE ExitsGame /\ UNCHANGED habits
  <2>1. /\ gpc.at = "gameloop_exit" /\ gpc'.at = "next" /\ died = "no" /\ 1 <= NE /\ gpc.h = "exit"
        /\ UNCHANGED <<wpc, hooks, saved>> /\ hooks = HookNames /\ "exit" \in habits
        /\ ~Loads /\ ~Loads'
    BY <1>t, <1>11, ExitsGameDoes DEF GamePlace, Loads
  <2>2. InOrder' /\ NE' = NE /\ died' \in {"remove_callback", died}
    BY <1>11, Exited
  <2>3. CASE died' = "remove_callback"
    <3>1. NF' = NF /\ NL' = NL /\ callbacks' = callbacks
      BY <1>11, <2>3, Exited
    <3>2. Unhooked # {}
      BY <1>11, <2>1, <2>3, ExitsGameDoes
    <3>3. {"repeat", "late"} \cap habits # {}
      BY <1>11, <3>2, RemoveThrows
    <3> QED
      BY <1>t, <1>w, <1>11, <2>1, <2>2, <2>3, <3>1, <3>3 DEF CodeInv
  <2>4. CASE died' = died
    <3>1. NF' = 0 /\ NL' = 0 /\ callbacks' = callbacks \cap {"gameloop_exit"}
      BY <1>11, <2>4, Exited
    <3> QED
      BY <1>t, <1>w, <1>11, <2>1, <2>2, <2>4, <3>1 DEF CodeInv
  <2> QED
    BY <2>2, <2>3, <2>4
<1>12. CASE SuspendsThreads /\ UNCHANGED habits
  BY <1>t, <1>n, <1>r, <1>h, <1>g, <1>w, <1>o, <1>e, <1>12, SuspendsThreadsDoes DEF GamePlace,
     LockInv, WorkerPlace, LoadInv, CodeInv, Loads, GameHolds, WorkerHolds, KeySet
<1>13. CASE CreatesHooks /\ UNCHANGED habits
  BY <1>t, <1>n, <1>r, <1>h, <1>g, <1>w, <1>o, <1>e, <1>13, CreatesHooksDoes DEF GamePlace,
     LockInv, WorkerPlace, LoadInv, CodeInv, Loads, GameHolds, WorkerHolds, KeySet
<1>14. CASE InitCallbacks /\ UNCHANGED habits
  BY <1>t, <1>n, <1>r, <1>h, <1>g, <1>w, <1>o, <1>e, <1>14, InitCallbacksDoes DEF GamePlace,
     LockInv, WorkerPlace, LoadInv, CodeInv, Loads, GameHolds, WorkerHolds, KeySet
<1>15. CASE LocksHooks /\ UNCHANGED habits
  BY <1>t, <1>n, <1>r, <1>h, <1>g, <1>w, <1>o, <1>e, <1>15, LocksHooksDoes DEF GamePlace,
     LockInv, WorkerPlace, LoadInv, CodeInv, Loads, GameHolds, WorkerHolds, KeySet
<1>16. CASE EndsAdding /\ UNCHANGED habits
  BY <1>t, <1>n, <1>r, <1>h, <1>g, <1>w, <1>o, <1>e, <1>16, EndsAddingDoes, InitEnds DEF
     GamePlace, LockInv, WorkerPlace, LoadInv, CodeInv, Loads, GameHolds, WorkerHolds, KeySet
<1>17. CASE AddsCallback /\ UNCHANGED habits
  BY <1>t, <1>n, <1>r, <1>h, <1>g, <1>w, <1>o, <1>e, <1>17, AddsCallbackDoes, Added DEF
     GamePlace, LockInv, WorkerPlace, LoadInv, CodeInv, Loads, GameHolds, WorkerHolds, KeySet
<1>18. CASE Configures /\ UNCHANGED habits
  BY <1>t, <1>n, <1>r, <1>h, <1>g, <1>w, <1>o, <1>e, <1>18, ConfiguresDoes DEF GamePlace,
     LockInv, WorkerPlace, LoadInv, CodeInv, Loads, GameHolds, WorkerHolds, KeySet
<1>19. CASE LocksState /\ UNCHANGED habits
  BY <1>t, <1>n, <1>r, <1>h, <1>g, <1>w, <1>o, <1>e, <1>19, LocksStateDoes DEF GamePlace,
     LockInv, WorkerPlace, LoadInv, CodeInv, Loads, GameHolds, WorkerHolds, KeySet
<1>20. CASE YieldsState /\ UNCHANGED habits
  BY <1>t, <1>n, <1>r, <1>h, <1>g, <1>w, <1>o, <1>e, <1>20, YieldsStateDoes DEF GamePlace,
     LockInv, WorkerPlace, LoadInv, CodeInv, Loads, GameHolds, WorkerHolds, KeySet
<1>21. CASE RegainsState /\ UNCHANGED habits
  BY <1>t, <1>n, <1>r, <1>h, <1>g, <1>w, <1>o, <1>e, <1>21, RegainsStateDoes DEF GamePlace,
     LockInv, WorkerPlace, LoadInv, CodeInv, Loads, GameHolds, WorkerHolds, KeySet
<1>22. CASE CopiesState /\ UNCHANGED habits
  BY <1>t, <1>n, <1>r, <1>h, <1>g, <1>w, <1>o, <1>e, <1>22, CopiesStateDoes DEF GamePlace,
     LockInv, WorkerPlace, LoadInv, CodeInv, Loads, GameHolds, WorkerHolds, KeySet
<1>23. CASE ReleasesGame /\ UNCHANGED habits
  BY <1>t, <1>n, <1>r, <1>h, <1>g, <1>w, <1>o, <1>e, <1>23, ReleasesGameDoes DEF GamePlace,
     LockInv, WorkerPlace, LoadInv, CodeInv, Loads, GameHolds, WorkerHolds, KeySet
<1>24. CASE LooksUpCallback /\ UNCHANGED habits
  BY <1>t, <1>n, <1>r, <1>h, <1>g, <1>w, <1>o, <1>e, <1>24, LooksUpCallbackDoes DEF GamePlace,
     LockInv, WorkerPlace, LoadInv, CodeInv, Loads, GameHolds, WorkerHolds, KeySet
<1>25. CASE PutsWork /\ UNCHANGED habits
  BY <1>t, <1>n, <1>r, <1>h, <1>g, <1>w, <1>o, <1>e, <1>25, PutsWorkDoes DEF GamePlace,
     LockInv, WorkerPlace, LoadInv, CodeInv, Loads, GameHolds, WorkerHolds, KeySet
<1>26. CASE Records /\ UNCHANGED habits
  BY <1>t, <1>n, <1>r, <1>h, <1>g, <1>w, <1>o, <1>e, <1>26, RecordsDoes DEF GamePlace,
     LockInv, WorkerPlace, LoadInv, CodeInv, Loads, GameHolds, WorkerHolds, KeySet
<1>27. CASE Expires /\ UNCHANGED habits
  BY <1>t, <1>n, <1>r, <1>h, <1>g, <1>w, <1>o, <1>e, <1>27, ExpiresDoes DEF GamePlace,
     LockInv, WorkerPlace, LoadInv, CodeInv, Loads, GameHolds, WorkerHolds, KeySet
<1>28. ASSUME NEW h \in HookNames, GameReaches(h), UNCHANGED habits
      PROVE  CodeInv'
  BY <1>t, <1>n, <1>r, <1>h, <1>g, <1>w, <1>o, <1>e, <1>28, GameReachesDoes DEF GamePlace,
     LockInv, WorkerPlace, LoadInv, CodeInv, Loads, GameHolds, WorkerHolds, KeySet
<1>29. ASSUME NEW c \in CommandNames, Starts(c), UNCHANGED habits
      PROVE  CodeInv'
  BY <1>t, <1>n, <1>r, <1>h, <1>g, <1>w, <1>o, <1>e, <1>29, StartsDoes DEF GamePlace, LockInv,
     WorkerPlace, LoadInv, CodeInv, Loads, GameHolds, WorkerHolds, KeySet, CommandNames
<1>30. CASE UNCHANGED vars
  BY <1>t, <1>n, <1>r, <1>h, <1>g, <1>w, <1>o, <1>e, <1>30 DEF vars, moving, codeVars, locks,
     stateVars, stepVars, histVars, GamePlace, LockInv, WorkerPlace, LoadInv, CodeInv, Loads,
     GameHolds, WorkerHolds, KeySet
<1>31. CASE FailsToRecord /\ UNCHANGED habits
  BY <1>t, <1>n, <1>r, <1>h, <1>g, <1>w, <1>o, <1>e, <1>31, FailsToRecordDoes DEF GamePlace,
     LockInv, WorkerPlace, LoadInv, CodeInv, Loads, GameHolds, WorkerHolds, KeySet
<1> QED
  BY <1>1, <1>2, <1>3, <1>4, <1>5, <1>6, <1>7, <1>8, <1>9, <1>10, <1>11, <1>12, <1>13,
     <1>14, <1>15, <1>16, <1>17, <1>18, <1>19, <1>20, <1>21, <1>22, <1>23, <1>24, <1>25,
     <1>26, <1>27, <1>28, <1>29, <1>30, <1>31 DEF Next, InHook, Worker, CommandNames

(* Every step keeps the saved state up with the frame. *)
LEMMA SaveNext ==
  ASSUME GInv, [Next]_vars
  PROVE  SaveInv'
<1>t. /\ CodeTypes /\ PlaceTypes /\ StateTypes /\ WorkTypes /\ GamePlace /\ LockInv /\ WorkerPlace
      /\ LoadInv /\ CodeInv /\ InOrder /\ SaveInv /\ StepInv /\ WorkInv
  BY DEF GInv, HTypes, CodeInv
<1>n. NF \in 0..2 /\ NL \in 0..1 /\ NE \in 0..1
  BY <1>t, Lengths
<1>r. registered' = registered => NF' = NF /\ NL' = NL /\ NE' = NE
  BY DEF NF, NL, NE
<1>h. gpc.h \in HookNames \cup {"none"} /\ gpc.i \in Nat /\ wpc.i \in Nat
  BY <1>t DEF PlaceTypes, GameRecords, WorkerRecords
<1>g. gpc' = gpc => gpc'.at = gpc.at /\ gpc'.h = gpc.h /\ gpc'.i = gpc.i
  OBVIOUS
<1>w. wpc' = wpc => wpc'.at = wpc.at /\ wpc'.cmd = wpc.cmd /\ wpc'.i = wpc.i
  OBVIOUS
<1>o. registered' = registered => InOrder'
  BY <1>t DEF InOrder
<1>e. HookNames # {} /\ hooks \in {{}, HookNames}
  BY <1>t DEF HookNames, CodeTypes
<1>1. CASE EntersHook /\ UNCHANGED habits
  BY <1>t, <1>n, <1>r, <1>h, <1>g, <1>w, <1>e, <1>1, EntersHookDoes DEF GamePlace, LockInv,
     WorkerPlace, LoadInv, CodeInv, Loads, GameHolds, WorkerHolds, KeySet, StateTypes,
     SaveInv, Plain, Unparsed
<1>2. CASE LeavesHook /\ UNCHANGED habits
  <2>1. /\ gpc.at = "next" /\ gpc.i > Len(registered[gpc.h]) /\ gpc'.at = "outside" /\ gpc'.h = "none"
        /\ UNCHANGED <<registered, saved, frame, recorder, queue>>
    BY <1>2, LeavesHookDoes
  <2>2. gpc.h = "frame" => gpc.i > NF
    BY <2>1 DEF NF
  <2>3. ~Loads /\ ~Loads'
    BY <2>1 DEF Loads
  <2>4. gpc.h = "frame" /\ 2 <= NF => gpc.i > 2
    BY <2>2, <1>n, <1>h
  <2>5. 2 <= NF => ~Unparsed
    BY <2>1, <2>4, <1>h DEF Unparsed
  <2>6. ~Unparsed'
    BY <2>1 DEF Unparsed
  <2> QED
    BY <1>t, <1>r, <1>2, <2>1, <2>3, <2>5, <2>6 DEF SaveInv, Plain
<1>3. CASE CallsBack /\ UNCHANGED habits
  <2>1. /\ gpc.at = "next" /\ gpc.i <= Len(registered[gpc.h]) /\ gpc'.at = registered[gpc.h][gpc.i]
        /\ gpc'.h = gpc.h /\ gpc'.i = gpc.i /\ UNCHANGED <<registered, hooks>>
    BY <1>3, CallsBackDoes
  <2>2. /\ gpc.h = "frame" /\ gpc.i = 1 => gpc'.at = "cb_game_command"
        /\ gpc.h = "frame" /\ gpc.i = 2 => gpc'.at = "save_state"
        /\ gpc.h = "load" /\ gpc.i = 1 => gpc'.at = "cb_progress_update"
        /\ gpc.h = "exit" /\ gpc.i = 1 => gpc'.at = "gameloop_exit"
    BY <1>t, <2>1, Elements
  <2>3. /\ gpc.h = "frame" => gpc.i \in 1..NF /\ gpc.i \in 1..2
        /\ gpc.h = "load" => gpc.i = 1 /\ 1 <= NL
        /\ gpc.h = "exit" => gpc.i = 1 /\ 1 <= NE
        /\ gpc.h \in {"frame", "load", "exit"}
    BY <1>t, <1>n, <1>h, <2>1 DEF GamePlace, NF, NL, NE, HookNames
  <2>4. gpc'.at \in KeySet
    BY <2>2, <2>3 DEF KeySet
  <2> QED
    BY <1>t, <1>n, <1>r, <1>h, <1>g, <1>w, <1>e, <1>3, <2>1, <2>2, <2>3, <2>4, CallsBackDoes
       DEF GamePlace, LockInv, WorkerPlace, LoadInv, CodeInv, Loads, GameHolds, WorkerHolds,
       KeySet, StateTypes, SaveInv, Plain, Unparsed
<1>4. CASE UpdatesProgress /\ UNCHANGED habits
  BY <1>t, <1>n, <1>r, <1>h, <1>g, <1>w, <1>e, <1>4, UpdatesProgressDoes DEF GamePlace,
     LockInv, WorkerPlace, LoadInv, CodeInv, Loads, GameHolds, WorkerHolds, KeySet,
     StateTypes, SaveInv, Plain, Unparsed
<1>5. CASE ParsesState /\ UNCHANGED habits
  BY <1>t, <1>n, <1>r, <1>h, <1>g, <1>w, <1>e, <1>5, ParsesStateDoes DEF GamePlace, LockInv,
     WorkerPlace, LoadInv, CodeInv, Loads, GameHolds, WorkerHolds, KeySet, StateTypes,
     SaveInv, Plain, Unparsed
<1>6. CASE PushesState /\ UNCHANGED habits
  BY <1>t, <1>n, <1>r, <1>h, <1>g, <1>w, <1>e, <1>6, PushesStateDoes DEF GamePlace, LockInv,
     WorkerPlace, LoadInv, CodeInv, Loads, GameHolds, WorkerHolds, KeySet, StateTypes,
     SaveInv, Plain, Unparsed
<1>7. CASE Unlocks /\ UNCHANGED habits
  BY <1>t, <1>n, <1>r, <1>h, <1>g, <1>w, <1>e, <1>7, UnlocksDoes DEF GamePlace, LockInv,
     WorkerPlace, LoadInv, CodeInv, Loads, GameHolds, WorkerHolds, KeySet, StateTypes,
     SaveInv, Plain, Unparsed
<1>8. CASE Pauses /\ UNCHANGED habits
  BY <1>t, <1>n, <1>r, <1>h, <1>g, <1>w, <1>e, <1>8, PausesDoes DEF GamePlace, LockInv,
     WorkerPlace, LoadInv, CodeInv, Loads, GameHolds, WorkerHolds, KeySet, StateTypes,
     SaveInv, Plain, Unparsed
<1>9. CASE Resumes /\ UNCHANGED habits
  BY <1>t, <1>n, <1>r, <1>h, <1>g, <1>w, <1>e, <1>9, ResumesDoes DEF GamePlace, LockInv,
     WorkerPlace, LoadInv, CodeInv, Loads, GameHolds, WorkerHolds, KeySet, StateTypes,
     SaveInv, Plain, Unparsed
<1>10. CASE RunsWork /\ UNCHANGED habits
  BY SMTT(40), <1>t, <1>n, <1>r, <1>h, <1>g, <1>w, <1>e, <1>10, RunsWorkDoes DEF GamePlace, LockInv,
     WorkerPlace, LoadInv, CodeInv, Loads, GameHolds, WorkerHolds, KeySet, StateTypes,
     SaveInv, Plain, Unparsed
<1>11. CASE ExitsGame /\ UNCHANGED habits
  <2>1. /\ gpc.at = "gameloop_exit" /\ gpc'.at = "next" /\ gpc.h = "exit" /\ gpc'.h = "exit"
        /\ UNCHANGED <<saved, frame>> /\ died = "no"
    BY <1>t, <1>11, ExitsGameDoes DEF GamePlace
  <2>2. ~Loads /\ ~Loads' /\ ~Unparsed /\ ~Unparsed'
    BY <2>1 DEF Loads, Unparsed
  <2>3. CASE died' = "remove_callback"
    <3>1. NF' = NF
      BY <1>11, <2>3, Exited
    <3>2. recorder' = recorder /\ queue' = queue
      BY <1>11, <2>1, <2>3, ExitsGameDoes
    <3> QED
      BY <1>t, <1>11, <2>1, <2>2, <3>1, <3>2 DEF SaveInv, Plain
  <2>4. CASE died' = died
    <3>1. NF' = 0
      BY <1>11, <2>4, Exited
    <3>2. queue' = <<>>
      BY <1>11, <2>1, <2>4, ExitsGameDoes
    <3> QED
      BY <3>1, <3>2 DEF SaveInv
  <2> QED
    BY <1>11, Exited, <2>3, <2>4
<1>12. CASE SuspendsThreads /\ UNCHANGED habits
  BY <1>t, <1>r, <1>g, <1>12, SuspendsThreadsDoes DEF SaveInv, Plain, Unparsed, Loads
<1>13. CASE CreatesHooks /\ UNCHANGED habits
  BY <1>t, <1>r, <1>g, <1>13, CreatesHooksDoes DEF SaveInv, Plain, Unparsed, Loads
<1>14. CASE InitCallbacks /\ UNCHANGED habits
  BY <1>t, <1>n, <1>r, <1>h, <1>g, <1>w, <1>e, <1>14, InitCallbacksDoes DEF GamePlace,
     LockInv, WorkerPlace, LoadInv, CodeInv, Loads, GameHolds, WorkerHolds, KeySet,
     StateTypes, SaveInv, Plain, Unparsed
<1>15. CASE LocksHooks /\ UNCHANGED habits
  BY <1>t, <1>r, <1>g, <1>15, LocksHooksDoes DEF SaveInv, Plain, Unparsed, Loads
<1>16. CASE EndsAdding /\ UNCHANGED habits
  BY <1>t, <1>n, <1>r, <1>h, <1>g, <1>w, <1>e, <1>16, EndsAddingDoes DEF GamePlace, LockInv,
     WorkerPlace, LoadInv, CodeInv, Loads, GameHolds, WorkerHolds, KeySet, StateTypes,
     SaveInv, Plain, Unparsed
<1>17. CASE AddsCallback /\ UNCHANGED habits
  BY <1>t, <1>n, <1>r, <1>h, <1>g, <1>w, <1>e, <1>17, AddsCallbackDoes, Added DEF GamePlace,
     LockInv, WorkerPlace, LoadInv, CodeInv, Loads, GameHolds, WorkerHolds, KeySet,
     StateTypes, SaveInv, Plain, Unparsed
<1>18. CASE Configures /\ UNCHANGED habits
  BY <1>t, <1>r, <1>g, <1>18, ConfiguresDoes DEF SaveInv, Plain, Unparsed, Loads
<1>19. CASE LocksState /\ UNCHANGED habits
  BY <1>t, <1>r, <1>g, <1>19, LocksStateDoes DEF SaveInv, Plain, Unparsed, Loads
<1>20. CASE YieldsState /\ UNCHANGED habits
  BY <1>t, <1>r, <1>g, <1>20, YieldsStateDoes DEF SaveInv, Plain, Unparsed, Loads
<1>21. CASE RegainsState /\ UNCHANGED habits
  BY <1>t, <1>r, <1>g, <1>21, RegainsStateDoes DEF SaveInv, Plain, Unparsed, Loads
<1>22. CASE CopiesState /\ UNCHANGED habits
  BY <1>t, <1>r, <1>g, <1>22, CopiesStateDoes DEF SaveInv, Plain, Unparsed, Loads
<1>23. CASE ReleasesGame /\ UNCHANGED habits
  BY <1>t, <1>r, <1>g, <1>23, ReleasesGameDoes DEF SaveInv, Plain, Unparsed, Loads
<1>24. CASE LooksUpCallback /\ UNCHANGED habits
  BY <1>t, <1>r, <1>g, <1>24, LooksUpCallbackDoes DEF SaveInv, Plain, Unparsed, Loads
<1>25. CASE PutsWork /\ UNCHANGED habits
  BY <1>t, <1>r, <1>g, <1>25, PutsWorkDoes DEF SaveInv, Plain, Unparsed, Loads
<1>26. CASE Records /\ UNCHANGED habits
  BY <1>t, <1>n, <1>r, <1>h, <1>g, <1>w, <1>e, <1>26, RecordsDoes DEF GamePlace, LockInv,
     WorkerPlace, LoadInv, CodeInv, Loads, GameHolds, WorkerHolds, KeySet, StateTypes,
     SaveInv, Plain, Unparsed
<1>27. CASE Expires /\ UNCHANGED habits
  BY <1>t, <1>n, <1>r, <1>h, <1>g, <1>w, <1>e, <1>27, ExpiresDoes DEF GamePlace, LockInv,
     WorkerPlace, LoadInv, CodeInv, Loads, GameHolds, WorkerHolds, KeySet, StateTypes,
     SaveInv, Plain, Unparsed
<1>28. ASSUME NEW h \in HookNames, GameReaches(h), UNCHANGED habits
      PROVE  SaveInv'
  BY <1>t, <1>n, <1>r, <1>h, <1>g, <1>w, <1>e, <1>28, GameReachesDoes DEF GamePlace, LockInv,
     WorkerPlace, LoadInv, CodeInv, Loads, GameHolds, WorkerHolds, KeySet, StateTypes,
     SaveInv, Plain, Unparsed
<1>29. ASSUME NEW c \in CommandNames, Starts(c), UNCHANGED habits
      PROVE  SaveInv'
  BY <1>t, <1>r, <1>g, <1>29, StartsDoes DEF SaveInv, Plain, Unparsed, Loads
<1>30. CASE UNCHANGED vars
  BY <1>t, <1>n, <1>r, <1>h, <1>g, <1>w, <1>e, <1>30 DEF vars, moving, codeVars, locks,
     stateVars, stepVars, histVars, GamePlace, LockInv, WorkerPlace, LoadInv, CodeInv, Loads,
     GameHolds, WorkerHolds, KeySet, StateTypes, SaveInv, Plain, Unparsed
<1>31. CASE FailsToRecord /\ UNCHANGED habits
  BY <1>t, <1>n, <1>r, <1>h, <1>g, <1>w, <1>e, <1>31, FailsToRecordDoes DEF GamePlace, LockInv,
     WorkerPlace, LoadInv, CodeInv, Loads, GameHolds, WorkerHolds, KeySet, StateTypes,
     SaveInv, Plain, Unparsed
<1> QED
  BY <1>1, <1>2, <1>3, <1>4, <1>5, <1>6, <1>7, <1>8, <1>9, <1>10, <1>11, <1>12, <1>13,
     <1>14, <1>15, <1>16, <1>17, <1>18, <1>19, <1>20, <1>21, <1>22, <1>23, <1>24, <1>25,
     <1>26, <1>27, <1>28, <1>29, <1>30, <1>31 DEF Next, InHook, Worker, CommandNames

(* Every step keeps the protocol of single-step mode. *)
LEMMA StepNext ==
  ASSUME GInv, [Next]_vars
  PROVE  StepInv'
<1>t. /\ CodeTypes /\ PlaceTypes /\ StateTypes /\ WorkTypes /\ GamePlace /\ LockInv /\ WorkerPlace
      /\ LoadInv /\ CodeInv /\ InOrder /\ SaveInv /\ StepInv /\ WorkInv
  BY DEF GInv, HTypes, CodeInv
<1>n. NF \in 0..2 /\ NL \in 0..1 /\ NE \in 0..1
  BY <1>t, Lengths
<1>r. registered' = registered => NF' = NF /\ NL' = NL /\ NE' = NE
  BY DEF NF, NL, NE
<1>h. gpc.h \in HookNames \cup {"none"} /\ gpc.i \in Nat /\ wpc.i \in Nat
  BY <1>t DEF PlaceTypes, GameRecords, WorkerRecords
<1>g. gpc' = gpc => gpc'.at = gpc.at /\ gpc'.h = gpc.h /\ gpc'.i = gpc.i
  OBVIOUS
<1>w. wpc' = wpc => wpc'.at = wpc.at /\ wpc'.cmd = wpc.cmd /\ wpc'.i = wpc.i
  OBVIOUS
<1>o. registered' = registered => InOrder'
  BY <1>t DEF InOrder
<1>e. HookNames # {} /\ hooks \in {{}, HookNames}
  BY <1>t DEF HookNames, CodeTypes
<1>1. CASE EntersHook /\ UNCHANGED habits
  BY <1>t, <1>n, <1>r, <1>h, <1>g, <1>w, <1>e, <1>1, EntersHookDoes DEF GamePlace, LockInv,
     WorkerPlace, LoadInv, CodeInv, Loads, GameHolds, WorkerHolds, KeySet, StateTypes,
     SaveInv, StepInv, Released, Plain, Unparsed
<1>2. CASE LeavesHook /\ UNCHANGED habits
  BY <1>t, <1>n, <1>r, <1>h, <1>g, <1>w, <1>e, <1>2, LeavesHookDoes DEF GamePlace, LockInv,
     WorkerPlace, LoadInv, CodeInv, Loads, GameHolds, WorkerHolds, KeySet, StateTypes,
     SaveInv, StepInv, Released, Plain, Unparsed
<1>3. CASE CallsBack /\ UNCHANGED habits
  <2>1. /\ gpc.at = "next" /\ gpc.i <= Len(registered[gpc.h]) /\ gpc'.at = registered[gpc.h][gpc.i]
        /\ gpc'.h = gpc.h /\ gpc'.i = gpc.i /\ UNCHANGED <<registered, hooks>>
    BY <1>3, CallsBackDoes
  <2>2. /\ gpc.h = "frame" /\ gpc.i = 1 => gpc'.at = "cb_game_command"
        /\ gpc.h = "frame" /\ gpc.i = 2 => gpc'.at = "save_state"
        /\ gpc.h = "load" /\ gpc.i = 1 => gpc'.at = "cb_progress_update"
        /\ gpc.h = "exit" /\ gpc.i = 1 => gpc'.at = "gameloop_exit"
    BY <1>t, <2>1, Elements
  <2>3. /\ gpc.h = "frame" => gpc.i \in 1..NF /\ gpc.i \in 1..2
        /\ gpc.h = "load" => gpc.i = 1 /\ 1 <= NL
        /\ gpc.h = "exit" => gpc.i = 1 /\ 1 <= NE
        /\ gpc.h \in {"frame", "load", "exit"}
    BY <1>t, <1>n, <1>h, <2>1 DEF GamePlace, NF, NL, NE, HookNames
  <2>4. gpc'.at \in KeySet
    BY <2>2, <2>3 DEF KeySet
  <2> QED
    BY SMTT(40), <1>t, <1>n, <1>r, <1>h, <1>g, <1>w, <1>e, <1>3, <2>1, <2>2, <2>3, <2>4, CallsBackDoes
       DEF GamePlace, LockInv, WorkerPlace, LoadInv, CodeInv, Loads, GameHolds, WorkerHolds,
       KeySet, StateTypes, StepInv, Released
<1>4. CASE UpdatesProgress /\ UNCHANGED habits
  BY <1>t, <1>n, <1>r, <1>h, <1>g, <1>w, <1>e, <1>4, UpdatesProgressDoes DEF GamePlace,
     LockInv, WorkerPlace, LoadInv, CodeInv, Loads, GameHolds, WorkerHolds, KeySet,
     StateTypes, SaveInv, StepInv, Released, Plain, Unparsed
<1>5. CASE ParsesState /\ UNCHANGED habits
  BY <1>t, <1>n, <1>r, <1>h, <1>g, <1>w, <1>e, <1>5, ParsesStateDoes DEF GamePlace, LockInv,
     WorkerPlace, LoadInv, CodeInv, Loads, GameHolds, WorkerHolds, KeySet, StateTypes,
     SaveInv, StepInv, Released, Plain, Unparsed
<1>6. CASE PushesState /\ UNCHANGED habits
  BY SMTT(40), <1>t, <1>n, <1>r, <1>h, <1>g, <1>w, <1>e, <1>6, PushesStateDoes DEF GamePlace, LockInv,
     WorkerPlace, LoadInv, CodeInv, Loads, GameHolds, WorkerHolds, KeySet, StateTypes,
     SaveInv, StepInv, Released, Plain, Unparsed
<1>7. CASE Unlocks /\ UNCHANGED habits
  BY <1>t, <1>n, <1>r, <1>h, <1>g, <1>w, <1>e, <1>7, UnlocksDoes DEF GamePlace, LockInv,
     WorkerPlace, LoadInv, CodeInv, Loads, GameHolds, WorkerHolds, KeySet, StateTypes,
     SaveInv, StepInv, Released, Plain, Unparsed
<1>8. CASE Pauses /\ UNCHANGED habits
  BY <1>t, <1>n, <1>r, <1>h, <1>g, <1>w, <1>e, <1>8, PausesDoes DEF GamePlace, LockInv,
     WorkerPlace, LoadInv, CodeInv, Loads, GameHolds, WorkerHolds, KeySet, StateTypes,
     SaveInv, StepInv, Released, Plain, Unparsed
<1>9. CASE Resumes /\ UNCHANGED habits
  BY <1>t, <1>n, <1>r, <1>h, <1>g, <1>w, <1>e, <1>9, ResumesDoes DEF GamePlace, LockInv,
     WorkerPlace, LoadInv, CodeInv, Loads, GameHolds, WorkerHolds, KeySet, StateTypes,
     SaveInv, StepInv, Released, Plain, Unparsed
<1>10. CASE RunsWork /\ UNCHANGED habits
  BY <1>t, <1>n, <1>r, <1>h, <1>g, <1>w, <1>e, <1>10, RunsWorkDoes DEF GamePlace, LockInv,
     WorkerPlace, LoadInv, CodeInv, Loads, GameHolds, WorkerHolds, KeySet, StateTypes,
     SaveInv, StepInv, Released, Plain, Unparsed
<1>11. CASE ExitsGame /\ UNCHANGED habits
  BY <1>t, <1>n, <1>r, <1>h, <1>g, <1>w, <1>e, <1>11, ExitsGameDoes, Exited DEF GamePlace,
     LockInv, WorkerPlace, LoadInv, CodeInv, Loads, GameHolds, WorkerHolds, KeySet,
     StateTypes, SaveInv, StepInv, Released, Plain, Unparsed
<1>12. CASE SuspendsThreads /\ UNCHANGED habits
  BY <1>t, <1>g, <1>w, <1>12, SuspendsThreadsDoes DEF StepInv, Released
<1>13. CASE CreatesHooks /\ UNCHANGED habits
  BY <1>t, <1>g, <1>w, <1>13, CreatesHooksDoes DEF StepInv, Released
<1>14. CASE InitCallbacks /\ UNCHANGED habits
  BY <1>t, <1>n, <1>r, <1>h, <1>g, <1>w, <1>e, <1>14, InitCallbacksDoes DEF GamePlace,
     LockInv, WorkerPlace, LoadInv, CodeInv, Loads, GameHolds, WorkerHolds, KeySet,
     StateTypes, SaveInv, StepInv, Released, Plain, Unparsed
<1>15. CASE LocksHooks /\ UNCHANGED habits
  BY <1>t, <1>g, <1>w, <1>15, LocksHooksDoes DEF StepInv, Released
<1>16. CASE EndsAdding /\ UNCHANGED habits
  BY <1>t, <1>n, <1>r, <1>h, <1>g, <1>w, <1>e, <1>16, EndsAddingDoes DEF GamePlace, LockInv,
     WorkerPlace, LoadInv, CodeInv, Loads, GameHolds, WorkerHolds, KeySet, StateTypes,
     SaveInv, StepInv, Released, Plain, Unparsed
<1>17. CASE AddsCallback /\ UNCHANGED habits
  BY <1>t, <1>n, <1>r, <1>h, <1>g, <1>w, <1>e, <1>17, AddsCallbackDoes, Added DEF GamePlace,
     LockInv, WorkerPlace, LoadInv, CodeInv, Loads, GameHolds, WorkerHolds, KeySet,
     StateTypes, SaveInv, StepInv, Released, Plain, Unparsed
<1>18. CASE Configures /\ UNCHANGED habits
  BY <1>t, <1>n, <1>r, <1>h, <1>g, <1>w, <1>e, <1>18, ConfiguresDoes DEF GamePlace, LockInv,
     WorkerPlace, LoadInv, CodeInv, Loads, GameHolds, WorkerHolds, KeySet, StateTypes,
     SaveInv, StepInv, Released, Plain, Unparsed
<1>19. CASE LocksState /\ UNCHANGED habits
  BY <1>t, <1>g, <1>w, <1>19, LocksStateDoes DEF StepInv, Released
<1>20. CASE YieldsState /\ UNCHANGED habits
  BY <1>t, <1>g, <1>w, <1>20, YieldsStateDoes DEF StepInv, Released
<1>21. CASE RegainsState /\ UNCHANGED habits
  BY <1>t, <1>g, <1>w, <1>21, RegainsStateDoes DEF StepInv, Released
<1>22. CASE CopiesState /\ UNCHANGED habits
  BY <1>t, <1>g, <1>w, <1>22, CopiesStateDoes DEF StepInv, Released
<1>23. CASE ReleasesGame /\ UNCHANGED habits
  BY <1>t, <1>n, <1>r, <1>h, <1>g, <1>w, <1>e, <1>23, ReleasesGameDoes DEF GamePlace, LockInv,
     WorkerPlace, LoadInv, CodeInv, Loads, GameHolds, WorkerHolds, KeySet, StateTypes,
     SaveInv, StepInv, Released, Plain, Unparsed
<1>24. CASE LooksUpCallback /\ UNCHANGED habits
  BY <1>t, <1>g, <1>w, <1>24, LooksUpCallbackDoes DEF StepInv, Released
<1>25. CASE PutsWork /\ UNCHANGED habits
  BY <1>t, <1>g, <1>w, <1>25, PutsWorkDoes DEF StepInv, Released
<1>26. CASE Records /\ UNCHANGED habits
  BY <1>t, <1>n, <1>r, <1>h, <1>g, <1>w, <1>e, <1>26, RecordsDoes DEF GamePlace, LockInv,
     WorkerPlace, LoadInv, CodeInv, Loads, GameHolds, WorkerHolds, KeySet, StateTypes,
     SaveInv, StepInv, Released, Plain, Unparsed
<1>27. CASE Expires /\ UNCHANGED habits
  BY <1>t, <1>n, <1>r, <1>h, <1>g, <1>w, <1>e, <1>27, ExpiresDoes DEF GamePlace, LockInv,
     WorkerPlace, LoadInv, CodeInv, Loads, GameHolds, WorkerHolds, KeySet, StateTypes,
     SaveInv, StepInv, Released, Plain, Unparsed
<1>28. ASSUME NEW h \in HookNames, GameReaches(h), UNCHANGED habits
      PROVE  StepInv'
  BY <1>t, <1>n, <1>r, <1>h, <1>g, <1>w, <1>e, <1>28, GameReachesDoes DEF GamePlace, LockInv,
     WorkerPlace, LoadInv, CodeInv, Loads, GameHolds, WorkerHolds, KeySet, StateTypes,
     SaveInv, StepInv, Released, Plain, Unparsed
<1>29. ASSUME NEW c \in CommandNames, Starts(c), UNCHANGED habits
      PROVE  StepInv'
  BY <1>t, <1>g, <1>w, <1>29, StartsDoes DEF StepInv, Released, CommandNames
<1>30. CASE UNCHANGED vars
  BY <1>t, <1>n, <1>r, <1>h, <1>g, <1>w, <1>e, <1>30 DEF vars, moving, codeVars, locks,
     stateVars, stepVars, histVars, GamePlace, LockInv, WorkerPlace, LoadInv, CodeInv, Loads,
     GameHolds, WorkerHolds, KeySet, StateTypes, SaveInv, StepInv, Released, Plain, Unparsed
<1>31. CASE FailsToRecord /\ UNCHANGED habits
  BY <1>t, <1>n, <1>r, <1>h, <1>g, <1>w, <1>e, <1>31, FailsToRecordDoes DEF GamePlace, LockInv,
     WorkerPlace, LoadInv, CodeInv, Loads, GameHolds, WorkerHolds, KeySet, StateTypes,
     SaveInv, StepInv, Released, Plain, Unparsed
<1> QED
  BY <1>1, <1>2, <1>3, <1>4, <1>5, <1>6, <1>7, <1>8, <1>9, <1>10, <1>11, <1>12, <1>13,
     <1>14, <1>15, <1>16, <1>17, <1>18, <1>19, <1>20, <1>21, <1>22, <1>23, <1>24, <1>25,
     <1>26, <1>27, <1>28, <1>29, <1>30, <1>31 DEF Next, InHook, Worker, CommandNames

(* Commands in lists are numbers. *)
LEMMA RisesIn ==
  /\ Seq(1..MaxCommands) \subseteq Seq(Nat)
  /\ 0..MaxCommands \subseteq Nat
BY HooksAssumption

(* Two rising lists one below the other make a rising list. *)
LEMMA JoinRises ==
  ASSUME NEW s \in Seq(Nat), NEW t \in Seq(Nat)
  PROVE  /\ Rising(s) /\ Rising(t) /\ (\A i \in 1..Len(s), j \in 1..Len(t) : s[i] < t[j])
            => Rising(s \o t)
         /\ \A n \in Nat : Below(s, n) /\ Below(t, n) => Below(s \o t, n)
<1>1. /\ s \o t \in Seq(Nat) /\ Len(s \o t) = Len(s) + Len(t) /\ Len(s) \in Nat /\ Len(t) \in Nat
      /\ \A i \in 1..Len(s) + Len(t) : (s \o t)[i] = IF i <= Len(s) THEN s[i] ELSE t[i - Len(s)]
  OBVIOUS
<1>2. \A i \in 1..Len(s) + Len(t) : i <= Len(s) \/ i - Len(s) \in 1..Len(t)
  BY <1>1
<1>3. ASSUME Rising(s), Rising(t), \A i \in 1..Len(s), j \in 1..Len(t) : s[i] < t[j],
             NEW i \in 1..Len(s) + Len(t), NEW j \in 1..Len(s) + Len(t), i < j
      PROVE  (s \o t)[i] < (s \o t)[j]
  <2>1. CASE j <= Len(s)
    BY <1>1, <1>3, <2>1 DEF Rising
  <2>2. CASE i <= Len(s) /\ ~(j <= Len(s))
    BY <1>1, <1>2, <1>3, <2>2
  <2>3. CASE ~(i <= Len(s))
    <3>1. /\ i - Len(s) \in 1..Len(t) /\ j - Len(s) \in 1..Len(t) /\ i - Len(s) < j - Len(s)
          /\ ~(j <= Len(s))
      BY <1>1, <1>2, <1>3, <2>3
    <3>2. (s \o t)[i] = t[i - Len(s)] /\ (s \o t)[j] = t[j - Len(s)]
      BY <1>1, <2>3, <3>1
    <3> QED
      BY <1>3, <3>1, <3>2 DEF Rising
  <2> QED
    BY <1>1, <2>1, <2>2, <2>3
<1>4. ASSUME NEW n \in Nat, Below(s, n), Below(t, n)
      PROVE  Below(s \o t, n)
  BY <1>1, <1>2, <1>4 DEF Below
<1> QED
  BY <1>1, <1>3, <1>4 DEF Rising

(* A number above all others may be appended. *)
LEMMA AppendRises ==
  ASSUME NEW s \in Seq(Nat), NEW n \in Nat, Rising(s), Below(s, n)
  PROVE  Rising(Append(s, n)) /\ Below(Append(s, n), n + 1)
<1>1. /\ Len(Append(s, n)) = Len(s) + 1 /\ Len(s) \in Nat
      /\ \A i \in 1..Len(s) + 1 : Append(s, n)[i] = IF i = Len(s) + 1 THEN n ELSE s[i]
      /\ \A i \in 1..Len(s) : s[i] \in Nat
  OBVIOUS
<1> QED
  BY <1>1 DEF Rising, Below

(* Every step keeps the order of the deferred work. *)
LEMMA WorkNext ==
  ASSUME GInv, [Next]_vars
  PROVE  WorkInv'
<1>t. /\ CodeTypes /\ PlaceTypes /\ StateTypes /\ WorkTypes /\ GamePlace /\ LockInv /\ WorkerPlace
      /\ LoadInv /\ CodeInv /\ InOrder /\ SaveInv /\ StepInv /\ WorkInv
  BY DEF GInv, HTypes, CodeInv
<1>n. NF \in 0..2 /\ NL \in 0..1 /\ NE \in 0..1
  BY <1>t, Lengths
<1>r. registered' = registered => NF' = NF /\ NL' = NL /\ NE' = NE
  BY DEF NF, NL, NE
<1>h. gpc.h \in HookNames \cup {"none"} /\ gpc.i \in Nat /\ wpc.i \in Nat
  BY <1>t DEF PlaceTypes, GameRecords, WorkerRecords
<1>g. gpc' = gpc => gpc'.at = gpc.at /\ gpc'.h = gpc.h /\ gpc'.i = gpc.i
  OBVIOUS
<1>w. wpc' = wpc => wpc'.at = wpc.at /\ wpc'.cmd = wpc.cmd /\ wpc'.i = wpc.i
  OBVIOUS
<1>o. registered' = registered => InOrder'
  BY <1>t DEF InOrder
<1>e. HookNames # {} /\ hooks \in {{}, HookNames}
  BY <1>t DEF HookNames, CodeTypes
<1>f. /\ UNCHANGED <<work, done, ncmds, lost, habits>>
      /\ wpc'.at \in {"defer", "put"} => wpc.at \in {"defer", "put"}
      => WorkInv'
  BY <1>t DEF WorkInv, Rising, Below
<1>1. CASE EntersHook /\ UNCHANGED habits
  BY <1>f, <1>1, EntersHookDoes DEF CommandNames
<1>2. CASE LeavesHook /\ UNCHANGED habits
  BY <1>f, <1>2, LeavesHookDoes DEF CommandNames
<1>3. CASE CallsBack /\ UNCHANGED habits
  BY <1>f, <1>3, CallsBackDoes DEF CommandNames
<1>4. CASE UpdatesProgress /\ UNCHANGED habits
  BY <1>f, <1>4, UpdatesProgressDoes DEF CommandNames
<1>5. CASE ParsesState /\ UNCHANGED habits
  BY <1>f, <1>5, ParsesStateDoes DEF CommandNames
<1>6. CASE PushesState /\ UNCHANGED habits
  BY <1>f, <1>6, PushesStateDoes DEF CommandNames
<1>7. CASE Unlocks /\ UNCHANGED habits
  BY <1>f, <1>7, UnlocksDoes DEF CommandNames
<1>8. CASE Pauses /\ UNCHANGED habits
  BY <1>f, <1>8, PausesDoes DEF CommandNames
<1>9. CASE Resumes /\ UNCHANGED habits
  BY <1>f, <1>9, ResumesDoes DEF CommandNames
<1>10. CASE RunsWork /\ UNCHANGED habits
  <2>1. done' = done \o work /\ work' = <<>> /\ UNCHANGED <<ncmds, lost, wpc>>
    BY <1>10, RunsWorkDoes
  <2>2. done \in Seq(Nat) /\ work \in Seq(Nat) /\ ncmds \in Nat
    BY <1>t, RisesIn DEF WorkTypes
  <2>3. Rising(done \o work)
    BY <1>t, <2>2, JoinRises DEF WorkInv
  <2>4. \A n \in Nat : Below(done, n) /\ Below(work, n) => Below(done \o work, n)
    BY <2>2, JoinRises
  <2>5. Rising(<<>>) /\ \A n : Below(<<>>, n)
    BY DEF Rising, Below
  <2>6. \A i \in 1..Len(done'), j \in 1..Len(work') : done'[i] < work'[j]
    BY <2>1
  <2> QED
    BY <1>t, <1>w, <1>10, <2>1, <2>2, <2>3, <2>4, <2>5, <2>6 DEF WorkInv
<1>11. CASE ExitsGame /\ UNCHANGED habits
  <2>1. CASE died' = "remove_callback"
    <3>1. UNCHANGED <<work, done, ncmds, lost, wpc>>
      BY <1>11, <2>1, ExitsGameDoes
    <3> QED
      BY <1>11, <1>f, <3>1
  <2>2. CASE died' = died
    <3>1. work' = <<>> /\ UNCHANGED <<done, ncmds, wpc>>
      BY <1>11, <2>2, ExitsGameDoes
    <3>2. "exit" \in habits
      BY <1>t, <1>11, ExitsGameDoes DEF GamePlace
    <3>3. Rising(<<>>) /\ \A n : Below(<<>>, n)
      BY DEF Rising, Below
    <3>4. \A i \in 1..Len(done'), j \in 1..Len(work') : done'[i] < work'[j]
      BY <3>1
    <3> QED
      BY <1>t, <1>w, <1>11, <3>1, <3>2, <3>3, <3>4 DEF WorkInv
  <2> QED
    BY <1>11, Exited, <2>1, <2>2
<1>12. CASE SuspendsThreads /\ UNCHANGED habits
  BY <1>f, <1>12, SuspendsThreadsDoes DEF CommandNames
<1>13. CASE CreatesHooks /\ UNCHANGED habits
  BY <1>f, <1>13, CreatesHooksDoes DEF CommandNames
<1>14. CASE InitCallbacks /\ UNCHANGED habits
  BY <1>f, <1>14, InitCallbacksDoes DEF CommandNames
<1>15. CASE LocksHooks /\ UNCHANGED habits
  BY <1>f, <1>15, LocksHooksDoes DEF CommandNames
<1>16. CASE EndsAdding /\ UNCHANGED habits
  BY <1>f, <1>16, EndsAddingDoes DEF CommandNames
<1>17. CASE AddsCallback /\ UNCHANGED habits
  BY <1>f, <1>17, AddsCallbackDoes DEF CommandNames
<1>18. CASE Configures /\ UNCHANGED habits
  BY <1>f, <1>18, ConfiguresDoes DEF CommandNames
<1>19. CASE LocksState /\ UNCHANGED habits
  BY <1>f, <1>19, LocksStateDoes DEF CommandNames
<1>20. CASE YieldsState /\ UNCHANGED habits
  BY <1>f, <1>20, YieldsStateDoes DEF CommandNames
<1>21. CASE RegainsState /\ UNCHANGED habits
  BY <1>f, <1>21, RegainsStateDoes DEF CommandNames
<1>22. CASE CopiesState /\ UNCHANGED habits
  BY <1>f, <1>22, CopiesStateDoes DEF CommandNames
<1>23. CASE ReleasesGame /\ UNCHANGED habits
  BY <1>f, <1>23, ReleasesGameDoes DEF CommandNames
<1>24. CASE LooksUpCallback /\ UNCHANGED habits
  BY <1>f, <1>24, LooksUpCallbackDoes DEF CommandNames
<1>25. CASE PutsWork /\ UNCHANGED habits
  <2>1. CASE work' = work
    BY <1>f, <1>25, <2>1, PutsWorkDoes
  <2>2. CASE work' = Append(work, ncmds)
    <3>1. UNCHANGED <<done, ncmds, lost>> /\ wpc.at = "put" /\ wpc'.at = "rest"
      BY <1>25, PutsWorkDoes
    <3>2. /\ done \in Seq(Nat) /\ work \in Seq(Nat) /\ ncmds \in Nat
          /\ Below(done, ncmds) /\ Below(work, ncmds)
      BY <1>t, <3>1, RisesIn DEF WorkTypes, WorkInv
    <3>3. Rising(Append(work, ncmds)) /\ Below(Append(work, ncmds), ncmds + 1)
      BY <1>t, <3>2, AppendRises DEF WorkInv
    <3>4. \A i \in 1..Len(done), j \in 1..Len(Append(work, ncmds)) : done[i] < Append(work, ncmds)[j]
      BY <1>t, <3>2 DEF WorkInv, Below
    <3> QED
      BY <1>t, <1>25, <2>2, <3>1, <3>3, <3>4 DEF WorkInv
  <2> QED
    BY <1>25, <2>1, <2>2, PutsWorkDoes
<1>26. CASE Records /\ UNCHANGED habits
  BY <1>f, <1>26, RecordsDoes DEF CommandNames
<1>27. CASE Expires /\ UNCHANGED habits
  BY <1>f, <1>27, ExpiresDoes DEF CommandNames
<1>28. ASSUME NEW h \in HookNames, GameReaches(h), UNCHANGED habits
      PROVE  WorkInv'
  BY <1>f, <1>28, GameReachesDoes DEF CommandNames
<1>29. ASSUME NEW c \in CommandNames, Starts(c), UNCHANGED habits
      PROVE  WorkInv'
  <2>1. UNCHANGED <<work, done, lost>> /\ ncmds' = ncmds + 1
    BY <1>29, StartsDoes
  <2>2. /\ done \in Seq(Nat) /\ work \in Seq(Nat) /\ ncmds \in Nat
    BY <1>t, RisesIn DEF WorkTypes
  <2>3. Below(done, ncmds') /\ Below(work, ncmds') /\ ncmds' > 0
    BY <1>t, <2>1, <2>2 DEF WorkInv
  <2>4. Below(done, ncmds' + 1) /\ Below(work, ncmds' + 1)
    BY <2>1, <2>2, <2>3 DEF Below
  <2> QED
    BY <1>t, <1>29, <2>1, <2>3, <2>4 DEF WorkInv
<1>30. CASE UNCHANGED vars
  BY <1>f, <1>30 DEF vars, moving, codeVars, locks, stateVars, stepVars, histVars, CommandNames
<1>31. CASE FailsToRecord /\ UNCHANGED habits
  BY <1>f, <1>31, FailsToRecordDoes DEF CommandNames
<1> QED
  BY <1>1, <1>2, <1>3, <1>4, <1>5, <1>6, <1>7, <1>8, <1>9, <1>10, <1>11, <1>12, <1>13,
     <1>14, <1>15, <1>16, <1>17, <1>18, <1>19, <1>20, <1>21, <1>22, <1>23, <1>24, <1>25,
     <1>26, <1>27, <1>28, <1>29, <1>30, <1>31 DEF Next, InHook, Worker, CommandNames

(* What a step leaves alone of the histories. *)
LEMMA HistoryKept ==
  ASSUME [Next]_vars
  PROVE  (deferred' = deferred \/ PutsWork) /\ (failed' = failed \/ FailsToRecord)
<1> USE DEF histVars
<1>1. /\ (EntersHook \/ LeavesHook \/ CallsBack \/ UpdatesProgress) => UNCHANGED <<deferred, failed>>
      /\ (ParsesState \/ PushesState \/ Unlocks \/ Pauses) => UNCHANGED <<deferred, failed>>
      /\ (Resumes \/ RunsWork \/ ExitsGame \/ SuspendsThreads) => UNCHANGED <<deferred, failed>>
  BY DEF EntersHook, LeavesHook, CallsBack, UpdatesProgress, ParsesState, PushesState, Unlocks,
     Pauses, Resumes, RunsWork, ExitsGame, SuspendsThreads
<1>2. /\ (CreatesHooks \/ InitCallbacks \/ LocksHooks \/ EndsAdding) => UNCHANGED <<deferred, failed>>
      /\ (AddsCallback \/ Configures \/ LocksState \/ YieldsState) => UNCHANGED <<deferred, failed>>
      /\ (RegainsState \/ CopiesState \/ ReleasesGame \/ LooksUpCallback) => UNCHANGED <<deferred, failed>>
  BY DEF CreatesHooks, InitCallbacks, LocksHooks, EndsAdding, AddsCallback, Configures, LocksState,
     YieldsState, RegainsState, CopiesState, ReleasesGame, LooksUpCallback
<1>3. /\ (Records \/ Expires) => UNCHANGED <<deferred, failed>>
      /\ (\E h \in HookNames : GameReaches(h)) => UNCHANGED <<deferred, failed>>
      /\ (\E c \in CommandNames : Starts(c)) => UNCHANGED <<deferred, failed>>
  BY DEF Records, Expires, GameReaches, Starts
<1>4. (PutsWork => failed' = failed) /\ (FailsToRecord => deferred' = deferred)
  BY DEF PutsWork, FailsToRecord
<1>5. UNCHANGED vars => UNCHANGED <<deferred, failed>>
  BY DEF vars, moving
<1> QED
  BY <1>1, <1>2, <1>3, <1>4, <1>5 DEF Next, InHook, Worker, CommandNames

(* The elements of a list that is joined with another or grows by one. *)
LEMMA JoinElements ==
  ASSUME NEW s \in Seq(Nat), NEW t \in Seq(Nat), NEW n \in Nat
  PROVE  /\ ToSet(s \o t) = ToSet(s) \cup ToSet(t)
         /\ ToSet(Append(s, n)) = ToSet(s) \cup {n}
<1>1. /\ Len(s) \in Nat /\ Len(t) \in Nat /\ DOMAIN s = 1..Len(s) /\ DOMAIN t = 1..Len(t)
      /\ DOMAIN (s \o t) = 1..Len(s) + Len(t)
      /\ \A i \in 1..Len(s) + Len(t) : (s \o t)[i] = IF i <= Len(s) THEN s[i] ELSE t[i - Len(s)]
  OBVIOUS
<1>2. ToSet(s \o t) \subseteq ToSet(s) \cup ToSet(t)
  <2>1. \A i \in 1..Len(s) + Len(t) : i <= Len(s) => i \in 1..Len(s)
    BY <1>1
  <2>2. \A i \in 1..Len(s) + Len(t) : ~(i <= Len(s)) => i - Len(s) \in 1..Len(t)
    BY <1>1
  <2> QED
    BY <1>1, <2>1, <2>2 DEF ToSet
<1>3. ASSUME NEW i \in DOMAIN s PROVE s[i] \in ToSet(s \o t)
  <2>1. i \in 1..Len(s) + Len(t) /\ i <= Len(s)
    BY <1>1, <1>3
  <2> QED
    BY <1>1, <2>1 DEF ToSet
<1>4. ASSUME NEW i \in DOMAIN t PROVE t[i] \in ToSet(s \o t)
  <2>1. i + Len(s) \in 1..Len(s) + Len(t) /\ ~(i + Len(s) <= Len(s)) /\ i + Len(s) - Len(s) = i
    BY <1>1, <1>4
  <2>2. (s \o t)[i + Len(s)] = t[i]
    BY <1>1, <2>1
  <2> QED
    BY <1>1, <2>1, <2>2 DEF ToSet
<1>5. ToSet(s) \cup ToSet(t) \subseteq ToSet(s \o t)
  BY <1>3, <1>4 DEF ToSet
<1>6. ToSet(Append(s, n)) = ToSet(s) \cup {n}
  <2>1. /\ DOMAIN Append(s, n) = 1..Len(s) + 1
        /\ \A i \in 1..Len(s) + 1 : Append(s, n)[i] = IF i = Len(s) + 1 THEN n ELSE s[i]
    OBVIOUS
  <2>2. \A i \in 1..Len(s) + 1 : i = Len(s) + 1 \/ i \in 1..Len(s)
    BY <1>1
  <2>3. \A i \in 1..Len(s) : i \in 1..Len(s) + 1 /\ i # Len(s) + 1
    BY <1>1
  <2>4. Len(s) + 1 \in 1..Len(s) + 1
    BY <1>1
  <2> QED
    BY <1>1, <2>1, <2>2, <2>3, <2>4 DEF ToSet
<1> QED
  BY <1>2, <1>5, <1>6

(* A list is its first element and the rest. *)
LEMMA HeadAndTail ==
  ASSUME NEW s \in Seq(Nat), s # <<>>
  PROVE  /\ Head(s) \in Nat /\ Tail(s) \in Seq(Nat) /\ Len(s) \in Nat /\ 1 \in 1..Len(s)
         /\ Head(s) = s[1] /\ Len(Tail(s)) = Len(s) - 1
         /\ \A i \in 1..Len(s) - 1 : Tail(s)[i] = s[i + 1] /\ i + 1 \in 1..Len(s)
         /\ ToSet(s) = {Head(s)} \cup ToSet(Tail(s))
<1>1. /\ Len(s) \in Nat /\ Len(s) >= 1 /\ Head(s) = s[1] /\ Head(s) \in Nat
      /\ Tail(s) \in Seq(Nat) /\ Len(Tail(s)) = Len(s) - 1 /\ DOMAIN s = 1..Len(s)
      /\ \A i \in 1..Len(s) - 1 : Tail(s)[i] = s[i + 1]
  OBVIOUS
<1>2. DOMAIN Tail(s) = 1..Len(s) - 1
  BY <1>1
<1>3. \A i \in 1..Len(s) : i = 1 \/ (i - 1 \in 1..Len(s) - 1 /\ (i - 1) + 1 = i)
  BY <1>1
<1>4. \A i \in 1..Len(s) - 1 : i + 1 \in 1..Len(s)
  BY <1>1
<1>5. 1 \in 1..Len(s)
  BY <1>1
<1>6. ToSet(s) \subseteq {Head(s)} \cup ToSet(Tail(s))
  <2> SUFFICES ASSUME NEW i \in 1..Len(s), i # 1 PROVE s[i] \in ToSet(Tail(s))
    BY <1>1 DEF ToSet
  <2>1. PICK j \in 1..Len(s) - 1 : j + 1 = i
    BY <1>3
  <2>2. s[i] = Tail(s)[j] /\ j \in DOMAIN Tail(s)
    BY <1>1, <1>2, <2>1
  <2> QED
    BY <2>2 DEF ToSet
<1>7. {Head(s)} \cup ToSet(Tail(s)) \subseteq ToSet(s)
  BY <1>1, <1>2, <1>4, <1>5 DEF ToSet
<1> QED
  BY <1>1, <1>4, <1>5, <1>6, <1>7

(* Every step keeps each deferred command in one place. *)
LEMMA KeptNext ==
  ASSUME GInv, [Next]_vars
  PROVE  KeptInv'
<1>t. KeptInv /\ WorkTypes /\ WorkInv /\ CodeTypes /\ CodeInv /\ GamePlace
  BY DEF GInv, HTypes
<1>d. deferred' = deferred \/ PutsWork
  BY HistoryKept
<1>s. done \in Seq(Nat) /\ work \in Seq(Nat) /\ ncmds \in Nat
  BY <1>t, RisesIn DEF WorkTypes
<1>b. /\ \A n \in ToSet(work) : n < ncmds + 1
      /\ \A n \in ToSet(work) : n \notin ToSet(done)
  <2>0. DOMAIN work = 1..Len(work) /\ DOMAIN done = 1..Len(done)
    BY <1>s
  <2>1. \A i \in DOMAIN work : work[i] < ncmds + 1
    BY <1>t, <2>0 DEF WorkInv, Below
  <2>2. \A i \in DOMAIN done, j \in DOMAIN work : done[i] # work[j]
    <3>1. \A i \in 1..Len(done), j \in 1..Len(work) : done[i] < work[j] /\ done[i] \in Nat /\ work[j] \in Nat
      BY <1>t, <1>s DEF WorkInv
    <3>2. \A a, b \in Nat : a < b => a # b
      OBVIOUS
    <3> QED
      BY <2>0, <3>1, <3>2
  <2> QED
    BY <2>1, <2>2 DEF ToSet
<1>k. wpc' = wpc \/ wpc.at # "put" => deferred' = deferred
  <2>1. PutsWork => wpc.at = "put" /\ wpc'.at = "rest"
    BY PutsWorkDoes
  <2> QED
    BY <1>d, <2>1
<1>f. /\ UNCHANGED <<work, done, ncmds, lost, callbacks>> /\ (wpc' = wpc \/ wpc.at # "put")
      /\ wpc'.at \in {"defer", "put"} => wpc.at \in {"defer", "put"}
      => KeptInv'
  BY <1>t, <1>k DEF KeptInv
<1>e. ToSet(<<>>) = {}
  BY DEF ToSet
<1>1. CASE EntersHook /\ UNCHANGED habits
  BY <1>f, <1>1, EntersHookDoes
<1>2. CASE LeavesHook /\ UNCHANGED habits
  BY <1>f, <1>2, LeavesHookDoes
<1>3. CASE CallsBack /\ UNCHANGED habits
  BY <1>f, <1>3, CallsBackDoes
<1>4. CASE UpdatesProgress /\ UNCHANGED habits
  BY <1>f, <1>4, UpdatesProgressDoes
<1>5. CASE ParsesState /\ UNCHANGED habits
  BY <1>f, <1>5, ParsesStateDoes
<1>6. CASE PushesState /\ UNCHANGED habits
  BY <1>f, <1>6, PushesStateDoes
<1>7. CASE Unlocks /\ UNCHANGED habits
  BY <1>f, <1>7, UnlocksDoes
<1>8. CASE Pauses /\ UNCHANGED habits
  BY <1>f, <1>8, PausesDoes
<1>9. CASE Resumes /\ UNCHANGED habits
  BY <1>f, <1>9, ResumesDoes
<1>10. CASE RunsWork /\ UNCHANGED habits
  <2>1. done' = done \o work /\ work' = <<>> /\ UNCHANGED <<ncmds, lost, wpc>>
    BY <1>10, RunsWorkDoes
  <2>2. ToSet(done') = ToSet(done) \cup ToSet(work) /\ ToSet(work') = {}
    BY <1>s, <1>e, <2>1, JoinElements
  <2> QED
    BY <1>t, <1>k, <2>1, <2>2 DEF KeptInv
<1>11. CASE ExitsGame /\ UNCHANGED habits
  <2>1. CASE died' = "remove_callback"
    <3>1. UNCHANGED <<work, done, ncmds, lost, wpc, callbacks>>
      BY <1>11, <2>1, ExitsGameDoes
    <3> QED
      BY <1>f, <3>1
  <2>2. CASE died' = died
    <3>1. lost' = lost \cup ToSet(work) /\ work' = <<>> /\ UNCHANGED <<done, ncmds, wpc>>
      BY <1>11, <2>2, ExitsGameDoes
    <3>2. \A n \in lost' : n < ncmds + 1
      BY <1>t, <1>b, <3>1 DEF KeptInv
    <3>3. wpc.at \in {"defer", "put"} => \A n \in lost' : n < ncmds
      <4>0. DOMAIN work = 1..Len(work)
        BY <1>s
      <4>1. wpc.at \in {"defer", "put"} => \A i \in DOMAIN work : work[i] < ncmds
        BY <1>t, <4>0 DEF WorkInv, Below
      <4>2. wpc.at \in {"defer", "put"} => \A n \in ToSet(work) : n < ncmds
        BY <4>1 DEF ToSet
      <4> QED
        BY <1>t, <3>1, <4>2 DEF KeptInv
    <3>4. ToSet(work') = {} /\ deferred' = deferred
      BY <1>e, <1>k, <3>1
    <3>5. ToSet(done') \cup ToSet(work') \cup lost' = deferred'
      BY <1>t, <3>1, <3>4 DEF KeptInv
    <3>6. lost' \cap (ToSet(done') \cup ToSet(work')) = {}
      BY <1>t, <1>b, <3>1, <3>4 DEF KeptInv
    <3> QED
      BY <3>1, <3>2, <3>3, <3>5, <3>6 DEF KeptInv
  <2> QED
    BY <1>11, Exited, <2>1, <2>2
<1>12. CASE SuspendsThreads /\ UNCHANGED habits
  BY <1>f, <1>12, SuspendsThreadsDoes
<1>13. CASE CreatesHooks /\ UNCHANGED habits
  BY <1>f, <1>13, CreatesHooksDoes
<1>14. CASE InitCallbacks /\ UNCHANGED habits
  <2>1. /\ callbacks' = KeySet /\ UNCHANGED <<work, done, ncmds, lost>>
        /\ wpc.at = "callbacks" /\ wpc'.at = "lock_hooks"
    BY <1>14, InitCallbacksDoes
  <2> QED
    BY <1>t, <1>k, <2>1 DEF KeptInv, KeySet
<1>15. CASE LocksHooks /\ UNCHANGED habits
  BY <1>f, <1>15, LocksHooksDoes
<1>16. CASE EndsAdding /\ UNCHANGED habits
  BY <1>f, <1>16, EndsAddingDoes
<1>17. CASE AddsCallback /\ UNCHANGED habits
  BY <1>f, <1>17, AddsCallbackDoes
<1>18. CASE Configures /\ UNCHANGED habits
  BY <1>f, <1>18, ConfiguresDoes
<1>19. CASE LocksState /\ UNCHANGED habits
  BY <1>f, <1>19, LocksStateDoes
<1>20. CASE YieldsState /\ UNCHANGED habits
  BY <1>f, <1>20, YieldsStateDoes
<1>21. CASE RegainsState /\ UNCHANGED habits
  BY <1>f, <1>21, RegainsStateDoes
<1>22. CASE CopiesState /\ UNCHANGED habits
  BY <1>f, <1>22, CopiesStateDoes
<1>23. CASE ReleasesGame /\ UNCHANGED habits
  BY <1>f, <1>23, ReleasesGameDoes
<1>24. CASE LooksUpCallback /\ UNCHANGED habits
  BY <1>f, <1>24, LooksUpCallbackDoes
<1>25. CASE PutsWork /\ UNCHANGED habits
  <2>1. UNCHANGED <<done, ncmds, lost, callbacks>> /\ wpc.at = "put" /\ wpc'.at = "rest"
    BY <1>25, PutsWorkDoes
  <2>2. \/ UNCHANGED <<work, deferred>>
        \/ /\ work' = Append(work, ncmds) /\ deferred' = deferred \cup {ncmds}
           /\ "cb_game_command" \in callbacks
    BY <1>25 DEF PutsWork
  <2>3. CASE UNCHANGED <<work, deferred>>
    BY <1>t, <2>1, <2>3 DEF KeptInv
  <2>4. CASE /\ work' = Append(work, ncmds) /\ deferred' = deferred \cup {ncmds}
             /\ "cb_game_command" \in callbacks
    <3>1. ToSet(work') = ToSet(work) \cup {ncmds}
      BY <1>s, <2>4, JoinElements
    <3>2. ncmds \notin lost
      <4>1. \A n \in lost : n < ncmds
        BY <1>t, <2>1 DEF KeptInv
      <4>2. ~(ncmds < ncmds)
        BY <1>s
      <4> QED
        BY <4>1, <4>2
    <3> QED
      BY <1>t, <2>1, <2>4, <3>1, <3>2 DEF KeptInv
  <2> QED
    BY <2>2, <2>3, <2>4
<1>26. CASE Records /\ UNCHANGED habits
  BY <1>f, <1>26, RecordsDoes
<1>27. CASE Expires /\ UNCHANGED habits
  BY <1>f, <1>27, ExpiresDoes
<1>28. ASSUME NEW h \in HookNames, GameReaches(h), UNCHANGED habits
      PROVE  KeptInv'
  BY <1>f, <1>28, GameReachesDoes
<1>29. ASSUME NEW c \in CommandNames, Starts(c), UNCHANGED habits
      PROVE  KeptInv'
  <2>1. UNCHANGED <<work, done, lost, callbacks>> /\ ncmds' = ncmds + 1 /\ wpc.at = "rest"
    BY <1>29, StartsDoes
  <2>2. lost \in SUBSET (1..MaxCommands) /\ 1..MaxCommands \subseteq Nat
    BY <1>t, HooksAssumption DEF WorkTypes
  <2>3. \A n \in lost : n < ncmds' /\ n < ncmds' + 1
    BY <1>t, <1>s, <2>1, <2>2 DEF KeptInv
  <2> QED
    BY <1>t, <1>k, <2>1, <2>3 DEF KeptInv
<1>30. CASE UNCHANGED vars
  BY <1>f, <1>30 DEF vars, moving, codeVars, locks, stateVars, stepVars, histVars
<1>31. CASE FailsToRecord /\ UNCHANGED habits
  BY <1>f, <1>31, FailsToRecordDoes
<1> QED
  BY <1>1, <1>2, <1>3, <1>4, <1>5, <1>6, <1>7, <1>8, <1>9, <1>10, <1>11, <1>12, <1>13,
     <1>14, <1>15, <1>16, <1>17, <1>18, <1>19, <1>20, <1>21, <1>22, <1>23, <1>24, <1>25,
     <1>26, <1>27, <1>28, <1>29, <1>30, <1>31 DEF Next, InHook, Worker, CommandNames

(* Every step keeps the recorder with its callback. *)
LEMMA RecorderNext ==
  ASSUME GInv, [Next]_vars
  PROVE  RecorderInv'
<1>t. RecorderInv /\ CodeTypes /\ StateTypes /\ CodeInv /\ GamePlace
  BY DEF GInv, HTypes
<1>f. UNCHANGED <<callbacks, recorder, queue, habits>> => RecorderInv'
  BY <1>t DEF RecorderInv
<1>1. CASE EntersHook /\ UNCHANGED habits
  BY <1>f, <1>1, EntersHookDoes
<1>2. CASE LeavesHook /\ UNCHANGED habits
  BY <1>f, <1>2, LeavesHookDoes
<1>3. CASE CallsBack /\ UNCHANGED habits
  BY <1>f, <1>3, CallsBackDoes
<1>4. CASE UpdatesProgress /\ UNCHANGED habits
  BY <1>f, <1>4, UpdatesProgressDoes
<1>5. CASE ParsesState /\ UNCHANGED habits
  BY <1>f, <1>5, ParsesStateDoes
<1>6. CASE PushesState /\ UNCHANGED habits
  <2>1. gpc.at = "push" /\ UNCHANGED <<callbacks, recorder>>
    BY <1>6, PushesStateDoes
  <2>2. "save_state" \in callbacks
    BY <1>t, <2>1 DEF GamePlace, CodeInv
  <2> QED
    BY <1>t, <1>6, <2>1, <2>2 DEF RecorderInv
<1>7. CASE Unlocks /\ UNCHANGED habits
  BY <1>f, <1>7, UnlocksDoes
<1>8. CASE Pauses /\ UNCHANGED habits
  BY <1>f, <1>8, PausesDoes
<1>9. CASE Resumes /\ UNCHANGED habits
  BY <1>f, <1>9, ResumesDoes
<1>10. CASE RunsWork /\ UNCHANGED habits
  BY <1>f, <1>10, RunsWorkDoes
<1>11. CASE ExitsGame /\ UNCHANGED habits
  <2>1. CASE died' = "remove_callback"
    <3>1. UNCHANGED <<callbacks, recorder, queue>>
      BY <1>11, <2>1, ExitsGameDoes
    <3> QED
      BY <1>f, <1>11, <3>1
  <2>2. CASE died' = died
    <3>1. queue' = <<>> /\ callbacks' = callbacks \cap {"gameloop_exit"}
      BY <1>11, <2>2, ExitsGameDoes, Exited
    <3>2. "save_state" \notin callbacks'
      BY <3>1
    <3> QED
      BY <3>1, <3>2 DEF RecorderInv
  <2> QED
    BY <1>11, Exited, <2>1, <2>2
<1>12. CASE SuspendsThreads /\ UNCHANGED habits
  BY <1>f, <1>12, SuspendsThreadsDoes
<1>13. CASE CreatesHooks /\ UNCHANGED habits
  BY <1>f, <1>13, CreatesHooksDoes
<1>14. CASE InitCallbacks /\ UNCHANGED habits
  <2>1. recorder' = (recorder \/ "save_state" \notin callbacks) /\ queue' = queue
    BY <1>14, InitCallbacksDoes
  <2> QED
    BY <1>t, <1>14, <2>1 DEF RecorderInv
<1>15. CASE LocksHooks /\ UNCHANGED habits
  BY <1>f, <1>15, LocksHooksDoes
<1>16. CASE EndsAdding /\ UNCHANGED habits
  BY <1>f, <1>16, EndsAddingDoes
<1>17. CASE AddsCallback /\ UNCHANGED habits
  BY <1>f, <1>17, AddsCallbackDoes
<1>18. CASE Configures /\ UNCHANGED habits
  BY <1>f, <1>18, ConfiguresDoes
<1>19. CASE LocksState /\ UNCHANGED habits
  BY <1>f, <1>19, LocksStateDoes
<1>20. CASE YieldsState /\ UNCHANGED habits
  BY <1>f, <1>20, YieldsStateDoes
<1>21. CASE RegainsState /\ UNCHANGED habits
  BY <1>f, <1>21, RegainsStateDoes
<1>22. CASE CopiesState /\ UNCHANGED habits
  BY <1>f, <1>22, CopiesStateDoes
<1>23. CASE ReleasesGame /\ UNCHANGED habits
  BY <1>f, <1>23, ReleasesGameDoes
<1>24. CASE LooksUpCallback /\ UNCHANGED habits
  BY <1>f, <1>24, LooksUpCallbackDoes
<1>25. CASE PutsWork /\ UNCHANGED habits
  BY <1>f, <1>25, PutsWorkDoes
<1>26. CASE Records /\ UNCHANGED habits
  BY <1>26, RecordsDoes DEF RecorderInv
<1>27. CASE Expires /\ UNCHANGED habits
  BY <1>27, ExpiresDoes DEF RecorderInv
<1>28. ASSUME NEW h \in HookNames, GameReaches(h), UNCHANGED habits
      PROVE  RecorderInv'
  BY <1>f, <1>28, GameReachesDoes
<1>29. ASSUME NEW c \in CommandNames, Starts(c), UNCHANGED habits
      PROVE  RecorderInv'
  BY <1>f, <1>29, StartsDoes DEF CommandNames
<1>30. CASE UNCHANGED vars
  BY <1>f, <1>30 DEF vars, moving, codeVars, locks, stateVars, stepVars, histVars
<1>31. CASE FailsToRecord /\ UNCHANGED habits
  BY <1>31, FailsToRecordDoes DEF RecorderInv
<1> QED
  BY <1>1, <1>2, <1>3, <1>4, <1>5, <1>6, <1>7, <1>8, <1>9, <1>10, <1>11, <1>12, <1>13,
     <1>14, <1>15, <1>16, <1>17, <1>18, <1>19, <1>20, <1>21, <1>22, <1>23, <1>24, <1>25,
     <1>26, <1>27, <1>28, <1>29, <1>30, <1>31 DEF Next, InHook, Worker, CommandNames

(* Every step keeps single-step mode in the hands of the clients. *)
LEMMA ModeNext ==
  ASSUME GInv, [Next]_vars
  PROVE  ModeInv'
<1>t. ModeInv
  BY DEF GInv
<1>f. UNCHANGED <<single_step, habits>> /\ (wpc'.at = "config" => wpc.at = "config") => ModeInv'
  BY <1>t DEF ModeInv
<1>1. CASE EntersHook /\ UNCHANGED habits
  BY <1>f, <1>1, EntersHookDoes
<1>2. CASE LeavesHook /\ UNCHANGED habits
  BY <1>f, <1>2, LeavesHookDoes
<1>3. CASE CallsBack /\ UNCHANGED habits
  BY <1>f, <1>3, CallsBackDoes
<1>4. CASE UpdatesProgress /\ UNCHANGED habits
  BY <1>f, <1>4, UpdatesProgressDoes
<1>5. CASE ParsesState /\ UNCHANGED habits
  BY <1>f, <1>5, ParsesStateDoes
<1>6. CASE PushesState /\ UNCHANGED habits
  BY <1>f, <1>6, PushesStateDoes
<1>7. CASE Unlocks /\ UNCHANGED habits
  BY <1>f, <1>7, UnlocksDoes
<1>8. CASE Pauses /\ UNCHANGED habits
  BY <1>f, <1>8, PausesDoes
<1>9. CASE Resumes /\ UNCHANGED habits
  BY <1>f, <1>9, ResumesDoes
<1>10. CASE RunsWork /\ UNCHANGED habits
  BY <1>f, <1>10, RunsWorkDoes
<1>11. CASE ExitsGame /\ UNCHANGED habits
  BY <1>f, <1>11, ExitsGameDoes
<1>12. CASE SuspendsThreads /\ UNCHANGED habits
  BY <1>f, <1>12, SuspendsThreadsDoes
<1>13. CASE CreatesHooks /\ UNCHANGED habits
  BY <1>f, <1>13, CreatesHooksDoes
<1>14. CASE InitCallbacks /\ UNCHANGED habits
  BY <1>f, <1>14, InitCallbacksDoes
<1>15. CASE LocksHooks /\ UNCHANGED habits
  BY <1>f, <1>15, LocksHooksDoes
<1>16. CASE EndsAdding /\ UNCHANGED habits
  BY <1>f, <1>16, EndsAddingDoes
<1>17. CASE AddsCallback /\ UNCHANGED habits
  BY <1>f, <1>17, AddsCallbackDoes
<1>18. CASE Configures /\ UNCHANGED habits
  BY <1>t, <1>18, ConfiguresDoes DEF ModeInv
<1>19. CASE LocksState /\ UNCHANGED habits
  BY <1>f, <1>19, LocksStateDoes
<1>20. CASE YieldsState /\ UNCHANGED habits
  BY <1>f, <1>20, YieldsStateDoes
<1>21. CASE RegainsState /\ UNCHANGED habits
  BY <1>f, <1>21, RegainsStateDoes
<1>22. CASE CopiesState /\ UNCHANGED habits
  BY <1>f, <1>22, CopiesStateDoes
<1>23. CASE ReleasesGame /\ UNCHANGED habits
  BY <1>f, <1>23, ReleasesGameDoes
<1>24. CASE LooksUpCallback /\ UNCHANGED habits
  BY <1>f, <1>24, LooksUpCallbackDoes
<1>25. CASE PutsWork /\ UNCHANGED habits
  BY <1>f, <1>25, PutsWorkDoes
<1>26. CASE Records /\ UNCHANGED habits
  BY <1>f, <1>26, RecordsDoes
<1>27. CASE Expires /\ UNCHANGED habits
  BY <1>f, <1>27, ExpiresDoes
<1>28. ASSUME NEW h \in HookNames, GameReaches(h), UNCHANGED habits
      PROVE  ModeInv'
  BY <1>f, <1>28, GameReachesDoes
<1>29. ASSUME NEW c \in CommandNames, Starts(c), UNCHANGED habits
      PROVE  ModeInv'
  <2>1. wpc'.at = c /\ single_step' = single_step
    BY <1>29, StartsDoes
  <2>2. c = "config" => "step" \in habits
    BY <1>29 DEF Starts, Commands
  <2> QED
    BY <1>t, <1>29, <2>1, <2>2 DEF ModeInv
<1>30. CASE UNCHANGED vars
  BY <1>f, <1>30 DEF vars, moving, codeVars, locks, stateVars, stepVars, histVars
<1>31. CASE FailsToRecord /\ UNCHANGED habits
  BY <1>f, <1>31, FailsToRecordDoes
<1> QED
  BY <1>1, <1>2, <1>3, <1>4, <1>5, <1>6, <1>7, <1>8, <1>9, <1>10, <1>11, <1>12, <1>13,
     <1>14, <1>15, <1>16, <1>17, <1>18, <1>19, <1>20, <1>21, <1>22, <1>23, <1>24, <1>25,
     <1>26, <1>27, <1>28, <1>29, <1>30, <1>31 DEF Next, InHook, Worker, CommandNames

(* A pushed state is the last on its way. *)
LEMMA PushKeeps ==
  ASSUME NEW r \in Seq(Nat), NEW q \in Seq(Nat), NEW f, NEW n \in Nat, n >= 1,
         FramesKept(r, q, f, n - 1)
  PROVE  FramesKept(r, Append(q, n), f, n)
<1>1. ToSet(r) \cup ToSet(q) \cup f = 1..n - 1
  BY DEF FramesKept
<1>2. \A m \in 1..n - 1 : m < n
  OBVIOUS
<1>3. (\A i \in DOMAIN r : r[i] < n) /\ (\A i \in DOMAIN q : q[i] < n)
  <2>1. (\A i \in DOMAIN r : r[i] \in 1..n - 1) /\ (\A i \in DOMAIN q : q[i] \in 1..n - 1)
    BY <1>1 DEF ToSet
  <2> QED
    BY <1>2, <2>1
<1>4. Below(r, n) /\ Below(q, n)
  BY <1>3 DEF Below
<1>5. Rising(r) /\ Rising(Append(q, n))
  BY <1>4, AppendRises DEF FramesKept
<1>6. \A i \in 1..Len(r), j \in 1..Len(Append(q, n)) : r[i] < Append(q, n)[j]
  <2>1. /\ Len(Append(q, n)) = Len(q) + 1 /\ Len(q) \in Nat
        /\ \A j \in 1..Len(q) + 1 : Append(q, n)[j] = IF j = Len(q) + 1 THEN n ELSE q[j]
    OBVIOUS
  <2>2. \A j \in 1..Len(q) + 1 : j = Len(q) + 1 \/ j \in 1..Len(q)
    BY <2>1
  <2> QED
    BY <1>4, <2>1, <2>2 DEF FramesKept, Below
<1>7. ToSet(Append(q, n)) = ToSet(q) \cup {n}
  BY JoinElements
<1>8. (1..n - 1) \cup {n} = 1..n
  OBVIOUS
<1>9. ToSet(r) \cup ToSet(Append(q, n)) \cup f = 1..n
  BY <1>1, <1>7, <1>8
<1> QED
  BY <1>5, <1>6, <1>9 DEF FramesKept

(* A state that the recorder takes is written or fails. *)
LEMMA TakeKeeps ==
  ASSUME NEW r \in Seq(Nat), NEW q \in Seq(Nat), q # <<>>, NEW f, NEW n \in Nat,
         FramesKept(r, q, f, n)
  PROVE  /\ FramesKept(Append(r, Head(q)), Tail(q), f, n)
         /\ FramesKept(r, Tail(q), f \cup {Head(q)}, n)
<1>1. PICK h \in Nat : h = Head(q)
  BY HeadAndTail
<1>2. PICK s \in Seq(Nat) : s = Tail(q)
  BY HeadAndTail
<1>3. /\ h = q[1] /\ Len(s) = Len(q) - 1 /\ Len(q) \in Nat /\ 1 \in 1..Len(q)
      /\ \A i \in 1..Len(q) - 1 : s[i] = q[i + 1] /\ i + 1 \in 1..Len(q)
      /\ ToSet(q) = {h} \cup ToSet(s)
  BY <1>1, <1>2, HeadAndTail
<1>4. Rising(s)
  <2> SUFFICES ASSUME NEW i \in 1..Len(s), NEW j \in 1..Len(s), i < j PROVE s[i] < s[j]
    BY DEF Rising
  <2>1. i \in 1..Len(q) - 1 /\ j \in 1..Len(q) - 1 /\ i + 1 < j + 1
    BY <1>3
  <2>2. /\ s[i] = q[i + 1] /\ s[j] = q[j + 1]
        /\ i + 1 \in 1..Len(q) /\ j + 1 \in 1..Len(q)
    BY <1>3, <2>1
  <2> QED
    BY <2>1, <2>2 DEF Rising, FramesKept
<1>5. \A j \in 1..Len(s) : h < s[j]
  <2>1. \A j \in 1..Len(s) : 1 < j + 1 /\ s[j] = q[j + 1] /\ j + 1 \in 1..Len(q)
    BY <1>3
  <2> QED
    BY <1>3, <2>1 DEF Rising, FramesKept
<1>6. \A i \in 1..Len(r), j \in 1..Len(s) : r[i] < s[j]
  <2>1. \A j \in 1..Len(s) : s[j] = q[j + 1] /\ j + 1 \in 1..Len(q)
    BY <1>3
  <2> QED
    BY <2>1 DEF FramesKept
<1>7. Below(r, h)
  BY <1>3 DEF Below, FramesKept
<1>8. Rising(r) /\ Rising(Append(r, h))
  BY <1>7, AppendRises DEF FramesKept
<1>9. \A i \in 1..Len(Append(r, h)), j \in 1..Len(s) : Append(r, h)[i] < s[j]
  <2>1. /\ Len(Append(r, h)) = Len(r) + 1 /\ Len(r) \in Nat
        /\ \A i \in 1..Len(r) + 1 : Append(r, h)[i] = IF i = Len(r) + 1 THEN h ELSE r[i]
    BY SMTT(30)
  <2>2. \A i \in 1..Len(r) + 1 : i = Len(r) + 1 \/ i \in 1..Len(r)
    BY <2>1
  <2> QED
    BY <1>5, <1>6, <2>1, <2>2
<1>10. ToSet(Append(r, h)) = ToSet(r) \cup {h}
  BY JoinElements
<1>11. ToSet(r) \cup ToSet(q) \cup f = 1..n
  BY DEF FramesKept
<1>12. /\ ToSet(Append(r, h)) \cup ToSet(s) \cup f = 1..n
       /\ ToSet(r) \cup ToSet(s) \cup (f \cup {h}) = 1..n
  BY <1>3, <1>10, <1>11
<1>13. FramesKept(Append(r, h), s, f, n) /\ FramesKept(r, s, f \cup {h}, n)
  BY <1>4, <1>6, <1>8, <1>9, <1>12 DEF FramesKept
<1> QED
  BY <1>1, <1>2, <1>13

(* Every step keeps the saved frames. *)
LEMMA RecordNext ==
  ASSUME GInv, [Next]_vars
  PROVE  RecordInv'
<1>t. /\ CodeTypes /\ PlaceTypes /\ StateTypes /\ GamePlace /\ WorkerPlace
      /\ LoadInv /\ CodeInv /\ InOrder /\ SaveInv /\ RecordInv
  BY DEF GInv, HTypes, CodeInv
<1>n. NF \in 0..2 /\ NL \in 0..1 /\ NE \in 0..1
  BY <1>t, Lengths
<1>h. gpc.h \in HookNames \cup {"none"} /\ gpc.i \in Nat
  BY <1>t DEF PlaceTypes, GameRecords
<1>q. queue \in Seq(Nat) /\ record \in Seq(Nat) /\ saved \in Nat /\ frame \in Nat
  BY <1>t, HooksAssumption DEF StateTypes
<1>k. queue' = queue => failed' = failed
  <2>1. FailsToRecord => queue # <<>> /\ queue' = Tail(queue)
    BY FailsToRecordDoes
  <2>2. queue # <<>> => Tail(queue) # queue
    <3>1. queue # <<>> => Len(Tail(queue)) = Len(queue) - 1 /\ Len(queue) \in Nat
      BY <1>q, HeadAndTail
    <3> QED
      BY <3>1
  <2> QED
    BY <2>1, <2>2, HistoryKept
<1>f. /\ UNCHANGED <<record, queue, saved, habits>>
      /\ gpc'.at = "push" <=> gpc.at = "push"
      => RecordInv'
  BY <1>t, <1>k DEF RecordInv, Plain
<1>1. CASE EntersHook /\ UNCHANGED habits
  BY <1>f, <1>1, EntersHookDoes
<1>2. CASE LeavesHook /\ UNCHANGED habits
  BY <1>f, <1>2, LeavesHookDoes
<1>3. CASE CallsBack /\ UNCHANGED habits
  <2>1. /\ gpc.at = "next" /\ gpc.i <= Len(registered[gpc.h]) /\ gpc'.at = registered[gpc.h][gpc.i]
        /\ gpc'.h = gpc.h /\ gpc'.i = gpc.i /\ UNCHANGED <<registered, hooks>>
    BY <1>3, CallsBackDoes
  <2>2. /\ gpc.h = "frame" /\ gpc.i = 1 => gpc'.at = "cb_game_command"
        /\ gpc.h = "frame" /\ gpc.i = 2 => gpc'.at = "save_state"
        /\ gpc.h = "load" /\ gpc.i = 1 => gpc'.at = "cb_progress_update"
        /\ gpc.h = "exit" /\ gpc.i = 1 => gpc'.at = "gameloop_exit"
    BY <1>t, <2>1, Elements
  <2>3. /\ gpc.h = "frame" => gpc.i \in 1..NF /\ gpc.i \in 1..2
        /\ gpc.h = "load" => gpc.i = 1 /\ 1 <= NL
        /\ gpc.h = "exit" => gpc.i = 1 /\ 1 <= NE
        /\ gpc.h \in {"frame", "load", "exit"}
    BY <1>t, <1>n, <1>h, <2>1 DEF GamePlace, NF, NL, NE, HookNames
  <2>4. gpc'.at # "push" /\ gpc.at # "push"
    BY <2>1, <2>2, <2>3
  <2> QED
    BY <1>3, <1>f, <2>4, CallsBackDoes
<1>4. CASE UpdatesProgress /\ UNCHANGED habits
  BY <1>f, <1>4, UpdatesProgressDoes
<1>5. CASE ParsesState /\ UNCHANGED habits
  <2>1. /\ gpc.at = "save_state" /\ gpc'.at = "push" /\ saved' = frame
        /\ UNCHANGED <<record, queue>>
    BY <1>5, ParsesStateDoes
  <2>2. Plain => saved = frame - 1
    BY <1>t, <2>1 DEF GamePlace, SaveInv, Loads, Unparsed
  <2>3. Plain => saved' - 1 = saved /\ saved' >= 1
    BY <1>q, <2>1, <2>2
  <2>4. failed' = failed
    BY <1>k, <2>1
  <2> QED
    BY <1>t, <1>5, <2>1, <2>3, <2>4 DEF RecordInv, Plain
<1>6. CASE PushesState /\ UNCHANGED habits
  <2>1. /\ gpc.at = "push" /\ gpc'.at = "next" /\ queue' = Append(queue, saved)
        /\ UNCHANGED <<record, saved>>
    BY <1>6, PushesStateDoes
  <2>2. failed' = failed
    BY <1>6 DEF PushesState, histVars
  <2>3. Plain => saved >= 1 /\ FramesKept(record, queue, failed, saved - 1)
    BY <1>t, <2>1 DEF RecordInv
  <2>4. Plain => FramesKept(record, Append(queue, saved), failed, saved)
    BY <1>q, <2>3, PushKeeps
  <2> QED
    BY <1>t, <1>6, <2>1, <2>2, <2>4 DEF RecordInv, Plain
<1>7. CASE Unlocks /\ UNCHANGED habits
  BY <1>f, <1>7, UnlocksDoes
<1>8. CASE Pauses /\ UNCHANGED habits
  BY <1>f, <1>8, PausesDoes
<1>9. CASE Resumes /\ UNCHANGED habits
  BY <1>f, <1>9, ResumesDoes
<1>10. CASE RunsWork /\ UNCHANGED habits
  BY <1>f, <1>10, RunsWorkDoes
<1>11. CASE ExitsGame /\ UNCHANGED habits
  <2>1. /\ gpc.at = "gameloop_exit" /\ gpc'.at = "next" /\ saved' = saved /\ died = "no"
        /\ record' = record
    BY <1>11, ExitsGameDoes
  <2>2. CASE died' = "remove_callback"
    BY <1>f, <1>11, <2>1, <2>2, ExitsGameDoes
  <2>3. CASE died' = died
    <3>1. (recorder => queue = <<>>) /\ queue' = <<>>
      BY <1>11, <2>1, <2>3, ExitsGameDoes
    <3>2. Plain => recorder \/ queue = <<>>
      BY <1>t, <2>1 DEF SaveInv, Loads
    <3>3. Plain => queue' = queue
      BY <3>1, <3>2
    <3>4. CASE Plain
      BY <1>f, <1>11, <2>1, <3>3, <3>4
    <3>5. CASE ~Plain
      BY <1>11, <3>5 DEF RecordInv, Plain
    <3> QED
      BY <3>4, <3>5
  <2> QED
    BY <1>11, Exited, <2>2, <2>3
<1>12. CASE SuspendsThreads /\ UNCHANGED habits
  BY <1>f, <1>12, SuspendsThreadsDoes
<1>13. CASE CreatesHooks /\ UNCHANGED habits
  BY <1>f, <1>13, CreatesHooksDoes
<1>14. CASE InitCallbacks /\ UNCHANGED habits
  <2>1. /\ wpc.at = "callbacks" /\ record' = <<>> /\ UNCHANGED <<gpc, queue, saved>>
    BY <1>14, InitCallbacksDoes
  <2>2. Plain => Loads
    BY <1>t, <2>1 DEF CodeInv, Plain
  <2>3. Plain => record' = record
    BY <1>t, <2>1, <2>2 DEF LoadInv
  <2>4. CASE Plain
    BY <1>f, <1>14, <2>1, <2>3, <2>4
  <2>5. CASE ~Plain
    BY <1>14, <2>5 DEF RecordInv, Plain
  <2> QED
    BY <2>4, <2>5
<1>15. CASE LocksHooks /\ UNCHANGED habits
  BY <1>f, <1>15, LocksHooksDoes
<1>16. CASE EndsAdding /\ UNCHANGED habits
  <2>1. /\ UNCHANGED <<record, queue, saved>> /\ (gpc'.at = "outside" \/ gpc' = gpc)
        /\ wpc.cmd # "init" => gpc' = gpc
    BY <1>16, EndsAddingDoes
  <2>2. wpc.cmd = "init" => gpc.at # "push" /\ gpc'.at # "push"
    BY <1>t, <1>16, EndsAddingDoes DEF WorkerPlace, Loads
  <2> QED
    BY <1>f, <1>16, <2>1, <2>2
<1>17. CASE AddsCallback /\ UNCHANGED habits
  BY <1>f, <1>17, AddsCallbackDoes
<1>18. CASE Configures /\ UNCHANGED habits
  BY <1>f, <1>18, ConfiguresDoes
<1>19. CASE LocksState /\ UNCHANGED habits
  BY <1>f, <1>19, LocksStateDoes
<1>20. CASE YieldsState /\ UNCHANGED habits
  BY <1>f, <1>20, YieldsStateDoes
<1>21. CASE RegainsState /\ UNCHANGED habits
  BY <1>f, <1>21, RegainsStateDoes
<1>22. CASE CopiesState /\ UNCHANGED habits
  BY <1>f, <1>22, CopiesStateDoes
<1>23. CASE ReleasesGame /\ UNCHANGED habits
  BY <1>f, <1>23, ReleasesGameDoes
<1>24. CASE LooksUpCallback /\ UNCHANGED habits
  BY <1>f, <1>24, LooksUpCallbackDoes
<1>25. CASE PutsWork /\ UNCHANGED habits
  BY <1>f, <1>25, PutsWorkDoes
<1>26. CASE Records /\ UNCHANGED habits
  <2>1. /\ record' = Append(record, Head(queue)) /\ queue' = Tail(queue) /\ queue # <<>>
        /\ UNCHANGED <<gpc, saved>>
    BY <1>26, RecordsDoes
  <2>2. failed' = failed
    BY <1>26 DEF Records, histVars
  <2>3. \A n \in Nat : FramesKept(record, queue, failed, n)
                         => FramesKept(Append(record, Head(queue)), Tail(queue), failed, n)
    BY <1>q, <2>1, TakeKeeps
  <2>4. saved >= 1 => saved - 1 \in Nat
    BY <1>q
  <2> QED
    BY <1>t, <1>q, <1>26, <2>1, <2>2, <2>3, <2>4 DEF RecordInv, Plain
<1>27. CASE Expires /\ UNCHANGED habits
  BY <1>f, <1>27, ExpiresDoes
<1>28. ASSUME NEW h \in HookNames, GameReaches(h), UNCHANGED habits
      PROVE  RecordInv'
  BY <1>f, <1>28, GameReachesDoes
<1>29. ASSUME NEW c \in CommandNames, Starts(c), UNCHANGED habits
      PROVE  RecordInv'
  BY <1>f, <1>29, StartsDoes DEF CommandNames
<1>30. CASE UNCHANGED vars
  BY <1>f, <1>30 DEF vars, moving, codeVars, locks, stateVars, stepVars, histVars
<1>31. CASE FailsToRecord /\ UNCHANGED habits
  <2>1. /\ failed' = failed \cup {Head(queue)} /\ queue' = Tail(queue) /\ queue # <<>>
        /\ UNCHANGED <<gpc, saved, record>> /\ "fails" \in habits
    BY <1>31, FailsToRecordDoes
  <2>3. \A n \in Nat : FramesKept(record, queue, failed, n)
                         => FramesKept(record, Tail(queue), failed \cup {Head(queue)}, n)
    BY <1>q, <2>1, TakeKeeps
  <2>4. saved >= 1 => saved - 1 \in Nat
    BY <1>q
  <2> QED
    BY <1>t, <1>q, <1>31, <2>1, <2>3, <2>4 DEF RecordInv, Plain
<1> QED
  BY <1>1, <1>2, <1>3, <1>4, <1>5, <1>6, <1>7, <1>8, <1>9, <1>10, <1>11, <1>12, <1>13,
     <1>14, <1>15, <1>16, <1>17, <1>18, <1>19, <1>20, <1>21, <1>22, <1>23, <1>24, <1>25,
     <1>26, <1>27, <1>28, <1>29, <1>30, <1>31 DEF Next, InHook, Worker, CommandNames

(* Initially nothing is hooked, and either the game runs or the service is   *)
(* about to create its hooks.                                                *)
LEMMA HooksInit == Init => GInv
<1> SUFFICES ASSUME Init PROVE GInv
  OBVIOUS
<1>1. /\ hooks = {} /\ callbacks = {} /\ registered = [h \in HookNames |-> <<>>]
      /\ mutex = [m \in Mutexes |-> "none"] /\ suspended = FALSE /\ ingame = FALSE /\ frame = 0
      /\ stage = "none" /\ saved = 0 /\ recorder = FALSE /\ queue = <<>> /\ record = <<>>
      /\ single_step = FALSE /\ game_paused = FALSE /\ work = <<>> /\ ncmds = 0
      /\ done = <<>> /\ lost = {} /\ seen = 0 /\ died = "no" /\ habits \in SUBSET Habits
      /\ deferred = {} /\ failed = {}
  BY HooksAssumption DEF Init, Mutexes
<1>2. /\ "late" \in habits => gpc = GAt("outside", "none", 0) /\ wpc = WAt("rest", "none", 0)
      /\ "late" \notin habits => gpc = GAt("loading", "none", 0) /\ wpc = WAt("create", "init", 1)
  BY DEF Init, Outside, Resting, Loading
<1>3. /\ gpc.at = (IF "late" \in habits THEN "outside" ELSE "loading") /\ gpc.h = "none" /\ gpc.i = 0
      /\ wpc.at = (IF "late" \in habits THEN "rest" ELSE "create")
      /\ wpc.cmd = (IF "late" \in habits THEN "none" ELSE "init")
      /\ gpc \in GameRecords /\ wpc \in WorkerRecords
  BY <1>2 DEF GAt, WAt, GameRecords, WorkerRecords, GamePlaces, WorkerPlaces, CommandNames
<1>4. \A h \in HookNames : registered[h] = <<>> /\ Len(registered[h]) = 0
  BY <1>1
<1>5. NF = 0 /\ NL = 0 /\ NE = 0
  BY <1>4 DEF NF, NL, NE, HookNames
<1>6. CodeTypes
  <2>1. registered \in [HookNames -> Seq(KeySet)]
    <3>1. <<>> \in Seq(KeySet)
      OBVIOUS
    <3> QED
      BY <1>1, <3>1
  <2> QED
    BY <1>1, <2>1 DEF CodeTypes, Holders
<1>7. StateTypes /\ WorkTypes
  <2>1. /\ <<>> \in Seq(Nat) /\ <<>> \in Seq(1..MaxCommands) /\ Len(<<>>) <= RecorderSize
        /\ 0 \in 0..MaxFrames /\ 0 \in 0..MaxCommands
    BY HooksAssumption
  <2>2. StateTypes
    BY <1>1, <2>1 DEF StateTypes
  <2>3. WorkTypes
    BY <1>1, <2>1 DEF WorkTypes
  <2> QED
    BY <2>2, <2>3
<1>8. InOrder
  <2>1. \A h \in HookNames : Slots[h] \in Nat
    BY KeyFacts DEF HookNames
  <2> QED
    BY <1>4, <2>1 DEF InOrder
<1>9. GamePlace /\ WorkerPlace /\ LoadInv /\ CodeInv
  BY <1>1, <1>3, <1>5, <1>8 DEF GamePlace, WorkerPlace, LoadInv, CodeInv, Loads
<1>10. LockInv
  BY <1>1, <1>3 DEF LockInv, Mutexes, HookNames, GameHolds, WorkerHolds, KeySet
<1>11. SaveInv /\ StepInv
  BY <1>1, <1>3, <1>5 DEF SaveInv, StepInv
<1>12. WorkInv
  BY <1>1, <1>3 DEF WorkInv, Rising, Below
<1>13. ToSet(<<>>) = {}
  BY DEF ToSet
<1>14. KeptInv /\ RecorderInv /\ ModeInv
  BY <1>1, <1>3, <1>13 DEF KeptInv, RecorderInv, ModeInv
<1>15. RecordInv
  BY <1>1, <1>3, <1>13 DEF RecordInv, FramesKept, Rising
<1> QED
  BY <1>3, <1>6, <1>7, <1>9, <1>10, <1>11, <1>12, <1>14, <1>15 DEF GInv, HTypes, PlaceTypes

(* The inductive invariant of the hooks. *)
LEMMA HooksInvariant == Spec => []GInv
<1>1. ASSUME GInv, [Next]_vars PROVE GInv'
  BY <1>1, CodeTypesNext, PlaceTypesNext, StateTypesNext, WorkTypesNext, GamePlaceNext, LockNext,
     WorkerPlaceNext, LoadNext, CodeNext, SaveNext, StepNext, WorkNext, KeptNext, RecorderNext,
     ModeNext, RecordNext DEF GInv, HTypes
<1> QED
  BY <1>1, HooksInit, PTL DEF Spec

-----------------------------------------------------------------------------
(* The hooks hold callbacks of their own, the maps, flags and numbers keep   *)
(* their types, and the recorder's queue stays within its bound.             *)
THEOREM HooksTypeOK == Spec => []TypeOK
<1>1. GInv => TypeOK
  <2> SUFFICES ASSUME GInv PROVE TypeOK
    OBVIOUS
  <2>t. CodeTypes /\ StateTypes /\ WorkTypes /\ InOrder
    BY DEF GInv, HTypes, CodeInv
  <2>1. \A h \in HookNames : ToSet(registered[h]) \subseteq {k \in ToSet(Keys) : Target[k] = h}
    <3> SUFFICES ASSUME NEW h \in HookNames, NEW i \in DOMAIN registered[h]
                 PROVE  registered[h][i] \in ToSet(Keys) /\ Target[registered[h][i]] = h
      BY DEF ToSet
    <3>1. registered[h] \in Seq(KeySet) /\ i \in 1..Len(registered[h])
      BY <2>t DEF CodeTypes
    <3> QED
      BY <2>t, <3>1, KeySetIs DEF InOrder
  <2>2. hooks \subseteq HookNames /\ callbacks \subseteq ToSet(Keys)
    BY <2>t, KeySetIs DEF CodeTypes
  <2>3. ToSet(work) \cup ToSet(done) \cup lost \subseteq 1..MaxCommands
    <3>1. ToSet(work) \subseteq 1..MaxCommands /\ ToSet(done) \subseteq 1..MaxCommands
      BY <2>t, ElementsIn DEF WorkTypes
    <3> QED
      BY <2>t, <3>1 DEF WorkTypes
  <2>4. mutex \in [{"storage", "hooks"} \cup HookNames -> {"none", "game", "worker"}]
    BY <2>t DEF CodeTypes, Mutexes, Holders
  <2>5. {suspended, ingame, recorder, single_step, game_paused} \subseteq BOOLEAN
    BY <2>t DEF CodeTypes, StateTypes
  <2>6. /\ stage \in {"none", "loading", "ingame", "exit"} /\ Len(queue) <= RecorderSize
        /\ frame \in 0..MaxFrames /\ saved \in 0..MaxFrames
    BY <2>t DEF StateTypes
  <2> QED
    BY <2>1, <2>2, <2>3, <2>4, <2>5, <2>6 DEF TypeOK
<1> QED
  BY <1>1, HooksInvariant, PTL

(* Each of the four reasons that can hold the game thread has its cause: it  *)
(* and the worker wait for each other only when callbacks are created while  *)
(* the game runs; it stays suspended only when CreateHooks is repeated; it   *)
(* waits for room in the recorder's queue, with nobody to make it, only when *)
(* the recorder had nothing to do and ended; and it waits for a client only  *)
(* when one has turned single-step mode on.  A hook never calls a destroyed  *)
(* callback, and the process ends only at the end of a match.                *)
THEOREM HooksStopExplained == Spec => []StopsExplained
<1>1. GInv => StopsExplained
  <2> SUFFICES ASSUME GInv PROVE StopsExplained
    OBVIOUS
  <2>t. /\ CodeTypes /\ PlaceTypes /\ StateTypes /\ InOrder /\ GamePlace /\ LockInv /\ WorkerPlace
        /\ CodeInv /\ StepInv /\ RecorderInv /\ ModeInv
    BY DEF GInv, HTypes, CodeInv
  <2>1. Held("locks") => "late" \in habits
    <3> SUFFICES ASSUME Held("locks"), "late" \notin habits PROVE FALSE
      OBVIOUS
    <3>1. /\ gpc.at = "next" /\ gpc.i <= Len(registered[gpc.h]) /\ wpc.at = "add"
          /\ wpc.i <= Len(Keys) /\ Adding \notin ToSet(registered[Target[Adding]])
          /\ mutex[Target[Adding]] = "game"
      BY DEF Held, MayAdd
    <3>2. wpc.i \in 1..5 /\ wpc.i <= 3
      BY <2>t, <3>1 DEF WorkerPlace, CodeInv, Loads
    <3>3. PICK k \in KeySet : k = Keys[wpc.i] /\ Adding = k
      BY <3>2, KeyFacts DEF Adding, KeySet
    <3>4. ~Has(k) /\ Target[k] \in HookNames
      BY <2>t, <3>1, <3>3, Registered, KeyFacts DEF KeySet, HookNames
    <3>5. gpc.h = Target[k]
      BY <2>t, <3>1, <3>3, <3>4 DEF LockInv
    <3>6. Pos[k] = 1
      BY <3>2, <3>3, KeyFacts
    <3>7. registered[gpc.h] \in Seq(KeySet)
      BY <2>t, <3>4, <3>5 DEF CodeTypes
    <3>8. gpc.i >= 1 /\ gpc.i \in Nat /\ Len(registered[gpc.h]) \in Nat
      BY <2>t, <3>1, <3>7 DEF GamePlace, PlaceTypes, GameRecords
    <3>9. ~(1 <= Len(registered[gpc.h]))
      BY <3>4, <3>5, <3>6 DEF Has
    <3> QED
      BY <3>1, <3>8, <3>9
  <2>2. Held("suspended") => "repeat" \in habits
    BY <2>t DEF Held, WorkerPlace
  <2>3. Held("recorder") => "idle" \in habits
    <3> SUFFICES ASSUME Held("recorder"), "idle" \notin habits PROVE FALSE
      OBVIOUS
    <3>1. gpc.at \in {"push", "gameloop_exit"} /\ ~recorder /\ ~(Len(queue) < RecorderSize)
      BY DEF Held, RecorderRoom
    <3>2. queue = <<>>
      BY <2>t, <3>1 DEF RecorderInv
    <3>3. Len(queue) = 0
      BY <3>2
    <3> QED
      BY <3>1, <3>3, HooksAssumption
  <2>4. Held("step") => "step" \in habits /\ single_step
    BY <2>t DEF Held, StepInv, ModeInv
  <2>5. CallbacksAlive
    <3>1. ASSUME NEW h \in HookNames, NEW k \in ToSet(registered[h])
          PROVE  k \in callbacks
      <4>1. PICK i \in DOMAIN registered[h] : k = registered[h][i]
        BY DEF ToSet
      <4>2. i \in 1..Len(registered[h]) /\ k \in KeySet /\ Target[k] = h
        BY <2>t, <4>1 DEF CodeTypes, InOrder
      <4>3. Has(k)
        BY <2>t, <4>2, Registered
      <4> QED
        BY <2>t, <4>2, <4>3, HasLengths DEF CodeInv, KeySet
    <3> QED
      BY <2>t, <3>1 DEF CallbacksAlive, CodeInv
  <2> QED
    BY <2>1, <2>2, <2>3, <2>4, <2>5 DEF StopsExplained, HoldsExplained
<1> QED
  BY <1>1, HooksInvariant, PTL

(* In a match that nothing reopened or expired every saved frame is in the   *)
(* record, on its way there, or one whose write failed; the record is in     *)
(* order and has no frame twice, however the recorder is scheduled and       *)
(* whatever the size of its queue.                                           *)
THEOREM RecordHasEachFrame == Spec => []RecordComplete
<1>1. GInv => RecordComplete
  <2> SUFFICES ASSUME GInv, Plain PROVE RecordComplete
    BY DEF RecordComplete, Plain
  <2>1. record \in Seq(Nat) /\ queue \in Seq(Nat) /\ RecordInv
    BY DEF GInv, HTypes, StateTypes
  <2>2. Rising(record \o queue)
    BY <2>1, JoinRises DEF RecordInv, FramesKept
  <2>3. Rises(record \o queue)
    BY <2>1, <2>2 DEF Rises, Rising
  <2>4. ToSet(record) \cup ToSet(queue) \cup failed = 1..(IF gpc.at = "push" THEN saved - 1 ELSE saved)
    BY <2>1 DEF RecordInv, FramesKept
  <2> QED
    BY <2>1, <2>3, <2>4 DEF RecordComplete, RecordInv
<1> QED
  BY <1>1, HooksInvariant, PTL

(* Deferred commands run in the order in which they were deferred, each      *)
(* once; none disappears but with the callback that held it, which only the  *)
(* end of a match destroys.                                                  *)
THEOREM DeferredInOrder == Spec => []WorkInOrder
<1>1. GInv => WorkInOrder
  <2> SUFFICES ASSUME GInv PROVE WorkInOrder
    OBVIOUS
  <2>1. done \in Seq(Nat) /\ work \in Seq(Nat) /\ WorkInv /\ KeptInv
    BY RisesIn DEF GInv, HTypes, WorkTypes
  <2>2. Rising(done \o work)
    BY <2>1, JoinRises DEF WorkInv
  <2>3. Rises(done \o work)
    BY <2>1, <2>2 DEF Rises, Rising
  <2>4. ToSet(done \o work) = ToSet(done) \cup ToSet(work)
    BY <2>1, JoinElements
  <2> QED
    BY <2>1, <2>3, <2>4 DEF WorkInOrder, WorkInv, KeptInv
<1> QED
  BY <1>1, HooksInvariant, PTL

(* In single-step mode a client that reads the state again and again gets    *)
(* every frame, whatever the game and the worker do in between.              *)
THEOREM EachFrameSeen == Spec => StepSeesEachFrame
<1>1. ASSUME GInv, [Next]_vars PROVE [seen' # seen /\ seen # 0 => seen' \in seen..(seen + 1)]_vars
  <2> SUFFICES ASSUME Next, seen' # seen, seen # 0
               PROVE  seen' \in seen..(seen + 1)
    BY <1>1
  <2>1. ReleasesGame
    <3> USE DEF histVars
    <3>1. /\ (EntersHook \/ LeavesHook \/ CallsBack \/ UpdatesProgress \/ ParsesState) => seen' = seen
          /\ (PushesState \/ Unlocks \/ Pauses \/ Resumes \/ RunsWork) => seen' = seen
          /\ (ExitsGame \/ SuspendsThreads \/ CreatesHooks \/ InitCallbacks \/ LocksHooks) => seen' = seen
          /\ (EndsAdding \/ AddsCallback \/ Configures \/ LocksState \/ YieldsState) => seen' = seen
          /\ (RegainsState \/ CopiesState \/ LooksUpCallback \/ PutsWork \/ Records) => seen' = seen
          /\ (FailsToRecord \/ Expires) => seen' = seen
          /\ (\E h \in HookNames : GameReaches(h)) => seen' = seen
          /\ (\E c \in CommandNames : Starts(c)) => seen' = seen
      BY DEF EntersHook, LeavesHook, CallsBack, UpdatesProgress, ParsesState, PushesState,
         Unlocks, Pauses, Resumes, RunsWork, ExitsGame, SuspendsThreads, CreatesHooks,
         InitCallbacks, LocksHooks, EndsAdding, AddsCallback, Configures, LocksState,
         YieldsState, RegainsState, CopiesState, LooksUpCallback, PutsWork, Records,
         FailsToRecord, Expires, GameReaches, Starts
    <3> QED
      BY <3>1 DEF Next, InHook, Worker, CommandNames
  <2>2. seen' = wpc.i /\ wpc.at = "release"
    BY <1>1, <2>1, ReleasesGameDoes
  <2>3. wpc.i = saved /\ saved \in {seen, seen + 1} /\ seen \in Nat
    BY <1>1, <2>2 DEF GInv, HTypes, StateTypes, StepInv
  <2> QED
    BY <2>2, <2>3
<1> QED
  BY <1>1, HooksInvariant, PTL DEF Spec, StepSeesEachFrame
=============================================================================
