------------------------------ MODULE GameState ------------------------------
(***************************************************************************)
(* What ra2yrcpp knows of the game.  In the hook of each frame CBSaveState *)
(* parses the game's map, technos, factories and event lists into protobuf *)
(* messages, which it reuses from one frame to the next.  The game itself  *)
(* is external: between two frames it changes its own data at will.        *)
(***************************************************************************)
EXTENDS Integers, Sequences, FiniteSets, SequencesExt

CONSTANTS
  MaxFrames,                \* bound on frames, by part
  Parts,                    \* what the game changes: "cells", "objects", "factories" or "events"
  Intervals,                \* values of parse_map_data_interval
  Width, Height, Valid,     \* MapCoordBounds, and the coordinates that have a cell
  CellValues,               \* contents of a cell, 0 where every field is 0
  Chunk,                    \* cells that are compared at once, 128 in parse_map
  Addresses, Bodies,        \* addresses and contents of technos
  Standing,                 \* the technos at the start, the first one just completed
  MaxObjects,               \* bound on technos
  TypeClasses,              \* the game's type classes
  HouseLists,               \* possible houses, by part: index, human, in control of the player
  Increment,                \* growth of the list of objects, 10 in try_get_message
  RingSize,                 \* length of an event list of the game
  BufferSize                \* EVENT_BUFFER_SIZE

ASSUME StateAssumption ==
  /\ MaxFrames \in [Parts -> Nat] /\ Intervals \subseteq Nat \ {0}
  /\ {Width, Height, Chunk, Increment, BufferSize} \subseteq Nat \ {0}
  /\ Valid \subseteq (0..Width - 1) \X (0..Height - 1)
  /\ CellValues # {}
  /\ <<0, 0>> \in Valid => 0 \notin CellValues   \* no cell looks like a blank one
  /\ Standing \in Seq(ToSet(Standing))
  /\ TypeClasses # {}
  /\ \A p \in Parts : \A H \in HouseLists[p] : \E i \in DOMAIN H : H[i].current
  /\ RingSize \in {2^n : n \in 0..14}

VARIABLES
  part, interval,           \* what varies in this behaviour, and a setting
  frame, phase,             \* CurrentFrame; the game, the commands or the saved frame
  cells, technos, factories, lists, players,      \* the game's data, its houses last
  map_data, previous, difference,                 \* parsed: the map, CBSaveState::cells
  objects, facts, houses, shown, buffer,          \* parsed: the rest of the state
  types,                    \* parsed: type classes of this and of the initial state
  replayed,                 \* history: the differences of all states, applied in order
  known                     \* history: addresses of technos at the last save

gameVars == <<cells, technos, factories, lists>>
mapVars == <<map_data, previous, difference, replayed>>
parsedVars == <<mapVars, objects, facts, houses, shown, buffer, types, known>>
fixed == <<part, interval, players>>

-----------------------------------------------------------------------------
(* The map *)

CellIndex(c) == Width * c[2] + c[1]
(* Row after row. *)
ValidCells ==
  CHOOSE s \in [1..Cardinality(Valid) -> Valid] :
    \A i, j \in DOMAIN s : i < j => CellIndex(s[i]) < CellIndex(s[j])
NumCells == Len(ValidCells)

BlankCell == [index |-> 0, v |-> 0]
parse_Cell(k) == [index |-> CellIndex(ValidCells[k]), v |-> cells[ValidCells[k]]]

\* Mutant: the cells after the last whole chunk are left out.
WholeChunks == 1..(NumCells \div Chunk) * Chunk
(* Whole chunks, and what remains. *)
ParsedCells ==
  LET whole == (NumCells \div Chunk) * Chunk
      rest == IF NumCells - whole < Chunk THEN NumCells - whole ELSE Chunk
  IN  1..whole \cup whole + 1..whole + rest

ChunkSame(k, prev) ==
  \A j \in ParsedCells : (j - 1) \div Chunk = (k - 1) \div Chunk => parse_Cell(j) = prev[j]

parse_map(prev) == {k \in ParsedCells : ~ChunkSame(k, prev) /\ parse_Cell(k) # prev[k]}

(* Every cell of the rectangle has a message; the index is not set. *)
parse_MapData ==
  [i \in 0..Width * Height - 1 |->
     IF \E c \in Valid : CellIndex(c) = i
     THEN [index |-> 0, v |-> cells[CHOOSE c \in Valid : CellIndex(c) = i]] ELSE BlankCell]

(* A client's map, after the differences of one more state. *)
Replayed(M, diff) ==
  [i \in DOMAIN M |-> IF \E m \in diff : m.index = i THEN CHOOSE m \in diff : m.index = i ELSE M[i]]

update_MapData(M, diff) ==
  [i \in DOMAIN M |-> IF \E m \in diff : m.index = i THEN CHOOSE m \in diff : m.index = i ELSE M[i]]

SavesMap ==
  LET M == IF frame > 0 /\ DOMAIN map_data = {} THEN parse_MapData ELSE map_data
      prev == IF previous = <<>> /\ frame > 0 THEN [k \in 1..NumCells |-> BlankCell] ELSE previous
      now == prev # <<>> /\ frame % interval = 0
      changed == IF now THEN parse_map(prev) ELSE {}
  IN  /\ difference' = IF now THEN {parse_Cell(k) : k \in changed} ELSE difference
      /\ previous' = [k \in DOMAIN prev |-> IF k \in changed THEN parse_Cell(k) ELSE prev[k]]
      /\ map_data' = IF now THEN update_MapData(M, difference') ELSE M
      /\ replayed' = Replayed(replayed, difference')

-----------------------------------------------------------------------------
(* Objects and factories *)

Foot == {"unit", "infantry", "aircraft"}
BlankObject == [self |-> 0, kind |-> "none", status |-> "none", at |-> 0, dest |-> 0, deployed |-> FALSE]

(* ClassParser: a techno is parsed into a message that may hold an older     *)
(* one.  A place is set for what is on the map, a destination for what moves *)
(* to a cell, deployed for units; the rest is always set.                    *)
\* Mutant: the type is kept once it is set.
KeepsKind(o, T) == IF T.kind = "none" THEN o.kind ELSE T.kind
KindOf(o, T) == o.kind

ParsedObject(o, T) ==
  [self |-> o.id, kind |-> KindOf(o, T), status |-> o.status,
   at |-> IF o.onmap THEN o.at ELSE T.at,
   dest |-> IF o.kind \in Foot /\ o.dest # 0 THEN o.dest ELSE T.dest,
   deployed |-> IF o.kind = "unit" THEN o.deployed ELSE T.deployed]

(* try_get_message *)
Filled(f, n) ==
  LET missing == IF n > Len(f) THEN n - Len(f) ELSE 0
      added == ((missing + Increment - 1) \div Increment) * Increment
  IN  f \o [i \in 1..added |-> BlankObject]

\* Mutant: a shorter array leaves old objects behind.
Untruncated(f, n) == f
truncate(f, n) == IF n < Len(f) THEN SubSeq(f, 1, n) ELSE f

parse_Objects ==
  LET n == Len(technos)
      f == Filled(objects, n)
  IN  truncate([i \in DOMAIN f |-> IF i <= n THEN ParsedObject(technos[i], f[i]) ELSE f[i]], n)

(* Every field of a factory and of a house is set, and their number is the   *)
(* game's; completed stands for progress_timer = PRODUCTION_STEPS.           *)
parse_Factories == factories
parse_HouseClasses == players

(* The type classes are parsed once, into the service's own list.  A state   *)
(* has them only in the frame in which they are parsed, and the first state  *)
(* is kept as the initial one.                                               *)
parse_AbstractTypeClasses == TypeClasses

(* The service's type classes are those of the initial state, to which the   *)
(* first state is copied.                                                    *)
InitialTypes(parsed, state) == IF types.copied THEN parsed ELSE state

SavesTypes ==
  LET now == types.initial = {}
      parsed == IF now THEN parse_AbstractTypeClasses ELSE types.initial
      state == IF now THEN parsed ELSE {}
  IN  types' = [state |-> state, initial |-> InitialTypes(parsed, state), copied |-> TRUE]

-----------------------------------------------------------------------------
(* Event lists.  A list of the game is a ring; what it has removed stays in  *)
(* its slot.                                                                 *)

Lists == {"out", "do", "megamission"}
BlankEvent == [type |-> "none", house |-> 0, frame |-> 0, data |-> 0, timing |-> 0]
EmptyRing == [head |-> 0, count |-> 0, slot |-> [i \in 0..RingSize - 1 |-> BlankEvent]]
RingTail(r) == (r.head + r.count) % RingSize

get_event(r, i) == r.slot[(r.head + i) % RingSize]
InList(r) == {get_event(r, i) : i \in 0..r.count - 1}

(* EventParser: other types have no data in the message and leave the old. *)
WithData == {"produce", "place", "megamission"}
ParsedEvent(e, T) == [e EXCEPT !.data = IF e.type \in WithData THEN @ ELSE T.data]

parse_EventList(dst, r) ==
  LET d == IF Len(dst) = r.count THEN dst ELSE [i \in 1..r.count |-> BlankEvent]
  IN  [i \in 1..r.count |-> ParsedEvent(get_event(r, i - 1), d[i])]

\* Mutant: the oldest lists leave one frame too late.
TrimmedLate(s) == IF Len(buffer.lists) > BufferSize THEN Tail(s) ELSE s
(* The size of the lists decides for both. *)
Trimmed(s) == IF Len(buffer.lists) >= BufferSize THEN Tail(s) ELSE s

SavesEvents ==
  /\ shown' = [l \in Lists |-> parse_EventList(shown[l], lists[l])]
  /\ buffer' = [lists |-> Append(Trimmed(buffer.lists), shown'),
                frame |-> Append(Trimmed(buffer.frame), frame)]

-----------------------------------------------------------------------------
(* The game *)

Game == phase = "game" /\ UNCHANGED <<fixed, frame, phase, parsedVars>>

ChangeCell(c, v) ==
  /\ Game /\ part = "cells" /\ cells[c] # v
  /\ cells' = [cells EXCEPT ![c] = v]
  /\ UNCHANGED <<technos, factories, lists>>

Ids(seq) == {seq[i].id : i \in DOMAIN seq}
Body(a, b) == [b EXCEPT !.id = a]

(* A freed address may be used again. *)
AddTechno(a, b) ==
  /\ Game /\ part = "objects" /\ Len(technos) < MaxObjects /\ a \notin Ids(technos)
  /\ technos' = Append(technos, Body(a, b))
  /\ UNCHANGED <<cells, factories, lists>>

RemoveTechno(i) ==
  /\ Game /\ part = "objects"
  /\ technos' = RemoveAt(technos, i)
  /\ factories' = SelectSeq(factories, LAMBDA f : f.object # technos[i].id)
  /\ UNCHANGED <<cells, lists>>

ChangeTechno(i, b) ==
  /\ Game /\ part = "objects" /\ b.kind = technos[i].kind
  /\ technos' = [technos EXCEPT ![i] = Body(technos[i].id, b)]
  /\ UNCHANGED <<cells, factories, lists>>

ChangeFactory(i, owner, completed) ==
  /\ Game /\ part = "factories"
  /\ factories' = <<[object |-> technos[i].id, owner |-> owner, completed |-> completed]>>
  /\ UNCHANGED <<cells, technos, lists>>

Pushed(r, e) == [r EXCEPT !.slot[RingTail(r)] = e, !.count = @ + 1]
Popped(r) == [r EXCEPT !.head = (@ + 1) % RingSize, !.count = @ - 1]

(* An event goes from the out list to the do list, is executed there, or     *)
(* comes from another player; missions have a list of their own.             *)
SendEvent ==
  /\ Game /\ part = "events" /\ lists["out"].count > 0 /\ lists["do"].count < RingSize
  /\ lists' = [lists EXCEPT !["out"] = Popped(@), !["do"] = Pushed(@, get_event(lists["out"], 0))]
  /\ UNCHANGED <<cells, technos, factories>>

ExecuteEvent(l) ==
  /\ Game /\ part = "events" /\ lists[l].count > 0
  /\ lists' = [lists EXCEPT ![l] = Popped(@)]
  /\ UNCHANGED <<cells, technos, factories>>

ReceiveEvent(l, e) ==
  /\ Game /\ part = "events" /\ lists[l].count < RingSize
  /\ lists' = [lists EXCEPT ![l] = Pushed(@, e)]
  /\ UNCHANGED <<cells, technos, factories>>

(* The frame's hook: first the deferred commands, then CBSaveState. *)
EntersFrame ==
  /\ phase = "game"
  /\ phase' = "hook"
  /\ UNCHANGED <<fixed, frame, gameVars, parsedVars>>

SaveState ==
  /\ phase = "hook"
  /\ phase' = "saved"
  /\ SavesMap
  /\ objects' = parse_Objects
  /\ facts' = parse_Factories
  /\ houses' = parse_HouseClasses
  /\ SavesTypes
  /\ SavesEvents
  /\ known' = Ids(technos)
  /\ UNCHANGED <<fixed, frame, gameVars>>

LeavesFrame ==
  /\ phase = "saved" /\ frame < MaxFrames[part]
  /\ phase' = "game" /\ frame' = frame + 1
  /\ UNCHANGED <<fixed, gameVars, parsedVars>>

GameInit ==
  /\ part \in Parts
  /\ IF part = "cells" THEN interval \in Intervals ELSE interval = 1
  /\ frame = 0 /\ phase = "game"
  /\ cells = [c \in Valid |-> CHOOSE v \in CellValues : TRUE]
  /\ technos = Standing
  /\ factories = IF Standing = <<>> THEN <<>>
                 ELSE <<[object |-> Standing[1].id, owner |-> 0, completed |-> TRUE]>>
  /\ lists = [l \in Lists |-> EmptyRing]
  /\ players \in HouseLists[part]
  /\ map_data = <<>> /\ previous = <<>> /\ difference = {}
  /\ objects = <<>> /\ facts = <<>> /\ houses = <<>>
  /\ types = [state |-> {}, initial |-> {}, copied |-> FALSE]
  /\ shown = [l \in Lists |-> <<>>] /\ buffer = [lists |-> <<>>, frame |-> <<>>]
  /\ replayed = [i \in 0..Width * Height - 1 |-> BlankCell]
  /\ known = {}

-----------------------------------------------------------------------------
(* Properties *)

(* Right after a frame is saved in which cells are parsed, map_data holds    *)
(* the game's map, each cell under its index: the chunked comparison with    *)
(* the previous cells and the differences lose no change.                    *)
MapCurrent ==
  phase = "saved" /\ frame > 0 /\ frame % interval = 0 =>
    \A c \in Valid : map_data[CellIndex(c)] = [index |-> CellIndex(c), v |-> cells[c]]

(* A client that starts from blank cells and applies the cells_difference of *)
(* every state, the repeated ones too, has the map of the last frame whose   *)
(* cells were parsed.                                                        *)
ReplayExact ==
  phase = "saved" /\ frame > 0 /\ frame % interval = 0 =>
    \A c \in Valid : replayed[CellIndex(c)].v = cells[c]

(* From the first save on the initial state has the type classes that the    *)
(* commands look up, and only the state of the first frame, which a record   *)
(* starts with, repeats them.                                                *)
TypesKept ==
  phase = "saved" =>
    /\ types.initial = TypeClasses
    /\ types.state = IF frame = 0 THEN TypeClasses ELSE {}

(* The saved objects are the technos, in number and in order, though their   *)
(* messages are reused: only the place of what is not on the map, the        *)
(* destination of what has none and deployed of what is no unit may be those *)
(* of an older object.                                                       *)
ObjectsMirrored ==
  phase = "saved" =>
    /\ Len(objects) = Len(technos)
    /\ \A i \in DOMAIN technos :
         LET o == technos[i]
             T == objects[i]
         IN  /\ T.self = o.id /\ T.kind = o.kind /\ T.status = o.status
             /\ o.onmap => T.at = o.at
             /\ o.kind \in Foot /\ o.dest # 0 => T.dest = o.dest
             /\ o.kind = "unit" => T.deployed = o.deployed
    /\ facts = factories

(* What is saved of objects, factories and types is the game's. *)
StateMirrored == ObjectsMirrored /\ TypesKept

(* The saved event lists are the game's, oldest event first, wherever the    *)
(* ring starts; data that is not parsed may be an older event's.             *)
EventsMirrored ==
  phase = "saved" =>
    \A l \in Lists :
      LET r == lists[l] IN
      /\ Len(shown[l]) = r.count
      /\ \A i \in 1..r.count :
           LET e == r.slot[(r.head + i - 1) % RingSize] IN
           shown[l][i] = [e EXCEPT !.data = IF e.type \in WithData THEN @ ELSE shown[l][i].data]

(* The event buffer, two parallel lists, holds the lists of the last frames: *)
(* one for each frame up to the last saved one and never more than its size. *)
BufferAligned ==
  LET n == Len(buffer.frame) IN
  /\ n <= BufferSize /\ Len(buffer.lists) = n
  /\ \A i \in 2..n : buffer.frame[i] = buffer.frame[i - 1] + 1
  /\ phase = "saved" => /\ buffer.frame[n] = frame /\ buffer.lists[n] = shown
                        /\ n = BufferSize \/ buffer.frame[1] = 0

(* The events of this frame and of the last ones are kept as they were. *)
EventsKept == EventsMirrored /\ BufferAligned

==============================================================================
