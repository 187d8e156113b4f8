----------------------------- MODULE GameCommands -----------------------------
(***************************************************************************)
(* The commands that are deferred to the game loop.  They run in the hook  *)
(* of a frame, before CBSaveState, so that they see the state that was     *)
(* saved one frame ago, and act on the game of today: on its technos       *)
(* through calls by address, and on its OutList through add_event.         *)
(***************************************************************************)
EXTENDS GameState

CONSTANTS
  AddressLists,              \* addresses of an order
  EventData,                 \* cells or type ids in events
  Foreign,                   \* events of other players or of the game
  FrameSendRate, MaxAhead,   \* Game::Network
  Delays,                    \* frame delays of AddEvent
  QueryLimit,                \* PLACE_QUERY_MAX_LENGTH
  MaxAdds                    \* bound on added events, by part

ASSUME CommandsAssumption ==
  /\ \A addrs \in AddressLists : addrs \in Seq(ToSet(addrs))
  /\ Delays \subseteq Nat
  /\ FrameSendRate \in Nat \ {0} /\ MaxAhead \in Nat
  /\ QueryLimit \in Nat /\ MaxAdds \in [Parts -> Nat]
  /\ Foreign \subseteq [type : STRING, house : Nat, frame : Int, data : EventData, timing : Int]

VARIABLES
  added,             \* events added, which is the clock too
  last               \* history: what the last command of the frame did

vars == <<fixed, frame, phase, gameVars, parsedVars, added, last>>

(* made: the positions in addrs for which the game was called. *)
NoCommand == [cmd |-> "none", addrs |-> <<>>, made |-> {}, ok |-> TRUE, event |-> BlankEvent,
              delay |-> 0, filter |-> FALSE, refused |-> FALSE, match |-> FALSE, read |-> <<>>]

InHook(p) == phase = "hook" /\ part = p /\ UNCHANGED <<fixed, frame, phase, parsedVars>>

(* Commands that leave nothing for others to read: one in a frame will do. *)
Alone(p) == InHook(p) /\ last = NoCommand

-----------------------------------------------------------------------------
(* Orders.  The addresses come from the client. *)

(* get_object, for what is not in limbo. *)
Listed(k) == \E i \in DOMAIN objects : objects[i].self = k /\ objects[i].status # "limbo"
Saved(k) == \E i \in DOMAIN objects : objects[i].self = k

(* None or Construction. *)
is_illegal_mission(k) ==
  \E i \in DOMAIN objects : objects[i].self = k /\ objects[i].status = "building"

Given(cmd, addrs, made, ok) ==
  /\ last' = [NoCommand EXCEPT !.cmd = cmd, !.addrs = addrs, !.made = made, !.ok = ok]
  /\ UNCHANGED <<gameVars, added>>

(* get_object_entry looks for the type class of each object that it passes:  *)
(* it throws at one that has none, before it has come to k.                  *)
TypeMissing(k, untyped) ==
  \E i \in DOMAIN objects :
    /\ objects[i].self = untyped
    /\ \A j \in DOMAIN objects : j < i => ~(objects[j].self = k /\ objects[j].status # "limbo")

requires_target_object(action) == action \in {"click_mission", "capture"}
requires_target_cell(action) == action = "click_mission"

(* An address that is not found, has an illegal mission or no valid cell, or *)
(* an unknown action, makes the order throw; what was ordered before stays   *)
(* ordered.                                                                  *)
(* A target is looked up only where the order needs a cell and gives none.   *)
\* Mutant: objects in limbo are taken too.
FailsUnsaved(k, action, target, place, untyped) == ~Saved(k)
OrderFails(k, action, target, place, untyped) ==
  \/ ~Listed(k) \/ TypeMissing(k, untyped) \/ is_illegal_mission(k) \/ action = "invalid"
  \/ requires_target_cell(action) /\ (place = "invalid" \/ (target # 0 /\ place = "none" /\ ~Saved(target)))

(* UnitOrder.  "click" stands for deploy, sell, select and stop,             *)
(* "click_mission" for move and attack, "capture" for capture and repair.    *)
UnitOrder(action, addrs, target, place, untyped) ==
  /\ Alone("objects")
  /\ requires_target_object(action) \/ target = 0
  /\ LET bad == {i \in DOMAIN addrs : OrderFails(addrs[i], action, target, place, untyped)}
     IN  Given("UnitOrder", addrs, {i \in DOMAIN addrs : \A j \in bad : i < j}, bad = {})

(* ClickEvent and MissionClicked: what is not found is skipped, and a call   *)
(* that the game refuses ends the command.                                   *)
ClickCommand(addrs, refused) ==
  /\ Alone("objects")
  /\ LET found == {i \in DOMAIN addrs : Listed(addrs[i])}
         bad == {i \in found : addrs[i] \in refused}
     IN  Given("Click", addrs, {i \in found : \A j \in bad : i <= j}, bad = {})

(* is_local: exactly one human player, in the saved state. *)
is_local == Cardinality({i \in DOMAIN houses : houses[i].human}) = 1

UnitCommand(select, addrs) ==
  /\ \E p \in {"objects", "factories"} : Alone(p)
  /\ IF select \/ is_local
     THEN Given("UnitCommand", addrs, {i \in DOMAIN addrs : Listed(addrs[i])}, TRUE)
     ELSE Given("UnitCommand", addrs, {}, FALSE)

(* PlaceQuery: the coordinates, cut to a limit, where the game lets build;   *)
(* it is not asked about negative ones, here 0.  The type class and the      *)
(* house must be known.                                                      *)
PlaceQuery(type, house, coords, placeable) ==
  /\ Alone("cells")
  /\ LET ok == type \in types.initial /\ \E i \in DOMAIN houses : houses[i].index = house
         asked == {i \in DOMAIN coords : i <= QueryLimit /\ coords[i] # 0 /\ coords[i] \in placeable}
     IN  Given("PlaceQuery", coords, IF ok THEN asked ELSE {}, ok)

(* ReadValue of the map, on the command worker: one array for each field of  *)
(* a cell.                                                                   *)
convert_map_data(M) == [i \in DOMAIN M |-> M[i].v]

ReadValue ==
  /\ part = "cells" /\ last = NoCommand
  /\ last' = [NoCommand EXCEPT !.cmd = "ReadValue", !.read = convert_map_data(map_data)]
  /\ UNCHANGED <<fixed, frame, phase, gameVars, parsedVars, added>>

-----------------------------------------------------------------------------
(* Events *)

(* find: the cell of SELLCELL and the type of PLACE count. *)
Matches(e, q) ==
  /\ e.house = q.house /\ e.type = q.type
  /\ q.type \in {"sellcell", "place"} => e.data = q.data

(* What the filter is for: the event is already in one of the lists. *)
Duplicate(e) == \E l \in Lists, i \in 0..RingSize - 1 : i < lists[l].count /\ Matches(get_event(lists[l], i), e)

find_event(q) == \E l \in Lists : \E e \in InList(lists[l]) : Matches(e, q)

\* Mutant: the frame is rounded down.
RoundedDown(delay) ==
  IF delay = 0 THEN ((frame + MaxAhead) \div FrameSendRate) * FrameSendRate ELSE frame + delay
EventFrame(delay) ==
  IF delay = 0
  THEN ((FrameSendRate + frame - 1 + MaxAhead) \div FrameSendRate) * FrameSendRate
  ELSE frame + delay

(* EventClass::AddEvent puts an event at the tail unless the list is full. *)
OutFull == lists["out"].count = RingSize

(* Index of the house in control of the player, in the game or when saved. *)
current_player(H) == H[SelectInSeq(H, LAMBDA h : h.current)].index

(* garbage: find_event does not set the data of a PLACE. *)
add_event(cmd, ev, delay, spoof, filter, garbage) ==
  LET q == [ev EXCEPT !.data = IF ev.type = "place" THEN garbage ELSE @]
      f == EventFrame(delay)
      e == [ev EXCEPT !.house = IF spoof THEN @ ELSE current_player(players),
                      !.frame = IF spoof THEN -f ELSE f,
                      !.timing = added + 1]
      refused == filter /\ find_event(q)
      valid == ev.type = "produce" => ev.data \in types.initial
      ok == ~refused /\ valid /\ ~OutFull
  IN  /\ added < MaxAdds[part]
      /\ lists' = IF ok THEN [lists EXCEPT !["out"] = Pushed(@, e)] ELSE lists
      /\ added' = IF ok THEN added + 1 ELSE added
      /\ last' = [NoCommand EXCEPT !.cmd = cmd, !.ok = ok, !.event = e, !.delay = delay,
                    !.filter = filter, !.refused = refused, !.match = Duplicate(e)]
      /\ UNCHANGED <<cells, technos, factories>>

Event(type, house, data) == [BlankEvent EXCEPT !.type = type, !.house = house, !.data = data]

AddEvent(type, house, data, delay, spoof) ==
  /\ InHook("events")
  /\ add_event("AddEvent", Event(type, house, data), delay, spoof, FALSE, 0)

(* The house of these two is not set. *)
SellCell(data) ==
  /\ InHook("events")
  /\ add_event("SellCell", Event("sellcell", 0, data), 0, FALSE, TRUE, 0)

(* The type class must be known, and the game lets the player build it. *)
ProduceOrder(data, can_build) ==
  /\ InHook("events")
  /\ IF data \in types.initial /\ can_build
     THEN add_event("ProduceOrder", Event("produce", 0, data), 0, FALSE, TRUE, 0)
     ELSE Given("ProduceOrder", <<>>, {}, FALSE)

(* A building that a factory of the player has completed; the game checks    *)
(* the place.  An address stands for the type of its building.               *)
find_factory(a) ==
  \E i \in DOMAIN facts : facts[i].completed /\ facts[i].object = a
                         /\ facts[i].owner = current_player(houses)

PlaceBuilding(a, can_place, garbage) ==
  /\ \E p \in {"factories", "events"} : InHook(p)
  /\ IF Saved(a) /\ find_factory(a) /\ can_place
     THEN add_event("PlaceBuilding", Event("place", current_player(houses), a), 0, FALSE, TRUE, garbage)
     ELSE Given("PlaceBuilding", <<>>, {}, FALSE)

-----------------------------------------------------------------------------
Init ==
  /\ GameInit
  /\ added = 0 /\ last = NoCommand

GameSteps ==
  \/ \E c \in Valid, v \in CellValues : ChangeCell(c, v)
  \/ \E a \in Addresses, b \in Bodies : AddTechno(a, b)
  \/ \E i \in DOMAIN technos : RemoveTechno(i)
  \/ \E i \in DOMAIN technos, b \in Bodies : ChangeTechno(i, b)
  \/ \E i \in DOMAIN technos, owner \in {0, 1}, completed \in BOOLEAN : ChangeFactory(i, owner, completed)
  \/ SendEvent
  \/ \E l \in {"do", "megamission"} : ExecuteEvent(l)
  \/ \E e \in Foreign : ReceiveEvent(IF e.type = "megamission" THEN e.type ELSE "do", e)
  \/ EntersFrame \/ LeavesFrame

Commands ==
  \/ \E addrs \in AddressLists : \E action \in {"click", "click_mission", "capture", "invalid"},
       target, untyped \in Addresses \cup {0}, place \in {"cell", "none", "invalid"} :
       UnitOrder(action, addrs, target, place, untyped)
  \/ \E addrs \in AddressLists, refused \in SUBSET Addresses : ClickCommand(addrs, refused)
  \/ \E addrs \in AddressLists, select \in BOOLEAN : UnitCommand(select, addrs)
  \/ ReadValue
  \/ \E type \in EventData, house \in {0, 2}, coords \in AddressLists \cup {<<0>>},
       placeable \in SUBSET Addresses : PlaceQuery(type, house, coords, placeable)
  \/ \E house \in {0, 1}, d \in EventData, n \in Delays :
       AddEvent("produce", house, d, n, house = 1)
  \/ \E d \in EventData : SellCell(d)
  \/ \E d \in EventData, can_build \in BOOLEAN : ProduceOrder(d, can_build)
  \/ \E a \in Addresses, can_place \in BOOLEAN, garbage \in EventData : PlaceBuilding(a, can_place, garbage)

Next ==
  \/ GameSteps /\ UNCHANGED <<added, last>>
  \/ SaveState /\ last' = NoCommand /\ UNCHANGED added
  \/ Commands

Spec == Init /\ [][Next]_vars

-----------------------------------------------------------------------------
(* Properties *)

(* A command calls the game only with addresses that were technos one frame  *)
(* ago, outside limbo: the saved state is never older than that.  A          *)
(* UnitOrder that is answered without error has been given to every address. *)
OrdersReachTechnos ==
  last.cmd \in {"UnitOrder", "Click", "UnitCommand"} =>
    /\ \A i \in last.made : last.addrs[i] \in known /\ Listed(last.addrs[i])
    /\ last.cmd = "UnitOrder" /\ last.ok => last.made = DOMAIN last.addrs

(* Nothing is placed that the player's factory had not completed when the    *)
(* state was saved.                                                          *)
PlacedCompleted ==
  last.cmd = "PlaceBuilding" /\ last.ok =>
    \E i \in DOMAIN facts : /\ facts[i].completed /\ facts[i].object = last.event.data
                            /\ facts[i].owner = last.event.house

(* Commands act only on what the saved state holds. *)
ActsOnSaved == OrdersReachTechnos /\ PlacedCompleted

(* A client that reads the map and one that applies the differences of a     *)
(* record agree, once a frame was saved in which cells are parsed.           *)
ReadAgrees ==
  last.cmd = "ReadValue" /\ frame > interval =>
    \A c \in Valid : last.read[CellIndex(c)] = replayed[CellIndex(c)].v

(* A client knows the game's map whether it reads what is stored or applies  *)
(* the differences of a record.                                              *)
MapKnown == MapCurrent /\ ReplayExact /\ ReadAgrees

(* An event without a delay is due at the next multiple of FrameSendRate     *)
(* that is at least MaxAhead frames away, as other players expect.           *)
EventsScheduled ==
  last.event.type # "none" /\ last.delay = 0 =>
    LET f == IF last.event.frame < 0 THEN -last.event.frame ELSE last.event.frame IN
    f % FrameSendRate = 0 /\ f - frame - MaxAhead \in 0..FrameSendRate - 1

(* Where the player's house has index 0, an event other than PLACE is        *)
(* refused as a duplicate exactly when the same house has such an event in   *)
(* one of the lists.                                                         *)
FilterRight ==
  last.filter /\ current_player(players) = 0 /\ last.event.type # "place" => (last.refused <=> last.match)

(* Events are added for the right frame, and none twice. *)
EventsRight == EventsScheduled /\ FilterRight

(* "filter_duplicates throw exception if event of same type and house is     *)
(* found from any event list": no filtered event is added next to one that   *)
(* matches it.                                                               *)
FilterFinds == last.filter /\ last.ok => ~last.match

==============================================================================
