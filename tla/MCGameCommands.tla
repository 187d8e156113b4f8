---------------------------- MODULE MCGameCommands ----------------------------
(* Instances of GameCommands for model checking. *)
EXTENDS GameCommands

MCFrames == [cells |-> 4, objects |-> 2, factories |-> 2, events |-> 1]
(* Factories: one event more than the OutList holds. *)
MCAdds == [cells |-> 0, objects |-> 0, factories |-> 3, events |-> 2]
MCValid == {<<1, 0>>, <<2, 0>>, <<0, 1>>, <<2, 1>>}

Techno(kind, status, onmap, at, dest) ==
  [id |-> 0, kind |-> kind, status |-> status, onmap |-> onmap, at |-> at, dest |-> dest,
   deployed |-> onmap]
MCBodies == {Techno("unit", "ready", TRUE, 1, 1), Techno("unit", "limbo", FALSE, 0, 0),
             Techno("infantry", "ready", TRUE, 2, 0), Techno("building", "building", TRUE, 3, 0)}
MCStanding == <<[Techno("building", "limbo", FALSE, 0, 0) EXCEPT !.id = 1]>>

MCLists == {<<1, 2>>, <<2, 1>>}
MCForeign == {Event("sellcell", 0, 1), Event("megamission", 1, 1)}

House(i, human, current) == [index |-> i, human |-> human, current |-> current]
MCAlone == <<House(0, TRUE, TRUE), House(1, FALSE, FALSE)>>
MCOnline == <<House(0, TRUE, TRUE), House(1, TRUE, FALSE)>>
MCHouses == [cells |-> {MCAlone}, objects |-> {MCAlone}, factories |-> {MCAlone, MCOnline},
             events |-> {MCAlone}]

(* Events only, for a player whose house comes second. *)
MCEventFrames == [events |-> 1]
MCEventAdds == [events |-> 2]
MCSecond == [events |-> {<<House(0, FALSE, FALSE), House(1, TRUE, TRUE)>>}]
==============================================================================
