--------------------------- MODULE ResidentRooms ---------------------------
(***************************************************************************)
(* The rooms that the players of one native world share                    *)
(* (src/src/dungeon/dungeon.cpp, travelNativeRoom and its neighbours).     *)
(* Each room has one array of entities for good; the game code only ever   *)
(* works on the view, world.entities and world.entityCount, which follows  *)
(* the controller that is selected.  The length of a room's array is       *)
(* therefore kept twice.  What an inactive slot still holds is never read  *)
(* (spawnEntity), so it is empty here.  Fights are left out: Combat has    *)
(* them.                                                                   *)
(***************************************************************************)
EXTENDS Naturals, FiniteSets

CONSTANTS
    Visitors,     \* the controllers of this world
    RoomIDs,      \* the rooms; the first is the entrance
    Entrance,
    Lair,         \* the room with a monster
    MaxEntities   \* MAX_ENTITIES

VARIABLES
    rooms,        \* residentRooms: [cells, count, ready]
    view,         \* world.entities and world.entityCount: [of, count]
    observer,     \* loadedObserver and observedRoom: [by, of]
    chosen,       \* selectedController
    actors,       \* actors and actorRooms: [of, cell]
    carried       \* the Character a controller has outside of the rooms

residentVars == <<rooms, view, observer, chosen, actors, carried>>

Nowhere == [of |-> "none", cell |-> 0]
NoRoom == [of |-> "none", count |-> 0]
Cells == 1..MaxEntities

Empty == [kind |-> "none", active |-> FALSE, owner |-> "none", holds |-> {}]
Monster == [Empty EXCEPT !.kind = "monster", !.active = TRUE, !.holds = {"hide"}]
Dropped(x) == [Empty EXCEPT !.kind = "loot", !.active = TRUE, !.holds = {x}]
Stander(p, bag) == [kind |-> "player", active |-> TRUE, owner |-> p, holds |-> bag]

(***************************************************************************)
(* saveNativeRoomView and bindRoom                                         *)
(***************************************************************************)
\* The length is never written back.
Unsaved(rs, v, o) == rs

Saved(rs, v, o) ==
    IF o.of # "none" /\ v.of = o.of THEN [rs EXCEPT ![o.of].count = v.count] ELSE rs

BoundTo(rs, r) == [of |-> r, count |-> rs[r].count]

\* bindNativeRoom
BindFor(rs, as, p) ==
    IF as[p] = Nowhere THEN view' = NoRoom /\ UNCHANGED observer
    ELSE view' = BoundTo(rs, as[p].of) /\ observer' = [by |-> p, of |-> as[p].of]

(***************************************************************************)
(* selectController.  storeController has the character of the controller  *)
(* that goes.                                                              *)
(***************************************************************************)
Body(p) == rooms[actors[p].of].cells[actors[p].cell]
Character(p) == IF actors[p] = Nowhere THEN carried[p] ELSE Body(p).holds

Select(p) ==
    /\ p # chosen /\ chosen' = p
    /\ rooms' = Saved(rooms, view, observer)
    /\ carried' = [carried EXCEPT ![chosen] = Character(chosen)]
    /\ BindFor(rooms', actors, p)
    /\ UNCHANGED actors

\* bindNativeWorldRoom, for what a world does to each of its rooms, and the
\* binding of the controller's own room behind it (clearNativeMapEffects).
Visit(r) ==
    /\ rooms[r].ready
    /\ rooms' = Saved(rooms, view, observer)
    /\ BindFor(rooms', actors, chosen)
    /\ UNCHANGED <<chosen, actors, carried>>

(***************************************************************************)
(* travelNativeRoom                                                        *)
(***************************************************************************)
\* initializeRoomEntities, once for each room
Peopled(r) == [c \in Cells |-> IF r = Lair /\ c = 1 THEN Monster ELSE Empty]
Prepared(rs, r) ==
    IF rs[r].ready THEN rs
    ELSE [rs EXCEPT ![r] = [cells |-> Peopled(r), count |-> IF r = Lair THEN 1 ELSE 0, ready |-> TRUE]]

\* The first slot that is not in use, or one more.
FreeCells(room) == {c \in 1..room.count : ~room.cells[c].active}
CellFor(room) ==
    IF FreeCells(room) # {} THEN CHOOSE c \in FreeCells(room) : \A d \in FreeCells(room) : c <= d
    ELSE room.count + 1

\* Whether a place to stand is left is not told from the outside.
Travel(r, standing) ==
    LET ready == Prepared(Saved(rooms, view, observer), r)
        cell == CellFor(ready[r])
        before == actors[chosen]
        gone == IF before = Nowhere THEN ready ELSE [ready EXCEPT ![before.of].cells[before.cell] = Empty]
    IN  /\ IF actors[chosen] = Nowhere THEN r = Entrance ELSE r # actors[chosen].of
        /\ IF standing /\ cell <= MaxEntities
           THEN /\ rooms' = [gone EXCEPT ![r].cells[cell] = Stander(chosen, Character(chosen)),
                                         ![r].count = IF cell > @ THEN cell ELSE @]
                /\ actors' = [actors EXCEPT ![chosen] = [of |-> r, cell |-> cell]]
                /\ view' = BoundTo(rooms', r) /\ observer' = [by |-> chosen, of |-> r]
                /\ carried' = [carried EXCEPT ![chosen] = Character(chosen)]
           ELSE rooms' = ready /\ BindFor(rooms', actors, chosen) /\ UNCHANGED <<actors, carried>>
        /\ UNCHANGED chosen

\* leaveNativeRoom, for the return to town and for a retired controller
LeaveRoom ==
    /\ actors[chosen] # Nowhere
    /\ carried' = [carried EXCEPT ![chosen] = Character(chosen)]
    /\ rooms' = [Saved(rooms, view, observer) EXCEPT
                     ![actors[chosen].of].cells[actors[chosen].cell] = Empty]
    /\ actors' = [actors EXCEPT ![chosen] = Nowhere]
    /\ view' = NoRoom
    /\ UNCHANGED <<observer, chosen>>

\* resetNativeWorld, when the last of them is home.  The hide that one may
\* still have is followed no further.
ResetWorld ==
    /\ \A p \in Visitors : actors[p] = Nowhere
    /\ \E r \in RoomIDs : rooms[r].ready
    /\ rooms' = [r \in RoomIDs |-> [cells |-> [c \in Cells |-> Empty], count |-> 0, ready |-> FALSE]]
    /\ view' = NoRoom /\ observer' = [by |-> "none", of |-> "none"]
    /\ carried' = [p \in Visitors |-> Character(p) \ {"hide"}]
    /\ UNCHANGED <<chosen, actors>>

(***************************************************************************)
(* What is done in a room: the view only.                                  *)
(***************************************************************************)
InView(c) == view.of # "none" /\ c <= view.count
Seen(c) == rooms[view.of].cells[c]

Slain(c) ==
    /\ InView(c) /\ Seen(c).kind = "monster" /\ Seen(c).active
    /\ rooms' = [rooms EXCEPT ![view.of].cells[c] = Empty,
                              ![actors[chosen].of].cells[actors[chosen].cell].holds = @ \cup Seen(c).holds]
    /\ UNCHANGED <<view, observer, chosen, actors, carried>>

\* dropWorldItem, spawnActiveMapEntity
DropItem(x) ==
    LET here == [rooms[view.of] EXCEPT !.count = view.count]
        cell == CellFor(here)
    IN  /\ actors[chosen] # Nowhere /\ x \in Body(chosen).holds
        /\ cell <= MaxEntities
        /\ rooms' = [rooms EXCEPT ![view.of].cells[cell] = Dropped(x),
                                  ![view.of].cells[actors[chosen].cell].holds = @ \ {x}]
        /\ view' = [view EXCEPT !.count = IF cell > @ THEN cell ELSE @]
        /\ UNCHANGED <<observer, chosen, actors, carried>>

\* pickupWorldItem
PickUpItem(c) ==
    /\ InView(c) /\ Seen(c).kind = "loot" /\ Seen(c).active
    /\ rooms' = [rooms EXCEPT ![view.of].cells[c] = Empty,
                              ![view.of].cells[actors[chosen].cell].holds = @ \cup Seen(c).holds]
    /\ UNCHANGED <<view, observer, chosen, actors, carried>>

ResidentInit ==
    /\ rooms = [r \in RoomIDs |-> [cells |-> [c \in Cells |-> Empty], count |-> 0, ready |-> FALSE]]
    /\ view = NoRoom /\ observer = [by |-> "none", of |-> "none"]
    /\ chosen \in Visitors
    /\ actors = [p \in Visitors |-> Nowhere]
    /\ carried = [p \in Visitors |-> {p}]

ResidentNext ==
    \/ \E p \in Visitors : Select(p)
    \/ \E r \in RoomIDs : Visit(r) \/ \E b \in BOOLEAN : Travel(r, b)
    \/ LeaveRoom \/ ResetWorld
    \/ \E c \in Cells : Slain(c) \/ PickUpItem(c)
    \/ \E x \in Visitors \cup {"hide"} : DropItem(x)

ResidentSpec == ResidentInit /\ [][ResidentNext]_residentVars

\* Rooms, doors and players have names of their own, and there is a lair.
ResidentConstants ==
    /\ Lair \in RoomIDs /\ "none" \notin RoomIDs \cup Visitors /\ "hide" \notin Visitors
    /\ MaxEntities \in Nat \ {0}

ASSUME ResidentAssumption == ResidentConstants

(***************************************************************************)
(* Whoever's view a room was last worked on through, nothing in it is out  *)
(* of the next one's sight: each player stands in exactly one slot, the    *)
(* one that stands for them, and a thing is never in two places.           *)
(***************************************************************************)
LengthOf(r) == Saved(rooms, view, observer)[r].count
Used(r) == {c \in Cells : rooms[r].cells[c].active}

RoomsShared ==
    /\ \A r \in RoomIDs : Used(r) \subseteq 1..LengthOf(r)
    /\ view.of # "none" => Used(view.of) \subseteq 1..view.count
    /\ \A p \in Visitors :
          {s \in RoomIDs \X Cells : s[2] \in Used(s[1]) /\ rooms[s[1]].cells[s[2]].owner = p}
              = IF actors[p] = Nowhere THEN {} ELSE {<<actors[p].of, actors[p].cell>>}
    /\ \A x \in Visitors \cup {"hide"} :
          Cardinality({s \in RoomIDs \X Cells : s[2] \in Used(s[1]) /\ x \in rooms[s[1]].cells[s[2]].holds})
            + Cardinality({p \in Visitors : actors[p] = Nowhere /\ x \in carried[p]}) <= 1
    /\ view.of # "none" => actors[chosen].of = view.of
=============================================================================
