------------------------------- MODULE Rooms --------------------------------
(***************************************************************************)
(* The rooms of a dungeon that one handheld explores                       *)
(* (src/src/dungeon/dungeon.cpp): the one that is loaded is an array of    *)
(* entities, the player among them, the others are compact snapshots       *)
(* (entitypersistence.cpp).  With them the bodies, chests and dropped      *)
(* things that the player empties and fills (loot.cpp, worlditems.cpp,     *)
(* interaction.cpp).  Three rooms in a row stand for the graph.  Gold,     *)
(* places and the fight itself are left out.                               *)
(***************************************************************************)
EXTENDS Naturals, Sequences, FiniteSets

CONSTANTS
    Capacity,      \* MAX_ENTITIES
    BagSize,       \* MAX_INVENTORY
    Runs           \* bound: dungeons that are generated

VARIABLES
    where,     \* gameState: "town" or "dungeon"
    run,       \* [n, active, completed, cleared, looted]
    kept,      \* DungeonRoomRuntime of each room
    live,      \* the active entities, by slot
    loaded,    \* loadedRoom
    current,   \* currentRoom
    hero,      \* what the global player carries
    made,      \* history: the things there are
    slain      \* history: the rooms of this run whose monster was slain

roomVars == <<where, run, kept, live, loaded, current, hero, made, slain>>

Row == <<"start", "boss", "hoard">>
RoomIds == {Row[i] : i \in DOMAIN Row}
Neighbours(r) == {s \in RoomIds : \E i, j \in DOMAIN Row :
                      Row[i] = r /\ Row[j] = s /\ (i = j + 1 \/ j = i + 1)}

Thing(r) == <<run.n, r>>
Own == <<0, "own">>

Entity(kind) == [kind |-> kind, active |-> kind # "none", dead |-> FALSE,
                 made |-> FALSE, loot |-> {}]

(***************************************************************************)
(* The loaded room                                                         *)
(***************************************************************************)
Player == CHOOSE i \in DOMAIN live : live[i].kind = "player"
Bag == IF loaded = "none" THEN hero ELSE live[Player].loot

Living(s) == {i \in DOMAIN s : s[i].kind = "monster" /\ s[i].active /\ ~s[i].dead}
Emptied(s) == \E i \in DOMAIN s :
                 s[i].kind = "chest" /\ s[i].active /\ s[i].made /\ s[i].loot = {}

\* findFreeEntity: a slot that is no longer used comes before a new one.
Free(s) == {i \in DOMAIN s : ~s[i].active}

\* spawnEntity
Spawn(s, e) ==
    IF Free(s) = {} THEN Append(s, e)
    ELSE [s EXCEPT ![CHOOSE i \in Free(s) : \A j \in Free(s) : i <= j] = e]

HasRoom(s) == Free(s) # {} \/ Len(s) < Capacity

\* initializeRoomEntities: the markers of the map, once.
Marked(r) ==
    CASE r = "boss" -> <<Entity("monster")>>
      [] r = "hoard" -> <<Entity("chest")>>
      [] OTHER -> <<>>

\* packPersistentEntity: players are not kept, nor slots that were cleared.
Persistent(e) == e.kind \notin {"player", "none"}

\* packMonster, and packPersistentEntity for the rest.  A monster's loot and
\* its death are kept, whether it is active too; a chest's loot; the thing of
\* a drop.
Compact(e) == [kind |-> e.kind, active |-> e.active, dead |-> e.dead, made |-> e.made, loot |-> e.loot]

\* packActiveEntities
Packed(s) ==
    LET kepts == SelectSeq(s, Persistent)
    IN  [i \in DOMAIN kepts |-> Compact(kepts[i])]

\* inflateMonster, inflatePersistentEntity
Restored(e) == [Entity(e.kind) EXCEPT !.active = e.active, !.dead = e.dead, !.made = e.made, !.loot = e.loot]

\* inflateRoomEntities
Inflated(room) == [i \in DOMAIN room.snap |-> Restored(room.snap[i])]

(***************************************************************************)
(* updateRoomCompletion                                                    *)
(***************************************************************************)
Done(s) == Living(s) = {}

RunAfter(r, s) ==
    [run EXCEPT !.cleared = IF r = "boss" THEN Done(s) ELSE @,
                !.looted = @ \/ (r = "hoard" /\ Emptied(s))]

(***************************************************************************)
(* persistActiveDungeonRoom.  No attribute that packing would refuse is    *)
(* ever changed, so it does not fail.                                      *)
(***************************************************************************)
\* Committed only the first time.
KeepFirst(k, r, s) ==
    IF k[r].ready THEN k
    ELSE [k EXCEPT ![r] = [@ EXCEPT !.snap = Packed(s), !.ready = TRUE, !.done = Done(s)]]

Persisted(k, r, s) ==
    [k EXCEPT ![r] = [@ EXCEPT !.snap = Packed(s), !.ready = TRUE, !.done = Done(s)]]

(***************************************************************************)
(* loadRoom, once the room before is kept; and attachDungeonPlayer.  A     *)
(* room always has a floor to stand on (findSafePlayerEntry).              *)
(***************************************************************************)
MayLoad(room) == room.init => room.ready

Load(r, k, bag) ==
    LET s == IF k[r].init THEN Inflated(k[r]) ELSE Marked(r)
    IN  /\ kept' = [k EXCEPT ![r].init = TRUE]
        /\ hero' = bag
        /\ IF Len(s) < Capacity
           THEN /\ live' = Append(s, [Entity("player") EXCEPT !.loot = bag])
                /\ loaded' = r /\ current' = r
           ELSE live' = <<>> /\ loaded' = "none" /\ UNCHANGED current

(***************************************************************************)
(* Town and dungeon                                                        *)
(***************************************************************************)
NoRoom == [init |-> FALSE, ready |-> FALSE, done |-> FALSE, snap |-> <<>>]
NoRooms == [r \in RoomIds |-> NoRoom]

RoomInit ==
    /\ where = "town"
    /\ run = [n |-> 0, active |-> FALSE, completed |-> FALSE,
              cleared |-> FALSE, looted |-> FALSE]
    /\ kept = NoRooms /\ live = <<>> /\ loaded = "none" /\ current = "start"
    /\ hero = {Own} /\ made = {Own} /\ slain = {}

HasResumable == run.active /\ ~run.completed

\* resetDungeonRun and generateDungeon: what lies in the old rooms is gone.
Generate ==
    /\ run.n < Runs
    /\ run' = [n |-> run.n + 1, active |-> TRUE, completed |-> FALSE,
               cleared |-> FALSE, looted |-> FALSE]
    /\ Load("start", NoRooms, hero)
    /\ made' = hero /\ slain' = {}

EnterDungeon ==
    /\ where = "town" /\ where' = "dungeon"
    /\ IF HasResumable
       THEN /\ MayLoad(kept[current]) /\ Load(current, kept, hero)
            /\ UNCHANGED <<run, made, slain>>
       ELSE Generate

\* MENU_DUNGEON_START_NEW_YES
StartNew ==
    /\ where = "town" /\ HasResumable /\ where' = "dungeon"
    /\ Generate

\* The door of tryMovePlayerAuthoritative.
WalkThrough(r) ==
    /\ where = "dungeon" /\ loaded # "none"
    /\ r \in Neighbours(current) /\ MayLoad(kept[r])
    /\ (current = "boss" /\ r = "hoard") => kept[current].done
    /\ run' = RunAfter(loaded, live)
    /\ Load(r, Persisted(kept, loaded, live), Bag)
    /\ UNCHANGED <<where, made, slain>>

\* MENU_RETURN_TO_TOWN, suspendDungeonRun, markDungeonCompletedOnTownReturn
ReturnToTown ==
    /\ where = "dungeon" /\ loaded # "none" /\ where' = "town"
    /\ LET after == RunAfter(loaded, live)
       IN  run' = [after EXCEPT !.completed = @ \/ (after.cleared /\ after.looted)]
    /\ kept' = Persisted(kept, loaded, live)
    /\ hero' = Bag /\ live' = <<>> /\ loaded' = "none"
    /\ UNCHANGED <<current, made, slain>>

(***************************************************************************)
(* Bodies and chests                                                       *)
(***************************************************************************)
Here == where = "dungeon" /\ loaded # "none"
Elsewhere == <<where, loaded, current, hero>>

\* A fight that is over updates the room; a trap's victim does not.
Slay(i, inCombat) ==
    /\ Here /\ i \in Living(live)
    /\ live' = [live EXCEPT ![i].dead = TRUE]
    /\ slain' = slain \cup {loaded}
    /\ IF inCombat /\ Done(live')
       THEN run' = RunAfter(loaded, live') /\ kept' = [kept EXCEPT ![loaded].done = TRUE]
       ELSE UNCHANGED <<run, kept>>
    /\ UNCHANGED <<made, Elsewhere>>

\* generateCorpseLoot and generateChestLoot make what is in it but once.
Generated(e, found) == IF e.made THEN e ELSE [e EXCEPT !.made = TRUE, !.loot = found]

\* finishLootingCorpse: an empty body goes, a chest stays.
Finished(e) == IF e.kind = "monster" /\ e.loot = {} THEN [e EXCEPT !.active = FALSE] ELSE e

\* tryInteractWithFacingEntity; a lock has been picked or forced.
Search(i, found) ==
    /\ Here /\ live[i].active
    /\ live[i].kind = "chest" \/ (live[i].kind = "monster" /\ live[i].dead)
    /\ live' = [live EXCEPT ![i] = Finished(Generated(@, found))]
    /\ made' = made \cup live'[i].loot
    /\ UNCHANGED <<run, kept, slain, Elsewhere>>

\* takeCorpseLootItem, takeAllCorpseLoot
Take(i, x) ==
    /\ Here /\ i # Player /\ live[i].active /\ live[i].kind \in {"chest", "monster"}
    /\ x \in live[i].loot /\ Cardinality(Bag) < BagSize
    /\ live' = [live EXCEPT ![i] = Finished([@ EXCEPT !.loot = @ \ {x}]),
                            ![Player].loot = @ \cup {x}]
    /\ UNCHANGED <<run, kept, made, slain, Elsewhere>>

(***************************************************************************)
(* dropWorldItem and pickupWorldItem                                       *)
(***************************************************************************)
Drop(x) ==
    /\ Here /\ x \in Bag /\ HasRoom(live)
    /\ live' = Spawn([live EXCEPT ![Player].loot = @ \ {x}],
                     [Entity("loot") EXCEPT !.made = TRUE, !.loot = {x}])
    /\ UNCHANGED <<run, kept, made, slain, Elsewhere>>

PickUp(i) ==
    /\ Here /\ live[i].active /\ live[i].kind = "loot" /\ Cardinality(Bag) < BagSize
    /\ live' = [live EXCEPT ![i] = Entity("none"), ![Player].loot = @ \cup live[i].loot]
    /\ UNCHANGED <<run, kept, made, slain, Elsewhere>>

RoomNext ==
    \/ EnterDungeon \/ StartNew \/ ReturnToTown
    \/ \E r \in RoomIds : WalkThrough(r)
    \/ \E i \in DOMAIN live :
          \/ \E b \in BOOLEAN : Slay(i, b)
          \/ \E found \in {{}, {Thing(loaded)}} : Search(i, found)
          \/ \E x \in live[i].loot : Take(i, x)
          \/ PickUp(i)
    \/ \E x \in made : Drop(x)

RoomSpec == RoomInit /\ [][RoomNext]_roomVars

(***************************************************************************)
(* A dungeon remembers: through doors, town and the next dungeon, each     *)
(* thing is in one place, nobody slain stands up again, the player finds a *)
(* slot in every room, and a run is over only after its last monster and   *)
(* its treasure.                                                           *)
(***************************************************************************)
Places(x) ==
    {<<"bag", 0>> : y \in Bag \cap {x}}
    \cup {<<"live", i>> : i \in {j \in DOMAIN live :
             live[j].kind # "player" /\ live[j].active /\ x \in live[j].loot}}
    \cup UNION {{<<r, i>> : i \in {j \in DOMAIN kept[r].snap :
             kept[r].snap[j].active /\ x \in kept[r].snap[j].loot}} :
             r \in RoomIds \ {loaded}}

RoomsRemember ==
    /\ \A x \in made : Cardinality(Places(x)) = 1
    /\ \A r \in slain : Done(IF r = loaded THEN live ELSE kept[r].snap)
    /\ \A r \in RoomIds : kept[r].ready => Len(kept[r].snap) < Capacity
    /\ loaded # "none" => Cardinality({i \in DOMAIN live : live[i].kind = "player"}) = 1
    /\ where = "dungeon" => loaded # "none"
    /\ run.completed => "boss" \in slain /\ Emptied(kept["hoard"].snap)
=============================================================================
