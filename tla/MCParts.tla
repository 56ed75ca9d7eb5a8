------------------------------ MODULE MCParts ------------------------------
(***************************************************************************)
(* TLC instance of the parts of a game that do not act on one another: the *)
(* puzzles, the traps, the rooms and how they are generated, the saves,    *)
(* what a hero owns, what lies on a creature or on the floor, the idle     *)
(* monsters, the buttons and the rotary encoder, the history of events a   *)
(* player polls, the service that gives out the characters, the book of    *)
(* trade offers and the packets of the handhelds.                          *)
(* A behaviour chooses one part and follows it alone; the variables of the *)
(* other parts stay Idle.  The modules that theorems are proved about are  *)
(* extended and not instantiated, so that their assumptions are evaluated  *)
(* and their own invariants checked; where they are not followed they stay *)
(* in a first state.                                                       *)
(***************************************************************************)
EXTENDS EventHistory, Service, ItemTrade, Saves, Riddle, Traps, ResidentRooms,
        MCPackets

CONSTANTS Idle, cure, ration, page, axe, sword, shield

VARIABLES
    part,                                                      \* the part that is followed
    bells, struck,                                             \* Bells
    row, touches,                                              \* Braziers
    field, party, at, trail,                                   \* NumberTiles
    where, run, kept, live, loaded, current, player, made, slain,   \* Rooms
    size, attempt, step, places, links, boss, left,            \* DungeonGraph
    kind, shape, wide, doors, stage, floor, foes, things, blocks, rubble,   \* RoomGen
    pack, worn, gold, lack, place, turn, window, mark,         \* Belongings
    grip, list, traded, aim, mage, spell, share,
    effects, stands, stuck, up, fight,                         \* MapEffects
    table, burns, shields, resists, venom, awake, due,         \* Conditions
    mobs, walker, scene, halted, calm, stayed, acted,          \* IdleMonsters
    input, over, down, heard, acts, rest, pushed,              \* Controls
    shaft, contacts, total, click, origin                      \* Encoder

B == INSTANCE Bells WITH Tones <- {"low", "mid", "high"}, Lengths <- {3, 4}
Z == INSTANCE Braziers WITH Counts <- {4, 5}
N == INSTANCE NumberTiles WITH Walkers <- {"p", "q"}, Levels <- {1, 10}, Depth <- 3, Width <- 2
D == INSTANCE Rooms WITH Capacity <- 3, BagSize <- 2, Runs <- 2, hero <- player
G == INSTANCE DungeonGraph WITH Sizes <- {7, 8}, BossDistance <- 4, Attempts <- 2, at <- places

\* The plan of a room eight tiles wide and nine high, its doors and what is placed.
MCDoors == {<< <<"west", 3>> >>,
            << <<"north", 4>>, <<"west", 4>>, <<"east", 3>> >>}
MCChambers == {<< <<4, 4>> >>, << <<4, 4>>, <<3, 5>> >>}
MCFoes == [boss |-> << <<3, 2>>, <<1, 5>> >>, ambush |-> << <<5, 3>>, <<5, 5>> >>]
MCLayouts == {{<<-1, -1>>, <<1, 1>>}, {<<0, -1>>, <<0, 1>>}}
MCRuins == {<< <<5, 5>> >>, << <<2, 5>>, <<5, 6>> >>}

P == INSTANCE RoomGen WITH Width <- 8, Height <- 9, DoorSets <- MCDoors, SmallSizes <- {3},
                         LSizes <- {5}, Arms <- {2}, Radius <- 3, Seeds <- {0},
                         Chambers <- MCChambers, Coverage <- [low |-> 48, high |-> 85],
                         Wanted <- MCFoes, Layouts <- MCLayouts, Roomy <- 30, Ample <- 32,
                         Ruins <- MCRuins, Patch <- 5, Pieces <- 2
H == INSTANCE Belongings WITH Cure <- cure, Ration <- ration, Page <- page, Axe <- axe,
                         Sword <- sword, Shield <- shield, Nothing <- Idle,
                         Goods <- {cure, page, axe, shield}, Capacity <- 2, Stack <- 2,
                         Owned <- 2, Richest <- 2, Rests <- 1, Wizards <- {TRUE},
                         screen <- window, due <- share, cursor <- mark, held <- grip
W == INSTANCE MapEffects WITH Creatures <- {"p", "ogre"}, Broad <- {"ogre"}, Immune <- {},
                         Armed <- {"p"}, Slots <- 2, Length <- 4, Burning <- 1, at <- stands
C == INSTANCE Conditions WITH Types <- {"flat", "sleep", "venom", "poison"},
                         Energies <- {"fire", "acid"}, Places <- 3, Wards <- 2, Burns <- 1,
                         Rounds <- 2, Load <- 3, SaveEvery <- 2, up <- awake
I == INSTANCE IdleMonsters WITH Kinds <- <<"patrol", "wander">>, Hostile <- {1}, Cells <- 4,
                         MinDelay <- 2, MaxDelay <- 3, PatrolSteps <- {2}, hero <- walker
K == INSTANCE Controls WITH Debounce <- 1, Guard <- 2, Long <- 3, view <- over, held <- down,
                         down <- pushed
E == INSTANCE Encoder WITH Ends <- 9, PerDetent <- 4, phase <- contacts, step <- click

\* Player 0 can promise a stack, player 1 is full, player 2 has a bit of both.
Carried ==
    [p \in 0..3 |-> CASE p = 0 -> [potion |-> 2, sword |-> 0]
                      [] p = 1 -> [potion |-> 0, sword |-> 2]
                      [] p = 2 -> [potion |-> 1, sword |-> 1]
                      [] OTHER -> [potion |-> 0, sword |-> 0]]

-----------------------------------------------------------------------------
bellVars == <<bells, struck>>
brazierVars == <<row, touches>>
numberVars == <<field, party, at, trail>>
roomVars == <<where, run, kept, live, loaded, current, player, made, slain>>
graphVars == <<size, attempt, step, places, links, boss, left>>
planVars == <<kind, shape, wide, doors, stage, floor, foes, things, blocks, rubble>>
belongVars == <<pack, worn, gold, lack, place, turn, window, mark, grip, list,
                traded, aim, mage, spell, share>>
effectVars == <<effects, stands, stuck, up, fight>>
conditionVars == <<table, burns, shields, resists, venom, awake, due>>
idleVars == <<mobs, walker, scene, halted, calm, stayed, acted>>
buttonVars == <<input, over, down, heard, acts, rest, pushed>>
encoderVars == <<shaft, contacts, total, click, origin>>

Parts == {"saves", "riddle", "bells", "braziers", "numbers", "traps", "rooms", "resident",
          "graph", "plan", "belongings", "effects", "conditions", "idle", "controls",
          "encoder", "history", "service", "trade", "packets"}

NumbersIdle == field = Idle /\ party = Idle /\ at = Idle /\ trail = Idle
RoomsIdle == where = Idle /\ run = Idle /\ kept = Idle /\ live = Idle /\ loaded = Idle
             /\ current = Idle /\ player = Idle /\ made = Idle /\ slain = Idle
GraphIdle == size = Idle /\ attempt = Idle /\ step = Idle /\ places = Idle /\ links = Idle
             /\ boss = Idle /\ left = Idle
PlanIdle == kind = Idle /\ shape = Idle /\ wide = Idle /\ doors = Idle /\ stage = Idle
            /\ floor = Idle /\ foes = Idle /\ things = Idle /\ blocks = Idle /\ rubble = Idle
BelongingsIdle == pack = Idle /\ worn = Idle /\ gold = Idle /\ lack = Idle /\ place = Idle
                  /\ turn = Idle /\ window = Idle /\ mark = Idle /\ grip = Idle /\ list = Idle
                  /\ traded = Idle /\ aim = Idle /\ mage = Idle /\ spell = Idle /\ share = Idle
EffectsIdle == effects = Idle /\ stands = Idle /\ stuck = Idle /\ up = Idle /\ fight = Idle
ConditionsIdle == table = Idle /\ burns = Idle /\ shields = Idle /\ resists = Idle
                  /\ venom = Idle /\ awake = Idle /\ due = Idle
MonstersIdle == mobs = Idle /\ walker = Idle /\ scene = Idle /\ halted = Idle /\ calm = Idle
                /\ stayed = Idle /\ acted = Idle
ButtonsIdle == input = Idle /\ over = Idle /\ down = Idle /\ heard = Idle /\ acts = Idle
               /\ rest = Idle /\ pushed = Idle
EncoderIdle == shaft = Idle /\ contacts = Idle /\ total = Idle /\ click = Idle /\ origin = Idle

MCInit ==
    /\ part \in Parts
    /\ IF part = "bells" THEN B!BellInit ELSE bells = Idle /\ struck = Idle
    /\ IF part = "braziers" THEN Z!BrazierInit ELSE row = Idle /\ touches = Idle
    /\ IF part = "numbers" THEN N!NumberInit ELSE NumbersIdle
    /\ IF part = "rooms" THEN D!RoomInit ELSE RoomsIdle
    /\ IF part = "graph" THEN G!GraphInit ELSE GraphIdle
    /\ IF part = "plan" THEN P!GenInit ELSE PlanIdle
    /\ IF part = "belongings" THEN H!BelongingsInit ELSE BelongingsIdle
    /\ IF part = "effects" THEN W!EffectInit ELSE EffectsIdle
    /\ IF part = "conditions" THEN C!ConditionInit ELSE ConditionsIdle
    /\ IF part = "idle" THEN I!IdleInit ELSE MonstersIdle
    /\ IF part = "encoder" THEN E!EncoderInit ELSE EncoderIdle
    /\ IF part = "controls" THEN K!ControlInit ELSE ButtonsIdle
    /\ SaveInit /\ (part # "saves" => disk = [f \in Files |-> Nil])
    /\ RiddleInit /\ (part # "riddle" => purse = [p \in Talkers |-> 0])
    /\ TrapInit /\ (part # "traps" => traps = [i \in Plates |-> Set("none")] /\ ~water.here)
    /\ ResidentInit /\ (part # "resident" => chosen = "p")
    /\ SvcInit /\ (part # "service" => mode = "party")
    /\ Init /\ TradeInit
    /\ IF part = "packets" THEN PacketInit ELSE said = Idle /\ air = Nothing /\ told = Nothing

MCNext ==
    /\ UNCHANGED part
    /\ IF part = "saves" THEN SaveNext ELSE UNCHANGED saveVars
    /\ IF part = "riddle" THEN RiddleNext ELSE UNCHANGED riddleVars
    /\ IF part = "bells" THEN B!BellNext ELSE UNCHANGED bellVars
    /\ IF part = "braziers" THEN Z!BrazierNext ELSE UNCHANGED brazierVars
    /\ IF part = "numbers" THEN N!NumberNext ELSE UNCHANGED numberVars
    /\ IF part = "traps" THEN TrapNext ELSE UNCHANGED trapVars
    /\ IF part = "rooms" THEN D!RoomNext ELSE UNCHANGED roomVars
    /\ IF part = "resident" THEN ResidentNext ELSE UNCHANGED residentVars
    /\ IF part = "graph" THEN G!GraphNext ELSE UNCHANGED graphVars
    /\ IF part = "plan" THEN P!GenNext ELSE UNCHANGED planVars
    /\ IF part = "belongings" THEN H!BelongingsNext ELSE UNCHANGED belongVars
    /\ IF part = "effects" THEN W!EffectNext ELSE UNCHANGED effectVars
    /\ IF part = "conditions" THEN C!ConditionNext ELSE UNCHANGED conditionVars
    /\ IF part = "idle" THEN I!IdleNext ELSE UNCHANGED idleVars
    /\ IF part = "encoder" THEN E!EncoderNext ELSE UNCHANGED encoderVars
    /\ IF part = "controls" THEN K!ControlNext ELSE UNCHANGED buttonVars
    /\ IF part = "history" THEN Next ELSE UNCHANGED vars
    /\ IF part = "service" THEN SvcNext ELSE UNCHANGED svcVars
    /\ IF part = "trade" THEN TradeNext ELSE UNCHANGED tradeVars
    /\ IF part = "packets" THEN PacketNext ELSE UNCHANGED packetVars

MCVars == <<part, saveVars, riddleVars, bellVars, brazierVars, numberVars,
            trapVars, roomVars, residentVars, graphVars, planVars, belongVars,
            effectVars, conditionVars, idleVars, buttonVars, encoderVars, vars, svcVars, tradeVars,
            packetVars>>

MCSpec == MCInit /\ [][MCNext]_MCVars
-----------------------------------------------------------------------------
\* Bells, NumberTiles, Braziers: the key falls only to the whole sequence of
\* tones, the chest opens only to a crossing in the right order, and a row of
\* braziers can still be lit whatever the players have done to it.
PuzzlesFair ==
    /\ part = "bells" => B!TheSequenceWasStruck
    /\ part = "numbers" => N!CrossedInOrder
    /\ part = "braziers" => Z!NeverStuck

\* Rooms: what was killed, taken or left in a room is so when the hero returns.
RoomsRemember == part = "rooms" => D!RoomsRemember

\* DungeonGraph, RoomGen: the boss and the treasure can be reached whatever is
\* locked, and every plan can be walked from door to door and holds what it must.
DungeonHolds ==
    /\ part = "graph" => G!WayThrough
    /\ part = "plan" => P!RoomHolds

\* Belongings: an item is never lost or doubled on its way between the screens,
\* and the shop buys the item whose label is shown.
BelongingsKept == part = "belongings" => H!AllAccountedFor /\ H!SellsWhatItShows

\* MapEffects, Conditions: whoever is stuck has a web to break out of, and
\* everything lasts as long as it was laid on for, and no longer.
EffectsEnd ==
    /\ part = "effects" => W!HeldByWeb
    /\ part = "conditions" => C!LastsAsGiven

\* IdleMonsters: nobody moves in haste after a fight or a screen, or into a fight.
IdleInTurn == part = "idle" => I!IdleInTurn

\* Controls, Encoder: a key that is pressed acts once, on the screen that is
\* shown, and a step of the knob is a whole detent.
ControlsObeyed ==
    /\ part = "controls" => K!ControlsObeyed
    /\ part = "encoder" => E!StepsAreTurns
=============================================================================
