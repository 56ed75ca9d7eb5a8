# Pathfinder Mini Extreme in TLA+

A verification project for this repository, its multiplayer core and its game
engine: TLA+ modules translated from the C++ sources, TLC configurations that check them on
small instances, and TLAPS proofs of the invariants that matter most.
`PROJECT.json` lists the components, the runs, the mutants every property is
tried against, the source lines of every definition, the hazards and the
theorems; this file explains them.

    tlc -config MCPartyRegistry.cfg MCPartyRegistry.tla     one run
    tlapm PartyRegistryProofs.tla                           one set of proofs

## 1. The system

The repository is one game engine with two ways of playing together.

*Handhelds.* Up to four ESP32 devices talk over ESP-NOW, an unacknowledged
broadcast radio. One device hosts. `src/multiplayer` keeps the membership
(`multiplayer_session.cpp`), takes the party on a shared adventure
(`multiplayer_activity.cpp`) and defines the frames (`network_protocol.cpp`).

*The server.* `apps/server` accepts WebSocket connections of browsers and plays
the same engine natively for up to four controllers at a time (`apps/runtime`).
`src/session` keeps who is who: `GameSession` (participants of one session) and
`PartyRegistry` (parties, their members and their sessions).

Below both lies the engine (`src/dungeon`, `src/map`, `src/characters`,
`src/data`, `src/input`, `src/town`, `src/forest`), single threaded, and beside
it hosting code in Python and JavaScript (`apps/accounts`, `apps/cloudflare`,
`apps/activity`).

### Inventory

| Component | State | Operations | Hard behaviour | What makes it correct |
|---|---|---|---|---|
| Event history (`game_session.cpp`, `party_registry.cpp`) | ring of 32 events, start, count, next sequence | `emit`, `eventsSince` | wrap of the ring under a poller's cursor, gap test at its edge | every event is handed out or reported lost |
| `GameSession` participants | slots with generation and connection | `initialize`, `join`, `disconnect`, `reconnect`, `leave`, `move`, `transition` | reuse of slots, exhaustion of counters | a handle is valid for one occupation of a slot |
| `PartyRegistry` | 16 party slots, 4 member slots each, a session each, tokens | create, join, disconnect, reconnect, leave, close, lock, start, update, return | stale credentials, two rosters, operations that fail half way | credentials expire, rosters agree, events tell the roster |
| `TradeOfferBook` | 4 offers, id counter, the inventories | propose, accept, decline, cancel, cancelForPlayer | nothing is reserved between offer and answer | all lines move or none, an answer is final |
| Native parties | per controller: scene, connection, membership, world; per world: run, combat | menu commands, connection changes, ticks | two rosters again, worlds that are handed on, members offline while out | nobody shares a world with strangers, no reset of an occupied one |
| Service and `ControllerSlots` | participants, connection serials, leases, budgets | authenticate, join, reconnect, disconnect, leave, play, input, release after 1.5 s | a dropped connection racing its successor | one voice per character, no button outlives who pressed it |
| Handheld session | members of the host, roster of each client, timers, receive queue | host, join, leave, heartbeat, expire | frames lost once and for ever, refusals of retries | one seat per device, half-open memberships end |
| Shared activity | participants with transfer stage, revision of each room, loading state of each client | invite, transfer, ready, start, door, refresh, leave, end | retries across room changes, refreshes during transfers, combat events on another channel | ready means loaded, rooms agree, nobody plays alone |
| Handheld combat | order, turn, event in flight, acknowledgement mask, pending request | begin, request, result, command, door, end | events given up after 12 retries, a player that left | every survivor sees the same turn, nothing is done twice |
| Encounter (`combat.cpp`) | rosters, initiative, the current turn, a pending strike or spell, what is shown, grace of the absent | notice, start, strike, cast, monster script, end | calls that each hand the turn on; a script over many ticks; falls and absences in between | one turn each, nobody skipped, every turn ends |
| Rooms of a dungeon | packed rooms, the active room, resident rooms with a view per observer | enter, walk, drop, loot, return, start anew; bind, travel, leave | packing into slots that hold less, globals that change hands | a room is found as it was left, everybody in one room sees the same |
| Generation | graph, boss, loops, treasure; shape, corridors, furniture, foes of a room | place, join, validate; carve, connect, put | each step builds on the previous, several are undone | boss and treasure can be reached, every door of a room too |
| Puzzles | progress, key, what was entered so far | ask, answer, pay; strike; touch; cross | several players, leaving and coming back | solved only by a solution, never unsolvable |
| Traps | plates, charge, deadline in milliseconds or rounds | step, discover, disable, tick, fight begins or ends | two clocks, one trap, rooms left and entered | once, and not without warning |
| What lies on a creature or on the floor | condition list, energy lists, burning, venom; table of effects | add, tick, hit, save; cast, burn, escape, cut | lists that close up while they are walked; two states kept in step by hand | as long as given; no one held by nothing |
| Belongings | inventory rows, hands, sell list, aim, scroll | use, throw, equip, buy, sell, study, trade | rows that move while screens and aims point at them | nothing lost or doubled |
| Idle monsters (`monsteridle.cpp`) | a timer and a patrol per monster, two suspensions | update, reschedule | timers that run out during a fight or behind a menu; contact in the middle of a frame | nobody moves in haste or into a fight |
| Buttons and encoder (`buttons.cpp`, `buttonstate.h`, `encoderdecoder.h`) | levels, suppressions, long press; phase and quarters; what screens are open | poll, suppress, reset; `handleButtons` of every screen | a key held, or bouncing, while screens change under it | one act per press, on the screen that is shown |
| Saves | a file and a temporary file per slot, menus | save, overwrite, load, convert | power cut between two writes, old layouts and keys | the hero of before or the new one |
| Packets (`network_protocol.cpp`) | none | encode, send, decode | a writer and a reader for each of 39 types, casts to unsigned and back, two checks of every field, buffers of the callers | what is told is taken as it was meant, or by nobody |
| Gateways and accounts | tokens, relayed sockets, a database | verify, relay, close | either side closing first | no half-closed relay |

Calls between them: `Service` calls `GameSession` and the runtime; the runtime
calls `PartyRegistry` (which owns a `GameSession` per party), `TradeOfferBook`
and the engine; `MultiplayerActivity` calls `MultiplayerSession` for addresses
and the engine for rooms. Everything on the server runs on one Asio thread and
one 20 ms tick, everything on a handheld in `loop()`; concurrency is between
devices, between controllers whose inputs interleave at the granularity of a
call, and between a caller and the handles it kept. So one call, one received
frame or one due timer is one action.

## 2. The modules

| Module | Models | Depends on |
|---|---|---|
| `EventHistory` | the ring both classes keep, with one poller | |
| `GameSession` | a session as a record with an operator per call | |
| `PartyRegistry` | the registry, every call with every credential ever issued | EXTENDS `GameSession` |
| `PartyLedger` | abstract specification of the registry: identities instead of slots | |
| `ItemTrade` | the book of offers over inventories that change | |
| `NativeParty` | controllers, worlds and parties of the runtime | |
| `MultiplayerSession` | membership over a lossy radio | |
| `PartyActivity` | invitation, transfer, start, doors, refreshes and combat events | |
| `CombatTurns` | a fight over the radio: order, events, requests, commands, doors | |
| `Packets` | the packets of the handhelds, field by field, from encoder to decoder | |
| `Combat` | an encounter as `combat.cpp` runs it | |
| `Service` | connections, participants, leases and controllers of the server | EXTENDS `GameSession` |
| `Saves` | save files, their menus and old layouts | |
| `Riddle`, `Bells`, `Braziers`, `NumberTiles` | the four puzzles | |
| `Traps` | plates and charging traps of a room, and its fountain | |
| `Rooms`, `ResidentRooms` | the rooms of one hero; the rooms several controllers share | |
| `DungeonGraph`, `RoomGen` | the graph of a dungeon; the plan of a room | |
| `Belongings` | inventory, equipment, shop, throws, scrolls and trades of one hero | |
| `MapEffects`, `Conditions` | webs and fire on the floor; conditions of one creature | |
| `IdleMonsters` | what monsters do while nobody fights them | |
| `Controls`, `Encoder` | the buttons and the screens that read them; the rotary encoder | |
| `PartyRegistryProofs`, `ServiceProofs`, `NativePartyProofs`, `MultiplayerSessionProofs`, `PartyActivityProofs`, `CombatTurnsProofs` | theorems | EXTEND their module and TLAPS |
| `GameSessionProofs` | lemmas about one session | EXTENDed by the proofs of the registry and the service |
| `PartsProofs` | theorems about six of these parts and the packets | EXTENDS `EventHistory`, `ItemTrade`, `Saves`, `Riddle`, `Traps`, `ResidentRooms`, `Packets` and TLAPS |
| `MCParts` | the parts of the game that do not act on one another, side by side | EXTENDS `EventHistory`, `Service`, `ItemTrade`, `Saves`, `Riddle`, `Traps`, `ResidentRooms`, `MCPackets`; INSTANCEs the other twelve from `Bells` to `Encoder` |
| other `MC...` | model values, operators for the constants and symmetry | EXTEND their module |

A definition preceded by the comment *Mutant of X* is a plausible bug in `X`;
`PROJECT.json` names the property that catches it in which run. Those
definitions are used nowhere else.

**EventHistory.** `events`, `eventStart`, `eventCount` and `nextSequence` are
the fields of both classes; an event is its sequence number. `cursor`, `seen`
and `missed` belong to a poller that calls `eventsSince`, takes what it is given
and continues from the newest number.

**GameSession** has no variables: `SessionCanJoin` and `SessionJoined`, say, are
the guards and the result of `join` on a record, so that a registry can hold
one per slot. `SessionAllLeft` is the loop of `closeInternal`, in which every
single `leave` may be refused. `move` and `transition` are left out.

**PartyRegistry.** The variables are the fields of `PartySlot`, each a function
of the slot, and the three counters. `ended` and `view` are history: the
credentials of memberships that are over, and what a subscriber that only reads
events would believe. Callers present any credential in `Current \cup ended`:
`Next` quantifies over them, so that every stale handle is tried in every state.
A call that returns an error changes nothing and is a stuttering step, except
the failures that do change state: `CreatePartyFails`, and the leaves refused
inside `closeInternal`. Tokens are numbers drawn in order: the random source is
taken not to repeat itself, as `generateToken` tries to ensure. Profiles, party
ids and the text of events are left out.

**PartyLedger** says what a client of the registry may rely on: memberships are
used once, a party lives exactly as long as its leader's membership, and the
company that sets out only shrinks. Its identities are the generations of the
registry (`Ledger == INSTANCE PartyLedger WITH ...` at the end of
`PartyRegistry`).

**ItemTrade.** An inventory is a quantity per item under the slot and stack
limits of `addItemToSlots`. `Accept` is the whole of `accept`: the second
ownership test, the preview, the lines in order and the roll-back. Old saves
with two stacks of one stackable item are outside the model.

**NativeParty.** `scene` is what a controller plays in, `social` the structure of
that name in `native_party.cpp`, `ownership` the world each controller selects,
`registry` the part of the registry the runtime asks about. `thrown` records
that `resetNativeWorld` would have thrown. Where a menu command ends in several
calls (leave the party, release the world, start Town), they are one action, in
the order of the code. Entry placement in the first room always succeeds here;
in the code a member without a free place stays in Town.

**MultiplayerSession.** Every device has a queue in each direction. Frames keep
their order, may be lost, and are dropped when the receive queue is full. A tick
is one heartbeat interval; join requests, every 750 ms in the code, are one per
tick. Sequence numbers are left out because order-keeping channels never make
the test refuse a frame. `prompt` is history: no frame was lost or late, no full
queue dropped one, and no device gave up its request while the answer was under
way. What the host's players see of a roster can be exact only so long (section 6).

**PartyActivity.** The host keeps a record per client (`part`), the clients a
handful of variables each. A transfer is a sequence of five items: the dungeon
graph, the room details and the world chunks are the single item `SNAPSHOT`,
the character and spawn records one item each; the code acknowledges and repeats
each piece in the same way. A retry is due when nothing of the exchange is on
its way; an earlier one is a *disturbance*, as a loss is, and disturbances are
bounded. Load timeouts (30 s, client 35 s) end only what nothing else can move.
Left out: positions and ordinary movement, the rules of combat (a combat is its
stream of numbered events and everybody knows it has begun), ability commands
of clients, shared messages, disconnects (in `MultiplayerSession`), doors the
host itself uses, and a second activity.

**CombatTurns.** The host's `combat` and each client's copy of it; an event is
sent to all who take part and waits for all acknowledgements, for `RetryLimit`
retries. `budget` says how many events, requests, commands, doors, departures
and disturbances a behaviour may have; several budgets stand for one large one.
`late` and `strikes` are history: who acted after its turn while it followed the
host, or twice with one request, and the standard actions of the one whose turn it is.
A client that the host has given up on may still act on a turn that is over for the
others (its request names the fight and a number, not the turn), and catch up
later; `late` therefore asks whom the host counted on when the request ran.
The spell that opens a fight is a standard action of its caster too: `strikes`
counts it in the turn it takes effect in, if that is the caster's, and otherwise in
the caster's next (`owing`); `both` is the turn in which the caster's request came
before its spell (section 6), the only one with two.
Positions in a room and rolls are choices. Left out: the leftover turn values
with which the host's figure begins a fight after a step, movement outside a
fight, and a fight whose players are all down, which the monsters hold for ever.

**Packets.** A message is a type of packet and a value for each of its fields;
`Writes` is the order in which the encoder writes them, `Reads` that in which the
decoder takes them, `WidthOf` the bytes of each. `Put` and `Taken` convert where the
code casts (signed numbers, flags, combatants of no kind). `Writable` is what the
encoders refuse, `Readable` what the decoders refuse, `Tells` what the senders can
come to tell: the ranges of their fields and what the callers check before. Arrays
whose cells are treated alike are one cell. The bytes of a number and the
frame's sender, flags and sequence number are left out; order and loss are in the
modules above.

**Combat.** The operators take the world, a record of what the code reaches
through pointers, and return the set of worlds one call may leave, so that
`updateCombat` and the monster script compose as the calls do. `Tick` is one
update of the runtime, every other action an input or an event from outside.
`begun` is history. Native and handheld differ in `Native`; the runs check the
native one.

**Service.** Peers, participants and controller slots over one `GameSession`;
the three modes are the three ways the server is started. A connection may end
at any moment; the rate limits and request numbers are one refusal.

**Saves.** A file survives a crash, a temporary file is torn or whole, and
`Flush`, `ReplaceFile` and the removal of the legacy key are steps of their own,
with a power cut possible between any two. `owed` is history: what each slot
must still hold.

**Riddle, Bells, Braziers, NumberTiles.** Each starts in every state its
generator can produce, several players act in any order, leave and come back.
The number of tones, the cost of a guess and the width of the field are
constants.

**Traps.** A room is populated with authored spike plates or with one random
trap; the charge counts milliseconds outside a fight and rounds in one. Arrow
and dart traps hurt nobody, as in the code (section 6). The fountain stands in the
entrance, which has no traps. `since`, `stepped`, `fired`, `disarmed` and `burnt`
are history: the time since each walker's last step, who has stepped there in this
round, how often each trap went off, which were disabled in time, and whether
somebody was burnt who stepped there too late to have been warned.

**Rooms** packs and inflates the entities of three rooms in a row, which stand
for the graph; gold, places and fights are left out, an item has a name of its
own in each run. **ResidentRooms** follows the rooms of one world that several
controllers visit: who is bound, whose flags are in the entities, which cell an
actor gets. Fights and the place of a visitor are left out.

**DungeonGraph** chooses every layout of seven and eight rooms (the code makes
7 to 12) and every choice of loops; all middle rooms are taken for locked
puzzles, the worst case. **RoomGen** is the pipeline of `roomgen.cpp` on a room
of 8 by 9 tiles instead of 15 by 14, with its thresholds in proportion; each
roll is a choice from a small set. The shapes cross and circle, which nothing
reaches, the entrance room and the content of puzzle rooms are left out.

**Belongings.** The rows of the inventory as a sequence, the hands, the sell
list, and the aim of a throw or scroll with the row it came from; a trade may
come at any moment, also between the steps of a throw. All goods have one price.
The limit of known abilities is left out.

**MapEffects** has a corridor of tiles with creatures of one or two tiles;
`stuck` is the condition, `effects` the table the condition must agree with.
**Conditions** has the lists of one creature; a tick or the start of a turn is
one action, entry by entry in the order of the code. What a condition does to
attacks and saves is left out.

**IdleMonsters** has a corridor for the room. A frame is one call of
`updateMonsterIdleBehavior`; the timers are times left, `calm` and `stayed` are
history. A fight is only its beginning and its end, in which any of the monsters
that are aware may have fallen.

**Controls.** A frame polls the pins once and runs `handleButtons`, poll after
poll in the order of the code, because the state of a key changes with every
poll. What a press leads to is the set of screens the code may go to; what it
does to the game is in the other modules. One finger plays: two keys are never
down at once, and another key is reached only after the bounce of the switch.
`acts`, `rest` and `down` are history. The frames in which a multiplayer
activity loads, which poll nothing, are left out. **Encoder** lets the shaft
turn by up to two quarters between two polls.

**MCParts.** A behaviour follows one `part` and leaves the variables of all
others at `Idle`. The parts share no state in what is modelled of them; what
they do to one another in the program (a fight that starts beside a trap, a
trade during a throw) is an action of the module concerned. One run instead of
twenty keeps the constants of all small instances in one place.

## 3. The runs

Symmetry is used only for values the code never compares except for equality:
join codes, devices, clients. `CHECK_DEADLOCK FALSE` stands where a bounded
number of inputs leaves a system that may rest.

| Run | Instance | What it shows |
|---|---|---|
| `registry` | 2 slots of 2 members, 2 codes, generations to 4, sequences to 6 | `RevokedForever`, `RosterKept`, `EventsTellRoster`, `CompanyOnlyShrinks`, and that every behaviour is one of `PartyLedger` (`ImplementsLedger`). Both slots are reused and every counter runs out, so that all the paths of exhaustion happen; a handle refers to one slot and one player, so two of each suffice to confuse them. |
| `native_party` | 3 controllers, the dungeon; what rests, trades and fights is chosen in `MCNativeParty` | `RostersAgree`, `WorldsInOrder`, `TradesBindPartners`. Three controllers: a leader, a member and a stranger. |
| `session` | 2 devices, 3 seats, queues of 4, timeouts 3 and 2 intervals, 2 sessions, 6 disturbances | `SeatsSettle`, `SeatsExact`. Six disturbances allow a device to join, leave unheard, ask again, and lose the answer, while the other does the same once. |
| `activity` | 2 clients, 2 rooms, 1 retry; two doors; a spell and a combat event; two spells, with a door or a disturbance | `GoTogether`, `SameRoom`, `SpellsAreSeen`. The second spell may be cast while the first one's refresh is under way. |
| `refresh_in_combat` | 2 clients, 1 room, 1 spell, 2 combat events, nothing lost | `NobodyIsRemoved` fails, section 6. |
| `combat_turns` | host and up to 2 clients, 2 monsters, 2 rooms, 1 retry, seven budgets | `EverybodySeesTheTurn`, `ActedInTime`, `NothingTwice`. The budgets are a long fight, an event given up, an opening ability with a departure, one whose caster comes to its turn, a door with enemies behind it, and two clients with a loss or a door. |
| `monster_strikes` | the same | `MonstersStrikeOnce` fails, section 6. |
| `combat` | at most 3 combatants: a duel with two troubles, two players and a monster with one, a player and two monsters (the second joins in mid-fight or is there from the start) with none | `OneTurnEach`, `ResultOfTheTurn`, `NobodySkipped`, with the exceptions section 6 describes. A trouble is a journey to the other room, a fall, an absence or a revival from outside; two repetitions of an attack (`Swings`) and one step (`Speed`) let a script break off before, in and after each. Players are alike and so are monsters (`Alike`). The constraint `Fought` stops at an encounter with no living enemy (section 6). |
| `combat_duel` | one player, one monster, one trouble | `TurnsEnd`, under fairness. |
| `opening_refused` | the same | `OpeningResolves` fails, section 6. |
| `energy_menu` | the time limits 1, 2 and 3 | `MenusAnswer` fails, section 6. |
| `parts` | see below | twenty properties of twenty parts |

The properties of `parts`:

| Property | Modules | Instance |
|---|---|---|
| `NothingLost` | `Saves` | one hero, two slots, the legacy key, one step of progress: every crash point of two writes |
| `NoFreeGuess` | `Riddle` | two players, two gold pieces, one threshold |
| `PuzzlesFair` | `Bells`, `NumberTiles`, `Braziers` | three tones in sequences of 3 and 4; two walkers on 3 by 2 tiles; 4 and 5 braziers (the numbers of the code) in every state |
| `OnceAndWarned` | `Traps` | a player and a monster, two plates, one unit of warning and a fight of two rounds: outside a fight the warning is time, in one it is the rest of the round; a fight may begin and end at any moment of a charge |
| `RoomsRemember` | `Rooms` | three slots, bags of two, two runs |
| `RoomsShared` | `ResidentRooms` | two visitors, an entrance and a lair, three cells |
| `DungeonHolds` | `DungeonGraph`, `RoomGen` | all layouts of 7 and 8 rooms, boss at distance 4, two attempts; rooms with two sets of doors, two chambers, boss and ambush |
| `BelongingsKept` | `Belongings` | two rows, stacks of two, two gold pieces, a wizard or not |
| `EffectsEnd` | `MapEffects`, `Conditions` | a man and an ogre in four tiles, two effects; three places, two wards, one fire, two rounds, four kinds of condition |
| `IdleInTurn` | `IdleMonsters` | a hostile patrol and a wanderer who is not, four cells, delays of 2 and 3, patrols of two steps |
| `ControlsObeyed` | `Controls`, `Encoder` | debounce 1, guard 2, long press 3: each limit is longer than the one before, as 25, 300 and 750 ms are; nine quarters either way |
| `RetainsNewest`, `NoSilentLoss` | `EventHistory` | a ring of three wrapped twice, to the end of the sequence numbers |
| `OneVoice`, `SessionFollows`, `HandsOnTheControls` | `Service` | two characters, two persons, three connections, each mode, to the end of the sequence numbers |
| `PeersUnderstand` | `Packets` | `MCPackets`: every type of packet, with up to two fields at the ends of their ranges and around them, in versions 5 and 6. A frame is one message on its way; two fields at a time are as many as any single check of the code compares. |
| `OffersApart`, `TransfersAreExact`, `AnswersAreFinal` | `ItemTrade` | 4 players (the real number, so two offers can be pending), 2 items, stacks of 2, 2 slots, 2 lines, 2 ids; two lines and two slots give the partial failure that must be rolled back, and one player finds and loses items at any time |

`OffersApart`, `RosterKept`, `WorldsInOrder`, `SeatsExact`, `GoTogether`,
`SameRoom`, `NothingTwice`, `TurnsEnd`, `HandsOnTheControls`, `PuzzlesFair`,
`DungeonHolds`, `BelongingsKept`, `EffectsEnd` and `ControlsObeyed` are conjunctions of properties that are defined and commented on their own.

`RetryLimit` 1 for twelve retries keeps the proportion that matters: as many
losses as retries are survived. In `RoomGen` the thresholds are scaled with the
room. Not exercised by the instance of `parts`: the immunity to webs, swords and
rations, which differ from an axe and a page only in their names.

**Fairness and liveness.** `combat_duel` assumes `WF_vars(Tick)`: `advance()` in
`runtime.cpp` updates the encounter in every round of the server's loop,
whatever the players do. No fairness of players, dice or connections is assumed:
`MonsterTurnEnds` and `AwayTurnEnds` hold although nobody presses a key.
`AwayTurnEnds` holds as long as an enemy stands. The other runs assume no
fairness; what must eventually happen is stated with a clock or with quiet
channels: `SeatsSettle` (the half-open membership is over two connection
timeouts after the last disturbance, by the code's own timers) and `RoomsAgree`
(nothing is on its way, so nothing but a timer could still happen).

## 4. What is proved

The first part of `PartsProofs`, about `EventHistory`, for every capacity and every length of the sequence space:
`TypeCorrect`, `RingRetainsNewest`, `PollerAccountsForEveryEvent`,
`GapTestsAreTheSame`. `RetainsNewest` is nearly inductive by itself, since
`emit` writes cell (start + count) mod capacity and everything follows from the
arithmetic of one wrap (`WrapOnce`, `WrapSum`); the poller needs in addition that
its cursor is behind the newest number. Assumed: `CapacityAssumption`,
`MaxSequenceAssumption` (both positive).

`PartyRegistryProofs`, for any number of slots, players, codes and any size of
the counters:

- `TypeCorrect` (`TypeOK`), which covers that no counter passes its end;
- `CredentialsExpire` (`RevokedForever`): a credential whose membership is over
  is refused for ever, in its slot or in whatever the slot has become;
- `PartyHasItsLeader` (`LeaderHoldsParty`).

`RevokedForever` is not inductive: it says nothing of credentials not issued
yet. The invariant `IInv` adds that every generation and every token in use or
ended lies below the counter it was drawn from, that two members never share a
generation or token, that members sit only in active parties whose leader is
in, and that no member shares its generation or token with an ended credential.
A new membership then differs from all that ever were, because it takes the
counters' values (`AdditionKeeps`); a departure moves one credential from the
members to `ended` (`RemovalKeeps`); the other six operations keep the roster
(`SameRosterIInv`). `Invariance` combines a lemma per action. Assumed: the
`ASSUME`s of `GameSession` and `PartyRegistry`, which say that the constants are
positive and that sequence spaces hold at least two numbers.

Its second part, from the same assumptions and on top of `IInv`:

- `RostersNeverDiffer` (`SessionAgrees`), with `PartyHasItsLeader` the theorem
  `RosterIsKept` (`RosterKept`), `EventsAreEnough` (`EventsTellRoster`),
  `TravellersAreOut` (`ParticipantsAreOut`), `CodesNeverCollide`
  (`CodesDistinct`);
- `NobodyJoinsTheCompany` (`CompanyOnlyShrinks`), an action property.

Its invariant `RInv` is `IInv`, distinct codes, and for each slot the three
statements about one party (`Agrees`, `Told`, `Out`). Every call touches one slot
at most, so each action's lemma shows the three statements, and that the company
does not grow, for that slot, and `SameSlotKept` covers the others
(`OneSlotKept`). `Agrees` says that a member's handle is the one its session has
issued for that player; without it a call that changes the registry's member
and then the session's player could change two different players. `Told` needs
that the view of a party starts from its creation and that every call emits its
event in the step that changes the roster (`EmitView`, `OnlineView`,
`OfflineView`).

`PartsProofs` about `ItemTrade`, for any number of players, slots, items and ids:
`NobodyPromisesTwice` (`OneOfferEach`), `IdsAreUnique` (`IdsNameOneOffer`), both
together `OffersStayApart` (`OffersApart`), and `AnswersStayFinal` (`AnswersAreFinal`). What `propose` relies on and no property
says is that every id in the book lies below `nextID` (`IdsBelow`): only then does
a new offer have an id of its own. `BookInv` adds it and the type of the book to the
two invariants. All ways to answer (`accept`, `decline`, `cancel`,
`cancelForPlayer`) only turn pending offers into answered ones, which keeps all
of it (`AnsweringKeeps`); `propose` needs that the slot it takes is not pending
(`ProposedSlot`). The players' inventories are not in the invariant: a transfer is
a fold over the lines of an offer, and what a fold computes is induction over
data. `TransfersAreExact` and the inventories' part of `TradeTypeOK` stay with TLC.

`GameSessionProofs` holds the lemmas about one session (which slot a scan takes,
what `join`, `disconnect`, `reconnect` and `leave` do to the players and to the
numbers left); the proofs about `PartyRegistry` and about `Service` both rest on
them.

The last part of `PartyRegistryProofs`: `RegistryKeepsTheLedger` (`Spec => ImplementsLedger`), the
refinement of `PartyLedger`. The ledger's entries are what sits on the registry's
seats, a seat being a slot and a player's number, so each lemma speaks of sets of
seats and of what sits there before and after. Taking an entry out of the ledger's
set takes exactly one seat out, because no two seats hold the same entry
(`EntriesDiffer`): that is where `IInv`'s distinct tokens are needed. A party goes
with all its members at once (`DissolveStep`) and sets out with all who are
connected (`SetOutStep`); both are sets of entries of one party, and that a party
is one slot's needs `PartiesDistinct`, that no two active parties share a
generation, which `LInv` adds to `RInv` (`LedgerInvariance`). One lemma per call
then names the ledger's step, or shows that nothing the ledger speaks of changes:
a refused call, a `createParty` that has erased a closed party and fails, a change
of location within the activity.

`ServiceProofs`, for any number of players, connections and persons and in all
modes: `OneVoiceAlways` (`OneVoice`), `SessionAlwaysFollows` (`SessionFollows`),
`HandsAlwaysOnTheControls` (`HandsOnTheControls`), and `ServiceTypes`. They are
proved together: that the button of a lost connection is released rests on the
slot being leased by the participant's own connection (`Leased`, `Pressed`), that
the slot is not the one of an earlier player rests on the generation the service
remembers being the session's (`Registered`). `SessionFollows` says that who has a
connection is online, always, and who is online has a connection, while the session
can still record events (`Voiced`). The second would be false without
its condition, since `Service::detach` drops the answer of
`GameSession::disconnect`, and the first carries `reconnect` past that point. A
connection ends, leaves or is lost in one way (`GivesUp`, `GivesUpInv`), and a
participant is taken over in one way (`TakesInv`), so the ten actions need few
arguments. Assumed: the `ASSUME`s of `GameSession` and `Service`.

`NativePartyProofs`, for any number of controllers and of parties there is room
for: `RostersAlwaysAgree` (`RostersAgree`), `WorldsAlwaysInOrder`
(`WorldsInOrder`), `OffersAlwaysBindPartners` (`TradesBindPartners`), and
`PartiesTypes`. That `resetNativeWorld` never throws is a claim about the moment of
a call, and no property of a state says why: a world that is reset belongs to
nobody who is out. It follows from where people live. `Landlord`: a party plays in
the world of its leader's number, as its members share a world, its leader is
there and the leader's is its own; `Neighbours`: so whoever shares a world shares
a party. A party whose activity is Town has nobody out (`OutOf`), and a fight
needs somebody out (`FoughtBy`), so the worlds of a party at home, and the world of
who has no party, can be reset (`SafeReset`). The calls that close or leave a
party reset one world after another while the roster changes in between;
`NothingFails` shows that every one of those resets meets a safe world. Founding
and travelling in one call (`startNativePartyAdventure`) is why the parts of the
invariant are written over given values: the state in between is never a state of
the specification. Assumed: the `ASSUME`s of `NativeParty`.

`MultiplayerSessionProofs`, for any number of devices, seats and sessions, queues
of any length and without the bound on disturbances: `SeatsAlwaysExact`
(`SeatsExact`). The first half, one seat per device, is nearly inductive. The
second speaks of a client that has heard everything; the invariant `SInv` must say
what is true while announcements are still queued. While `prompt`, every device is
in one of five situations (`Ordered`): a *member* in the seat it believes in; one
that is *asking*, with its request queued and nothing else that could be taken for
an answer; *accepted* or *refused*, with the answer queued; or *away* from this
session, with a good-bye queued if it still has a seat. For a member and for an
accepted device, what is queued completes what it knows: of every other seat,
either the last announcement in its queue names who sits there, or there is none
and its roster is right already (`Tells`). Each handler then is a lemma about the
device concerned and one about those that stand by (`StandsBy`, `Bystander`). The
acceptance takes the largest: the burst tells the newcomer of each occupied seat
exactly once (`Told`, by the ranks of the seats, `Ranks`), and the queue is long
enough or `prompt` is over (`WholeBurst`). `HostExpired` and `ClientExpired` need
that timeouts do not fire while `prompt`, which is why a member or its host has
always a heartbeat queued or has just heard one: a tick is the only step in which
they grow, and it finds empty queues. Assumed: the `ASSUME`s of the module; a
connection timeout of one interval would expire members whose heartbeat is under
way (the code's is 3.5).

`PartyActivityProofs`, for any number of clients, any rooms and retries, and any
doors, spells, combat events, losses and early retries: `PartyGoesTogether`
(`GoTogether`) and `HostAndClientsAgree` (`SameRoom`), both from
`ActivityInvariance`. What the host may conclude from an acknowledgement depends on
what else is under way: rooms entered for the first time all have epoch 1, of the
acknowledgements only SNAPSHOT's names the room, and the client takes CHARACTER and
SPAWN of any epoch. `ActivityInv` says why no answer is taken for another, with
`Client` for each client separately:

- `Ordered`: the items on the way to a client and the acknowledgements on the way
  back are of the item the transfer is at (`Now`) and of the one before (`Last`),
  the later one behind the earlier, and once the host can hear of the current item
  nothing of the one before is still to reach the client. When a transfer begins,
  the item before its first is the last of the transfer before (`OrderedRestart`);
- `Meant`: items on their way are of the room and the epoch the host means now,
  except for that last item of the transfer before;
- `Prepared`: a client whose room and epoch are not yet the host's has said nothing
  that the host could take for an answer to PREPARE;
- `Received`: what the host takes for received, or is being told so, was received;
- `Staged`: once the host has started, a participant it is not transferring to has
  its last transfer complete, as has one that is ready;
- `Told`, `Willing`: no item is sent before the host loads, no start before it
  starts, and only who accepted is a participant.

The first four are claimed while the client has not gone home (`Live`): a client
that left forgets everything at once and the host hears of it later. They are
about queues of any length, so the lemmas say what sending, answering, advancing
and restarting do to the order (`OrderedSend`, `OrderedReply`, `OrderedAdvance`,
`OrderedRestart`), and one lemma per handler applies them. A door and a spell are
the same step to a transfer (`RestartKeeps`), and what only sends, repeats or loses
a frame changes nothing the invariant speaks of (`SameKeeps`). The theorems then
read off that a complete transfer means a loaded area of the right room and epoch
(`CompleteMeansLoaded`). Assumed: `RoomsAssumption`; nothing of the plans.

`CombatTurnsProofs`, for any number of clients, monsters, rooms and retries, any
order, any losses and early repeats: `TurnsShown` (`EverybodySeesTheTurn`),
`RequestsInTime` (`ActedInTime`), `DoneOnce` (`NothingTwice`) and
`CombatTurnsTyped`, all from `FightInvariance`. None of the three properties says
anything of frames on their way, and everything is decided there. The invariant
`IInv` follows an event from the host to a client and back:

- `Announced`: the newest event names the turn and the order of the fight;
- `Delivered`: the events on their way to a client come in the order of their
  numbers, none older than what it shows, and the newest is the one pending;
- `Shown`: a client of which no acknowledgement is owed shows the newest event, and
  an acknowledgement of the newest on its way says the same;
- `Ordered`: who does not show the order of the fight was given up on when an order
  was told, or the pending event is the order (`Unsure`), and no older order can
  reach the others;
- `Timely`: behind the acknowledgement of the newest event come only requests of
  this turn, since a client sends what it shows and each event withdraws its
  request;
- `Struck`, `Commanded`: while the standard action is left nothing has been struck,
  nothing is owed before the opening spell has taken effect, and whoever owes for it
  is the opener whose next turn begins without a standard action; a command is heard
  after it was given and resolved after it was heard.

Whatever the host does to the fight, for itself, for a client or for a monster, is
one of three steps: it leaves turn and order alone (`Quiet`), tells one event to
all (`Emitted`), or begins the fight (`Started`); one lemma each shows that the
invariant is kept (`QuietKeeps`, `EmittedKeeps`, `StartedKeeps`), and one per
handler says which step it is (`ActSends`, `CrossDoorSteps`, `HostUpdateSteps`,
`RequestHandled` and so on). Acknowledgements, retries, departures and the radio
leave the fight as it is (`Unmoved`), and what a client does concerns that client
alone (`OneClient`). Assumed: `CombatTurnsAssumption` (the host is no client and no
monster, finitely many of both, each monster has a room, the budgets are numbers).

`PartsProofs` about `Packets`, for every set of messages and of versions:
`PeersUnderstandEachOther` (`PeersUnderstand`). The lemmas follow a packet: the decoder takes the fields in the
order the encoder wrote them (`SameOrder`); whatever a field may hold comes back as
it was, a negative number negative and a combatant of no kind as nobody
(`RoundTrip`); what a sender tells passes its encoder, has room in the sender's
buffer (`ToldFits`), and passes the decoder at the other end (one lemma per group,
`ToldTravel` to `ToldMovement`); and a field without a fixed width has the same
width on both sides, because the field that counts it comes with it (`Counts`,
`SameWidth`). That every type's payload decodes to what was meant
(`DecodedAsMeant`) then leaves only the envelope. Assumed: `MessagesAssumption`,
that what is told satisfies `Tells`.

`PartsProofs` proves besides one theorem about each of four parts of the game.

- `SavesAreKept` (`NothingLost`), for any number of slots and heroes and any
  progress, from `SaveAssumption`. The invariant `SavesKept` says when a file may
  be touched: a menu that saves is open only in town, where there is a hero, and
  the record of the old single slot is removed only once the first slot has its
  successor. A file is only ever replaced by a record that gives back what it was
  made from (`RecordGivesBack`); a record of an older layout gives back what that
  layout held (`ConvertedType`, `SlotType`), which is also what its conversion
  writes. A torn temporary file is read by nobody.
- `NobodyGuessesFree` (`NoFreeGuess`), for any players and thresholds
  (`RiddleAssumption`). What makes it inductive (`GuessesCounted`) is that
  no more has been granted than attempted, and that while an answer is awaited
  and none given, as many have been granted as attempted: an answer that comes
  in late, from a screen somebody else's answer has outdated, then counts for
  nothing (`NotGuessed`), and one that counts uses up what was granted.
- `TrapsOnceAndWarned` (`OnceAndWarned`), for any walkers and plates and any warning
  (`TrapAssumption`). `TrapsInOrder` adds that an elemental
  trap is the only one of its room, that only such a trap charges, and that for
  whoever stands on it the time left and the time since their last step make up
  at least the whole warning; that in a fight whoever stepped onto it in this round
  has it charged in this round, so that it waits for the next; and that a trap
  disabled in time neither charges nor has gone off. Of the traps under a footprint
  only the first reacts; that it is alone is why a step onto it always begins a
  whole warning. Left out are steps made before the fight, and traps that were
  disabled while they charged: there the code gives no warning (section 6).
- `RoomsAreShared` (`RoomsShared`), for any number of controllers, rooms and slots, from
  `ResidentAssumption`. `RoomsKept` says that the view in memory is of the room the
  selected controller is in, and that a room is as long as the view says when it
  is that room, or as long as it was saved (`Fits`); that who is in a room stands
  in one slot, which is theirs, and who owns a slot stands in it (`Stands`, `Owned`);
  that the hide comes with the monster (`Hidden`) and no thing is in two bags
  (`Apart`), a bag being a slot or the inventory of who is outside. Who leaves,
  enters, loots, picks up or drops moves a set of things from one bag to another
  (`Passes`, `CarriedOver`, `MoveKeeps`), by leaving a slot, entering one, or handing over
  between two (`LeavingKeeps`, `EnteringKeeps`, `HandingKeeps`); travelling is the
  first two in one step. The sets that the property counts have at most one element then
  (`AtMostOne`).

Only model-checked: `TransfersAreExact` and `TradeTypeOK` of `ItemTrade`, `SeatsSettle`
of `MultiplayerSession` (a claim about the clock of a whole recovery),
`SpellsAreSeen` of `PartyActivity` (its invariant would also have to follow the
snapshots on their way), and everything about the modules not named above. Out of the provers' reach: liveness
(`MonsterTurnEnds`, `AwayTurnEnds`), and induction over recursive definitions (the
folds of `ItemTrade` and `IdleMonsters`; `RoomGen` and `Combat`, which
declare RECURSIVE operators).

## 5. What is not modelled

`PROJECT.json` lists every component with its status and the reason. In short:
the bytes of packets and snapshots, JSON, sockets, pictures, sound, menu layout, the tables of
items, spells, monsters and loot, and the entry points hold no
protocol state worth a model. The gateways and account pages keep theirs in
libraries. Of the engine the arithmetic is left out: rolls, modifiers, hit points,
experience, distances and lines of sight, each a choice where something depends
on it. The layout of the forest, the movement of GameSession between rooms
(`move`, `transition`) and the chunks of a room snapshot, cut from the room as it
is at that moment, are not modelled.

## 6. What the code does not keep

Four runs show a deviation each; the others below were found with the models
and are recorded here. Where a property is named, it is defined in the module,
and TLC refutes it on the instance given.

### Native parties and the service

- `UnlocksOnceHome` (`NativeParty`; two controllers, forest and dungeon): a party
  may stay locked with everybody home, which `docs/TOWN_BROWSER_PARTIES.md:34`
  excludes ("The party unlocks after every retained character has returned.").
  A member comes home, drops out and reconnects: the registry has it as
  CONNECTING until its next refresh. If the last member comes home in that
  interval, `returnToTown` is refused, its result is ignored, and nobody asks
  again; the party can set out no more.
- A controller that reconnects in its own turn keeps the 15 s grace that began
  while it was away (`setControllerConnected`; `docs/PHASE3I_RUNTIME.md:44-47`
  describes a new one).

- Once a session has used its last sequence number it refuses
  `GameSession::disconnect`; `Service::detach` drops the answer (`service.cpp:65`), and
  the player, without a connection, stays online and cannot reconnect.
  `SessionFollows` keeps the half that holds.

### The handheld session

- A JOIN_ACCEPT does not say which request it answers (`processJoinAccept`,
  `multiplayer_session.cpp:552`), and a device that leaves while it is joining
  tells nobody. It asks, leaves and asks again; it becomes a member by the answer
  to the first request and leaves; it asks a third time and takes the answer to the
  second for that to the third. Its good-bye, still on its way, frees the seat it
  now believes in, and the host may give it to another device before it seats the
  first anew, elsewhere; that acceptance is ignored, as the device is a member
  already. Seven inputs and no loss: TLC finds it with `MaxDisturbances` 8 if
  leaving while joining does not end `prompt`. `RosterExactWhenPrompt` therefore
  excludes that departure; `SeatsSettle` does not, and holds: the device's
  heartbeats name a seat that is not its own, and both sides time out.

### The handheld activity

- Run `refresh_in_combat` (`NobodyIsRemoved`): a combat event raises the client's
  revision of the room, after which the client silently drops the PREPARE of a
  refresh scheduled one revision earlier, and the host removes it after the
  retries although nothing was lost.
- `DoorIsAnswered` (`Plans` = {`Plan(1, 0, 0, 1)`}): a door the host does not find
  is answered with a position only. The client repeats its request for ever, the
  host ignores it for its old number, and every other door is refused meanwhile
  (`docs/multiplayer-stage2.md:13` promises bounded retries).

- `scheduleRoomRefreshForClients` skips whom the host is already sending the room:
  an ability cast then is not shown to that client before the next ability in the
  room or the next door. `SpellsAreSeen` leaves out this one ability; with it
  (`shown[p] = Len(spells[croom[p]])`) TLC refutes it with `Plan(0, 2, 0, 0)`.

TLC refutes further properties of `PartyActivity` with two clients and one retry:

| Property | `Plans` | What happens |
|---|---|---|
| `NobodyIsRemoved` | `Rooms` {1, 2}, `RetryLimit` 2, `Plan(1, 0, 0, 2)` | A repeated START carries an epoch and no room; it starts a room first visited (also epoch 1) whose ROOM_READY was lost. The host waits for a READY that never comes and removes the player after `ACTIVITY_LOAD_TIMEOUT_MS`. |
| `NobodyIsRemoved` | `Plan(0, 1, 0, 1)` | START is lost and an ability refreshes the room: the client, still loading, answers ACTIVITY_READY instead of ROOM_READY and is not started again. |
| `EndReachesAll` | `Plan(0, 0, 0, 1)` | ACTIVITY_END is sent once. |
| `LeaversAreOut` | `Plan(0, 0, 0, 1)` | ACTIVITY_LEAVE is sent once. |
| `OneInFlight` | `Rooms` {1, 2}, `Plan(1, 0, 0, 0)` | A READY makes the host send START to one client while an item to another is unacknowledged; `docs/multiplayer-stage2.md:34` says one frame is in flight across the activity. |

### Handheld combat

- Run `monster_strikes` (`MonstersStrikeOnce`): nothing records that a monster's
  standard action is spent; it strikes at every update of the host while a player
  stays in its reach.
- `TurnsAreUsable` (`CombatTurns`, the instance of `combat_turns`): who crosses a
  door in its turn is not told that its own place in the order has the new room;
  the host refuses all its further requests, END_TURN included, and the fight
  waits for it (`docs/multiplayer-stage3.md:74`).
- An opening ability and the request of its caster in one batch of received
  frames give it two standard actions (`strikes.both`; TLC refutes
  `strikes.now <= 1` with the opening budgets).

### Encounters

- Run `opening_refused` (`OpeningResolves`): `endCombat` leaves the actions used in
  the last turn, so the resolver refuses the spell that opens the next encounter
  after the encounter has begun.
- An area spell, a hazard or a condition that fells the last enemy does not end
  the encounter (`combat.cpp:701`, against the comment at 3106-3109): it goes on
  with no enemy, and natively nobody may leave. The run `combat` stops there.
- Button B asks whose turn it is and nothing else (`buttons.cpp:689-694`). While the
  initiative is shown it hands the turn on, the phase stays, and after the two
  seconds `updateCombat` (`combat.cpp:2114-2127`) begins the turn of whoever is now
  first again: one who has acted meanwhile acts again, and pays its conditions
  twice. `OneTurnEach` leaves out this one combatant.
- A turn is handed on with a result still shown in four ways, named by `CutShort`: a
  monster whose spell felled the only player of its room is unattended at the next
  tick, its turn passes with the spell still pending, and the next combatant's turn
  is taken for the caster's (two players and two rooms); a turn begun twice, as
  above; B pressed while the result of Channel Energy is shown, after which
  `endPlayerTurnAfterMessage` ends the next player's turn (`combat.cpp:2134`); and
  the turn after one of these.
- A damaging ability with a lasting effect that finds no free slot returns after
  the damage and before the action is spent (`abilityresolver.cpp:1440`).
- An aim that is left over when an encounter begins takes the initiative; a player
  revived in mid-fight is not in the roster, and `nextTurn` may then call itself
  without end; experience is granted again for monsters already counted.
- `fell` and a begun blow survive `abortCombat` (`dungeon.cpp:611-612`).

### Puzzles and traps

- Riddle: the answer is written before `handleCurrentBertramRiddleResult` may
  refuse it, and without a free tile or entity slot the key is not placed: the
  room can stay locked, and a dead-end puzzle room locks its only exit. Return to
  Town remains.
- Number tiles: one flag and one step counter serve all players of the room; a
  step is counted before a fight may refuse it; after completion the near edge is
  still demanded; `movePlayerToStartLanding` may put a walker onto another one.
- Braziers: the chest is looked up by `getEntityAt`, which may find a player who
  stands there.
- Traps: arrow and dart traps hurt nobody; a disabled elemental trap that was
  charging still fires; who enters during the charge gets no warning; a charge
  begun before a fight fires at once when the fight has a round.

### Rooms, belongings, words

- `travelNativeRoom` reuses the first inactive slot without `findFreeEntity`'s
  test that no combatant refers to it; pointers of another controller
  (`lockedChest`, `selectedFountain`, `inventoryMenu.corpse`) go stale when a slot
  is reused, and so do the flags of another observer's view.
- The sell list keeps the rows of before a trade (`shop.cpp:304-320`), so a sale
  after it may sell another item than the one shown.
- A scroll's spell is resolved before the scroll is consumed: given away in
  between it works and can be repeated. `openPlayerInventoryMenu` does not reset
  `choosingItemAction`.
- `progression.cpp` says further arcane spells come from scrolls, and grants
  another starter spell when a level raises intelligence.

### Buttons and monsters at rest

- Run `energy_menu` (`MenusAnswer`): the menu for the energy of Resist Energy and
  Protection from Energy opens with the ability already selected, and
  `handleMapButtons` serves an ability that is being aimed before a menu. The menu
  is shown and never answers ("Choose fire energy.", `menu.cpp:263`): A casts
  what is hidden, B leads back to the main menu.
- In Town nobody polls the switch of the encoder once a menu, the sheet or home is
  closed, so its suppression is never lifted and a long press opens no sheet
  until another menu is opened and the switch is polled in it.
- A sheet opened by a long press over an aim is shown, while the keys move and
  fire the hidden aim.
- A and B have no debounce: only the switch of the encoder has.
- `reset` keeps `encoderPressStart`: no harm where it is called, as the screens
  before it do not ask for a long press; who holds the click that accepts a name
  opens the sheet 750 ms later.
- The timers of monsters in a room the player has left go on
  (`entitypersistence.cpp`), so all that are overdue move in the first frame
  after a return; `IdleInTurn` speaks of rooms the player has stayed in.
- A survivor that is aware of the player neither moves nor, on a handheld, begins
  another fight by itself.
- Two contacts that change between two polls end the detent in progress; later
  steps then come at half a detent.

## 7. Plan

Done: event history and registry with their proofs and the ledger; item trades;
native parties; handheld session, activity and combat; the service; encounters;
rooms, generation, puzzles, traps, effects, conditions, belongings and saves;
buttons, encoder and idle monsters.

Next, the most important first:

1. Proofs: `SpellsAreSeen` of `PartyActivity`, `IdleInTurn` of `IdleMonsters` and
   the puzzles of `PuzzlesFair`.
2. `CombatTurns` as an implementation of one sequence of events of which every
   client sees a prefix.
3. The chunks of a snapshot cut while the room changes.
4. The relay of the gateways, as far as its two closing directions go.
