------------------------------ MODULE Packets ------------------------------
(***************************************************************************)
(* The packets of the handhelds: what network_protocol.cpp writes, field   *)
(* by field, and what it reads and accepts at the other end.               *)
(*                                                                         *)
(* A payload is a function from the names of its fields.  An enumerator is *)
(* its name, a mask of players or of actions a set; an array whose cells   *)
(* are all treated alike (the spells, the conditions, the pieces of        *)
(* equipment) is one cell.  On the air is the sequence of the fields       *)
(* written, each with its width in bytes: a reader that takes another      *)
(* number of bytes does not read that field.                               *)
(***************************************************************************)
EXTENDS Integers, Sequences, SequencesExt

CONSTANTS
    ProtocolVersion,  \* MULTIPLAYER_PROTOCOL_VERSION of the receiver
    Builds,           \* the versions of the devices near by
    Messages          \* what a handheld may be about to tell: [version, type, of]

ASSUME VersionAssumption == ProtocolVersion \in Builds

VARIABLES
    said,         \* the message of the sender
    air,          \* the frame it sent
    told          \* what the receiver has taken

packetVars == <<said, air, told>>

Nobody == 255                 \* INVALID_PLAYER_ID
NoRoomID == 255               \* NETWORK_NO_ROOM
MaxRooms == 12                \* NETWORK_MAX_DUNGEON_ROOMS
PlayerIDs == 0..3             \* isValidPlayerID
RoomNumbers == 0..(MaxRooms - 1)
MaxChunks == 4                \* MAX_SNAPSHOT_CHUNKS
ChunkData == 200              \* SNAPSHOT_CHUNK_DATA_SIZE
TextSize == 96                \* SHARED_MESSAGE_TEXT_SIZE
MaxCombatants == 16
MaxPayload == 236             \* NETWORK_MAX_PAYLOAD_SIZE

Nothing == [packet |-> "none"]
Refused == [packet |-> "refused"]

Activities == {"FOREST", "DUNGEON"}
Snapshots == {"DUNGEON_GRAPH", "FOREST_STATE", "DUNGEON_ROOM", "DUNGEON_ROOM_DETAIL"}
Availabilities == {"AVAILABLE", "IN_PARTY", "IN_DUNGEON", "IN_COMBAT", "BUSY"}
Rejections == {"NONE", "PROTOCOL_MISMATCH", "SESSION_FULL", "SESSION_UNAVAILABLE", "INVALID_REQUEST"}
Departures == {"LEFT_PARTY", "CONNECTION_TIMEOUT", "HOST_ENDED_SESSION"}
Categories == {"GAMEPLAY", "COMBAT", "ROOM", "SYSTEM"}
ActionTypes ==
    {"MOVE", "MELEE_ATTACK", "RANGED_ATTACK", "CAST_ABILITY", "USE_ITEM", "FIVE_FOOT_STEP",
     "FULL_DEFENSE", "DELAY", "END_TURN", "DOUBLE_MOVE"}
EventTypes == {"STATE", "ACTION_RESULT", "TURN_ADVANCE", "COMBAT_ENDED"}
ActionFlags == {"MOVE_ACTION_USED", "STANDARD_ACTION_USED", "FULL_DEFENSE"}

-----------------------------------------------------------------------------
(* The types of packet *)

Started == {"ACTIVITY_READY", "ROOM_READY", "ACTIVITY_START", "FOREST_BEGIN"}
Members == {"ACTIVITY_LEAVE", "ACTIVITY_END", "PLAYER_DESPAWN"}
CharacterPackets == {"TRAVEL_ACCEPT", "TRAVEL_DECLINE", "PLAYER_CHARACTER_STATE"}
Events == {"COMBAT_ACTION_RESULT", "COMBAT_TURN", "COMBAT_END"}
Signals == {"HEARTBEAT", "PING", "PONG"}

\* isKnownPacketType, of the types some handheld sends.
Known ==
    Started \cup Members \cup CharacterPackets \cup Events \cup Signals \cup
    {"DISCOVERY_BEACON", "JOIN_REQUEST", "JOIN_ACCEPT", "JOIN_REJECT", "PLAYER_JOINED",
     "PLAYER_LEFT", "TRAVEL_INVITE", "ACTIVITY_PREPARE", "DUNGEON_BEGIN", "SNAPSHOT_CHUNK",
     "PLAYER_SPAWN", "ROOM_TRANSITION", "ACK", "SHARED_GAMEPLAY_MESSAGE",
     "PLAYER_ROOM_TRANSITION_REQUEST", "PLAYER_MOVE_REQUEST", "PLAYER_POSITION",
     "PLAYER_ROOM_CHANGE", "EXPLORATION_ABILITY_COMMAND", "EXPLORATION_ABILITY_RESULT",
     "COMBAT_BEGIN", "COMBAT_ACTION_REQUEST", "COMBAT_ACK"}

\* The packets whose delivery decodeActivityAck and decodeMultiplayerCombatAck confirm.
Reliable ==
    {"ACTIVITY_PREPARE", "DUNGEON_BEGIN", "FOREST_BEGIN", "ROOM_TRANSITION", "ACTIVITY_START",
     "PLAYER_CHARACTER_STATE", "SNAPSHOT_CHUNK", "PLAYER_SPAWN"}
ReliableCombat == Events \cup {"COMBAT_BEGIN"}

-----------------------------------------------------------------------------
(* Fields *)

Longs == {"activityID", "deviceID", "generationSeed"}
SignedWords == {"currentHP", "maxHP", "currentMP", "maxMP", "actorHP", "targetHP"}
Words == SignedWords \cup
    {"snapshotEpoch", "messageSequence", "transitionSequence", "combatID", "eventSequence",
     "round", "actionSequence", "abilityID", "roomRevision", "generationVersion",
     "clientMovementSequence", "movementSequence"}
SignedBytes == {"initiative", "aimX", "aimY"}
References == {"actor", "target"}

\* PacketWriter: the bytes of field f of payload p.
WidthOf(f, p) ==
    CASE f \in Longs -> 4
      [] f \in Words -> 2
      [] f = "displayName" -> 16
      [] f = "abilityScores" -> 6
      [] f = "equipment" -> 12
      [] f = "knownAbilities" -> 64
      [] f = "conditions" -> 60
      [] f \in References -> 4
      [] f = "combatants" -> 5 * p["combatantCount"]
      [] f = "text" -> p["textLength"]
      [] f = "data" -> p["payloadLength"]
      [] OTHER -> 1

Byte == 256
Word == 65536

Bytes == 0..(Byte - 1)
SmallInts == -128..127        \* int8_t
Ints == -32768..32767         \* int16_t

\* A negative number goes on the air as its complement and must be read back as such.
Unsigned(n, range) == IF n < 0 THEN n + range ELSE n
\* Mutant of Signed: what was negative is read as a large number.
NeverSigned(n, range) == n
Signed(n, range) == IF n >= range \div 2 THEN n - range ELSE n

NoCombatant == [kind |-> "NONE", playerID |-> Nobody, roomID |-> NoRoomID, entityID |-> 0]

CombatantRefs ==
    [kind : {"NONE", "PLAYER", "MONSTER"}, playerID : Bytes, roomID : Bytes, entityID : Bytes]

\* validCombatantRef
ValidRef(r) ==
    /\ r.roomID \in RoomNumbers
    /\ \/ r.kind = "PLAYER" /\ r.playerID \in PlayerIDs /\ r.entityID = 0
       \/ r.kind = "MONSTER" /\ r.playerID = Nobody /\ r.entityID # 0

\* writeOptionalCombatantRef, readOptionalCombatantRef
MayWrite(r) == r.kind = "NONE" \/ ValidRef(r)
MayRead(r) == r = NoCombatant \/ ValidRef(r)

\* The value of a field on the air ...
Put(f, v) ==
    CASE f \in SignedWords -> Unsigned(v, Word)
      [] f \in SignedBytes -> Unsigned(v, Byte)
      [] f = "acceptingPlayers" -> IF v THEN 1 ELSE 0
      [] f \in References -> IF v.kind = "NONE" THEN NoCombatant ELSE v
      [] f = "equipment" -> [v EXCEPT !.enhancementBonus = Unsigned(@, Byte)]
      [] f = "conditions" ->
           [v EXCEPT !.value = Unsigned(@, Word), !.roundsRemaining = Unsigned(@, Word)]
      [] f = "combatants" ->
           [i \in DOMAIN v |-> [v[i] EXCEPT !.initiative = Unsigned(@, Byte)]]
      [] OTHER -> v

\* ... and what its reader makes of it.
Taken(f, v) ==
    CASE f \in SignedWords -> Signed(v, Word)
      [] f \in SignedBytes -> Signed(v, Byte)
      [] f = "acceptingPlayers" -> v # 0
      [] f = "equipment" -> [v EXCEPT !.enhancementBonus = Signed(@, Byte)]
      [] f = "conditions" ->
           [v EXCEPT !.value = Signed(@, Word), !.roundsRemaining = Signed(@, Word)]
      [] f = "combatants" ->
           [i \in DOMAIN v |-> [v[i] EXCEPT !.initiative = Signed(@, Byte)]]
      [] OTHER -> v

-----------------------------------------------------------------------------
(* What each packet is made of: the fields in the order they are written,  *)
(* and in the order they are read                                          *)

WrittenProfile == <<"deviceID", "level", "characterClass", "displayName">>
ReadProfile == <<"deviceID", "level", "characterClass", "displayName">>

WrittenState ==
    <<"playerID", "displayName", "characterClass", "level", "currentHP", "maxHP",
      "abilityScores", "speed", "characterState", "currentMP", "maxMP", "initiative",
      "trainedWeaponGroup", "channelEnergyCurrent", "channelEnergyMax", "equipment",
      "knownAbilityCount", "knownAbilities", "conditionCount", "conditions">>
ReadState ==
    <<"playerID", "displayName", "characterClass", "level", "currentHP", "maxHP",
      "abilityScores", "speed", "characterState", "currentMP", "maxMP", "initiative",
      "trainedWeaponGroup", "channelEnergyCurrent", "channelEnergyMax", "equipment",
      "knownAbilityCount", "knownAbilities", "conditionCount", "conditions">>

PartyWritten ==
    [DISCOVERY_BEACON |-> WrittenProfile \o <<"availability", "acceptingPlayers">>,
     JOIN_REQUEST |-> WrittenProfile,
     JOIN_ACCEPT |-> <<"assignedPlayerID", "playerCapacity">>,
     JOIN_REJECT |-> <<"rejection">>,
     PLAYER_JOINED |-> <<"playerID">> \o WrittenProfile,
     PLAYER_LEFT |-> <<"playerID", "departure">>]
PartyRead ==
    [DISCOVERY_BEACON |-> ReadProfile \o <<"availability", "acceptingPlayers">>,
     JOIN_REQUEST |-> ReadProfile,
     JOIN_ACCEPT |-> <<"assignedPlayerID", "playerCapacity">>,
     JOIN_REJECT |-> <<"rejection">>,
     PLAYER_JOINED |-> <<"playerID">> \o ReadProfile,
     PLAYER_LEFT |-> <<"playerID", "departure">>]

TravelWritten ==
    [TRAVEL_INVITE |-> <<"activityID", "activityType", "hostPlayerID">>,
     ACTIVITY_PREPARE |->
         <<"activityID", "activityType", "roomID", "snapshotEpoch", "participantMask",
           "roomPlayerMask", "graphChunkCount", "detailChunkCount", "worldChunkCount">>]
TravelRead ==
    [TRAVEL_INVITE |-> <<"activityID", "activityType", "hostPlayerID">>,
     ACTIVITY_PREPARE |->
         <<"activityID", "activityType", "roomID", "snapshotEpoch", "participantMask",
           "roomPlayerMask", "graphChunkCount", "detailChunkCount", "worldChunkCount">>]

ActivityWritten(t) ==
    CASE t \in Started -> <<"activityID", "snapshotEpoch">>
      [] t \in Members -> <<"activityID", "playerID">>
      [] OTHER -> <<"activityID", "playerID", "roomID", "x", "y">>
ActivityRead(t) ==
    CASE t \in Started -> <<"activityID", "snapshotEpoch">>
      [] t \in Members -> <<"activityID", "playerID">>
      [] OTHER -> <<"activityID", "playerID", "roomID", "x", "y">>

TransferWritten ==
    [SNAPSHOT_CHUNK |->
         <<"activityID", "snapshotType", "roomID", "snapshotEpoch", "chunkIndex", "totalChunks",
           "payloadLength", "data">>,
     ACK |->
         <<"activityID", "snapshotEpoch", "packetType", "snapshotType", "roomID", "itemIndex",
           "chunkIndex">>,
     ROOM_TRANSITION |-> <<"activityID", "roomID", "entryDirection", "snapshotEpoch">>,
     PLAYER_ROOM_TRANSITION_REQUEST |->
         <<"activityID", "sourceRoomID", "direction", "transitionSequence">>,
     SHARED_GAMEPLAY_MESSAGE |->
         <<"activityID", "messageSequence", "category", "textLength", "text">>]
TransferRead ==
    [SNAPSHOT_CHUNK |->
         <<"activityID", "snapshotType", "roomID", "snapshotEpoch", "chunkIndex", "totalChunks",
           "payloadLength", "data">>,
     ACK |->
         <<"activityID", "snapshotEpoch", "packetType", "snapshotType", "roomID", "itemIndex",
           "chunkIndex">>,
     ROOM_TRANSITION |-> <<"activityID", "roomID", "entryDirection", "snapshotEpoch">>,
     PLAYER_ROOM_TRANSITION_REQUEST |->
         <<"activityID", "sourceRoomID", "direction", "transitionSequence">>,
     SHARED_GAMEPLAY_MESSAGE |->
         <<"activityID", "messageSequence", "category", "textLength", "text">>]

CombatWritten ==
    [COMBAT_BEGIN |->
         <<"activityID", "combatID", "eventSequence", "combatantCount", "currentTurnIndex",
           "round", "combatants">>,
     COMBAT_ACTION_REQUEST |->
         <<"activityID", "combatID", "actionSequence", "action", "actor", "target", "abilityID",
           "aimX", "aimY", "direction", "damageType", "flags">>,
     COMBAT_ACK |-> <<"activityID", "combatID", "eventSequence", "packetType", "reserved">>]
CombatRead ==
    [COMBAT_BEGIN |->
         <<"activityID", "combatID", "eventSequence", "combatantCount", "currentTurnIndex",
           "round", "combatants">>,
     COMBAT_ACTION_REQUEST |->
         <<"activityID", "combatID", "actionSequence", "action", "actor", "target", "abilityID",
           "aimX", "aimY", "direction", "damageType", "flags">>,
     COMBAT_ACK |-> <<"activityID", "combatID", "eventSequence", "packetType", "reserved">>]

EventWritten ==
    <<"activityID", "combatID", "eventSequence", "eventType", "currentTurnIndex", "round",
      "movementRemaining", "actionFlags", "actor", "target", "actorX", "actorY", "targetX",
      "targetY", "actorHP", "targetHP", "actorState", "targetState", "roomRevision",
      "textLength", "text">>
EventRead ==
    <<"activityID", "combatID", "eventSequence", "eventType", "currentTurnIndex", "round",
      "movementRemaining", "actionFlags", "actor", "target", "actorX", "actorY", "targetX",
      "targetY", "actorHP", "targetHP", "actorState", "targetState", "roomRevision",
      "textLength", "text">>

MovementWritten ==
    [DUNGEON_BEGIN |->
         <<"activityID", "syncMode", "generationVersion", "generationSeed", "roomCount",
           "entranceRoom", "snapshotEpoch">>,
     PLAYER_MOVE_REQUEST |-> <<"activityID", "direction", "clientMovementSequence">>,
     PLAYER_POSITION |->
         <<"activityID", "playerID", "roomID", "x", "y", "facing", "movementSequence">>,
     PLAYER_ROOM_CHANGE |->
         <<"activityID", "playerID", "roomID", "entryDirection", "x", "y", "movementSequence">>,
     EXPLORATION_ABILITY_COMMAND |->
         <<"activityID", "actionSequence", "target", "abilityID", "aimX", "aimY", "direction",
           "damageType">>,
     EXPLORATION_ABILITY_RESULT |-> <<"activityID", "actionSequence", "result">>]
MovementRead ==
    [DUNGEON_BEGIN |->
         <<"activityID", "syncMode", "generationVersion", "generationSeed", "roomCount",
           "entranceRoom", "snapshotEpoch">>,
     PLAYER_MOVE_REQUEST |-> <<"activityID", "direction", "clientMovementSequence">>,
     PLAYER_POSITION |->
         <<"activityID", "playerID", "roomID", "x", "y", "facing", "movementSequence">>,
     PLAYER_ROOM_CHANGE |->
         <<"activityID", "playerID", "roomID", "entryDirection", "x", "y", "movementSequence">>,
     EXPLORATION_ABILITY_COMMAND |->
         <<"activityID", "actionSequence", "target", "abilityID", "aimX", "aimY", "direction",
           "damageType">>,
     EXPLORATION_ABILITY_RESULT |-> <<"activityID", "actionSequence", "result">>]

Writes(t) ==
    CASE t \in DOMAIN PartyWritten -> PartyWritten[t]
      [] t \in DOMAIN TravelWritten -> TravelWritten[t]
      [] t \in CharacterPackets -> <<"activityID">> \o WrittenState
      [] t \in Started \cup Members \cup {"PLAYER_SPAWN"} -> ActivityWritten(t)
      [] t \in DOMAIN TransferWritten -> TransferWritten[t]
      [] t \in DOMAIN CombatWritten -> CombatWritten[t]
      [] t \in Events -> EventWritten
      [] t \in DOMAIN MovementWritten -> MovementWritten[t]
      [] OTHER -> <<>>
Reads(t) ==
    CASE t \in DOMAIN PartyRead -> PartyRead[t]
      [] t \in DOMAIN TravelRead -> TravelRead[t]
      [] t \in CharacterPackets -> <<"activityID">> \o ReadState
      [] t \in Started \cup Members \cup {"PLAYER_SPAWN"} -> ActivityRead(t)
      [] t \in DOMAIN TransferRead -> TransferRead[t]
      [] t \in DOMAIN CombatRead -> CombatRead[t]
      [] t \in Events -> EventRead
      [] t \in DOMAIN MovementRead -> MovementRead[t]
      [] OTHER -> <<>>

Fields(t) == ToSet(Writes(t))

-----------------------------------------------------------------------------
(* Room for a packet *)

\* The sizes of network_protocol.h; what is not fixed is counted by the packet.
PayloadSize(t, p) ==
    CASE t \in CharacterPackets -> 4 + 177
      [] t \in Started -> 6
      [] t \in Members -> 5
      [] t \in Events -> 35 + p.textLength
      [] t = "DISCOVERY_BEACON" -> 24
      [] t = "JOIN_REQUEST" -> 22
      [] t = "PLAYER_JOINED" -> 1 + 22
      [] t \in {"JOIN_ACCEPT", "PLAYER_LEFT"} -> 2
      [] t = "JOIN_REJECT" -> 1
      [] t = "TRAVEL_INVITE" -> 6
      [] t = "ACTIVITY_PREPARE" -> 13
      [] t = "DUNGEON_BEGIN" -> 15
      [] t = "SNAPSHOT_CHUNK" -> 11 + p.payloadLength
      [] t \in {"PLAYER_SPAWN", "ROOM_TRANSITION", "PLAYER_ROOM_TRANSITION_REQUEST"} -> 8
      [] t = "SHARED_GAMEPLAY_MESSAGE" -> 8 + p.textLength
      [] t \in {"ACK", "PLAYER_POSITION", "PLAYER_ROOM_CHANGE"} -> 11
      [] t \in {"PLAYER_MOVE_REQUEST", "EXPLORATION_ABILITY_RESULT"} -> 7
      [] t = "EXPLORATION_ABILITY_COMMAND" -> 16
      [] t = "COMBAT_BEGIN" -> 12 + 5 * p.combatantCount
      [] t = "COMBAT_ACTION_REQUEST" -> 24
      [] t = "COMBAT_ACK" -> 10
      [] OTHER -> 0

\* The buffer the sender gives its writer.
BufferSize(t) ==
    CASE t = "JOIN_REJECT" -> 4
      [] t \in {"JOIN_ACCEPT", "PLAYER_LEFT", "PLAYER_ROOM_TRANSITION_REQUEST"} -> 8
      [] t \in {"DISCOVERY_BEACON", "PLAYER_JOINED"} -> 32
      [] t \in {"TRAVEL_INVITE", "ACTIVITY_READY", "ROOM_READY", "ACTIVITY_START",
                "PLAYER_MOVE_REQUEST", "EXPLORATION_ABILITY_COMMAND"} \cup Members -> 16
      [] t \in {"ACK", "PLAYER_ROOM_CHANGE"} -> 11
      [] t = "PLAYER_POSITION" -> 24
      [] t = "COMBAT_ACK" -> 10
      [] t = "EXPLORATION_ABILITY_RESULT" -> 7
      [] OTHER -> MaxPayload

-----------------------------------------------------------------------------
(* What the encoders refuse to write *)

Identified(p) ==
    /\ "activityID" \in DOMAIN p => p.activityID # 0
    /\ "combatID" \in DOMAIN p => p.combatID # 0

TravelWritable(t, p) ==
    /\ t \in {"TRAVEL_INVITE", "ACTIVITY_PREPARE"} => p.activityType \in Activities
    /\ t = "TRAVEL_INVITE" => p.hostPlayerID = 0
    /\ t = "ACTIVITY_PREPARE" =>
         /\ p.graphChunkCount <= MaxChunks /\ p.detailChunkCount <= MaxChunks
         /\ p.worldChunkCount \in 1..MaxChunks
    /\ t \in CharacterPackets =>
         /\ p.playerID \in PlayerIDs /\ p.characterClass < 4
         /\ p.knownAbilityCount <= 32 /\ p.conditionCount <= 12

ActivityWritable(t, p) == t \in Members \cup {"PLAYER_SPAWN"} => p.playerID \in PlayerIDs

TransferWritable(t, p) ==
    /\ t = "SNAPSHOT_CHUNK" =>
         /\ p.totalChunks \in 1..MaxChunks /\ p.chunkIndex < p.totalChunks
         /\ p.payloadLength \in 1..ChunkData
    /\ t = "ROOM_TRANSITION" => p.roomID # NoRoomID /\ p.entryDirection <= 4
    /\ t = "PLAYER_ROOM_TRANSITION_REQUEST" => p.sourceRoomID \in RoomNumbers /\ p.direction < 8
    /\ t = "SHARED_GAMEPLAY_MESSAGE" =>
         /\ p.category \in Categories /\ p.textLength \in 1..(TextSize - 1)
         /\ p.text.length <= p.textLength

CombatWritable(t, p) ==
    /\ t = "COMBAT_BEGIN" =>
         /\ p.combatantCount \in 1..MaxCombatants /\ p.currentTurnIndex < p.combatantCount
         /\ \A i \in 1..p.combatantCount : ValidRef(p.combatants[i].combatant)
    /\ t = "COMBAT_ACTION_REQUEST" =>
         /\ p.action \in ActionTypes /\ p.direction < 8
         /\ ValidRef(p.actor) /\ MayWrite(p.target)
    /\ t = "COMBAT_ACK" => p.packetType \in ReliableCombat

EventWritable(p) ==
    /\ p.eventType \in EventTypes
    /\ p.textLength < TextSize /\ p.text.length <= p.textLength
    /\ MayWrite(p.actor) /\ MayWrite(p.target)

MovementWritable(t, p) ==
    t = "EXPLORATION_ABILITY_COMMAND" => p.abilityID # 0 /\ p.direction < 8 /\ MayWrite(p.target)

\* Each encoder, and encodePacket.
Writable(t, p) ==
    /\ Identified(p)
    /\ TravelWritable(t, p) /\ ActivityWritable(t, p) /\ TransferWritable(t, p)
    /\ CombatWritable(t, p) /\ MovementWritable(t, p)
    /\ t \in Events => EventWritable(p)
    /\ t \in Known /\ PayloadSize(t, p) <= BufferSize(t) /\ PayloadSize(t, p) <= MaxPayload

-----------------------------------------------------------------------------
(* What the decoders refuse to read *)

PartyReadable(t, p) ==
    /\ "deviceID" \in DOMAIN p => p.deviceID # 0 /\ p.characterClass < 4
    /\ t = "DISCOVERY_BEACON" => p.availability \in Availabilities
    /\ t = "JOIN_ACCEPT" => p.assignedPlayerID \in PlayerIDs /\ p.playerCapacity = 4
    /\ t = "JOIN_REJECT" => p.rejection \in Rejections
    /\ t \in {"PLAYER_JOINED", "PLAYER_LEFT"} => p.playerID \in PlayerIDs
    /\ t = "PLAYER_LEFT" => p.departure \in Departures

TravelReadable(t, p) ==
    /\ t \in {"TRAVEL_INVITE", "ACTIVITY_PREPARE"} => p.activityType \in Activities
    /\ t = "TRAVEL_INVITE" => p.hostPlayerID = 0
    /\ t = "ACTIVITY_PREPARE" =>
         /\ p.roomID \in IF p.activityType = "FOREST" THEN {NoRoomID} ELSE RoomNumbers
         /\ p.graphChunkCount <= MaxChunks /\ p.detailChunkCount <= MaxChunks
         /\ p.worldChunkCount \in 1..MaxChunks
         /\ p.roomPlayerMask # {}
         /\ p.roomPlayerMask \subseteq p.participantMask /\ p.participantMask \subseteq PlayerIDs
    /\ t \in CharacterPackets =>
         /\ p.knownAbilityCount <= 32 /\ p.conditionCount <= 12
         /\ p.playerID \in PlayerIDs /\ p.characterClass < 4 /\ p.maxHP > 0

ActivityReadable(t, p) ==
    /\ t \in Members \cup {"PLAYER_SPAWN"} => p.playerID \in PlayerIDs
    /\ t = "PLAYER_SPAWN" => p.roomID \in RoomNumbers \cup {NoRoomID}

TransferReadable(t, p) ==
    /\ t = "SNAPSHOT_CHUNK" =>
         /\ p.payloadLength \in 1..ChunkData
         /\ p.totalChunks \in 1..MaxChunks /\ p.chunkIndex < p.totalChunks
         /\ \/ p.snapshotType \in {"DUNGEON_GRAPH", "FOREST_STATE"} /\ p.roomID = NoRoomID
            \/ p.snapshotType \in {"DUNGEON_ROOM", "DUNGEON_ROOM_DETAIL"} /\ p.roomID \in RoomNumbers
    /\ t = "ACK" =>
         /\ p.packetType \in Reliable /\ p.snapshotType \in Snapshots
         /\ p.roomID \in RoomNumbers \cup {NoRoomID}
         /\ p.itemIndex \in PlayerIDs /\ p.chunkIndex < MaxChunks
    /\ t = "ROOM_TRANSITION" => p.roomID \in RoomNumbers /\ p.entryDirection <= 4
    /\ t = "PLAYER_ROOM_TRANSITION_REQUEST" => p.sourceRoomID \in RoomNumbers /\ p.direction < 8
    /\ t = "SHARED_GAMEPLAY_MESSAGE" =>
         p.category \in Categories /\ p.textLength \in 1..(TextSize - 1)

CombatReadable(t, p) ==
    /\ t = "COMBAT_BEGIN" =>
         /\ p.combatantCount \in 1..MaxCombatants /\ p.currentTurnIndex < p.combatantCount
         /\ \A i \in 1..p.combatantCount : ValidRef(p.combatants[i].combatant)
    /\ t = "COMBAT_ACTION_REQUEST" =>
         /\ p.action \in ActionTypes /\ p.direction < 8
         /\ ValidRef(p.actor) /\ MayRead(p.target)
    /\ t = "COMBAT_ACK" => p.packetType \in ReliableCombat

EventReadable(p) ==
    /\ MayRead(p.actor) /\ MayRead(p.target)
    /\ p.eventType \in EventTypes /\ p.textLength < TextSize
    /\ p.actionFlags \subseteq ActionFlags

MovementReadable(t, p) ==
    /\ t = "DUNGEON_BEGIN" =>
         /\ p.roomCount \in 7..MaxRooms /\ p.entranceRoom < p.roomCount
         /\ p.syncMode = "AUTHORITATIVE_GRAPH_AND_ROOM_STATE"
    /\ t = "PLAYER_MOVE_REQUEST" => p.direction < 8
    /\ t \in {"PLAYER_POSITION", "PLAYER_ROOM_CHANGE"} => p.playerID \in PlayerIDs
    /\ t = "PLAYER_POSITION" => p.roomID \in RoomNumbers \cup {NoRoomID} /\ p.facing < 8
    /\ t = "PLAYER_ROOM_CHANGE" => p.roomID \in RoomNumbers /\ p.entryDirection < 8
    /\ t = "EXPLORATION_ABILITY_COMMAND" => p.abilityID # 0 /\ p.direction < 8 /\ MayRead(p.target)

Readable(t, p) ==
    /\ Identified(p)
    /\ PartyReadable(t, p) /\ TravelReadable(t, p) /\ ActivityReadable(t, p)
    /\ TransferReadable(t, p) /\ CombatReadable(t, p) /\ MovementReadable(t, p)
    /\ t \in Events => EventReadable(p)

-----------------------------------------------------------------------------
(* What the senders tell *)

\* The range of a field: its integer type, or what the sender checks or computes.
InRange(f, v) ==
    CASE f \in {"activityID", "deviceID"} -> v \in Nat \ {0}
      [] f = "maxHP" -> v \in Ints /\ v > 0
      [] f \in SignedWords \ {"maxHP"} -> v \in Ints
      [] f = "combatID" -> v \in 1..(Word - 1)
      [] f \in Words \ (SignedWords \cup {"combatID"}) -> v \in 0..(Word - 1)
      [] f \in SignedBytes -> v \in SmallInts
      [] f \in {"playerID", "assignedPlayerID", "itemIndex"} -> v \in PlayerIDs
      [] f = "characterClass" -> v \in 0..3
      [] f = "knownAbilityCount" -> v \in 0..32
      [] f = "conditionCount" -> v \in 0..12
      [] f \in {"direction", "facing"} -> v \in 0..7
      [] f = "entryDirection" -> v \in 0..4
      [] f = "roomID" -> v \in RoomNumbers \cup {NoRoomID}
      [] f = "sourceRoomID" -> v \in RoomNumbers
      [] f = "acceptingPlayers" -> v \in BOOLEAN
      [] f = "equipment" -> v \in [itemID : Bytes, enhancementBonus : SmallInts, weaponProperties : Bytes]
      [] f = "conditions" -> v \in [type : Bytes, value : Ints, roundsRemaining : Ints]
      [] f \in References -> v \in CombatantRefs
      [] f = "combatants" -> v \in Seq([combatant : CombatantRefs, initiative : SmallInts])
      [] OTHER -> TRUE

\* processPacket, processJoinRequest, sendDiscovery, sendJoinRequest, sendPlayerJoinedTo,
\* broadcastPlayerLeft
SessionTells(t, p) ==
    /\ t = "DISCOVERY_BEACON" => p.availability \in Availabilities
    /\ t = "JOIN_ACCEPT" => p.playerCapacity = 4
    /\ t = "JOIN_REJECT" =>
         p.rejection \in {"PROTOCOL_MISMATCH", "SESSION_FULL", "SESSION_UNAVAILABLE"}
    /\ t = "PLAYER_LEFT" => p.departure \in Departures

\* sendTravelInvites, sendCurrentReliableItemInActiveRoom, sendReliableSnapshotChunk, and the
\* acknowledgements of a client.
TransferTells(t, p) ==
    /\ t = "TRAVEL_INVITE" => p.activityType \in Activities /\ p.hostPlayerID = 0
    /\ t = "ACTIVITY_PREPARE" =>
         /\ \/ /\ p.activityType = "FOREST" /\ p.roomID = NoRoomID
               /\ p.graphChunkCount = 0 /\ p.detailChunkCount = 0
            \/ /\ p.activityType = "DUNGEON" /\ p.roomID \in RoomNumbers
               /\ p.graphChunkCount \in 0..MaxChunks /\ p.detailChunkCount \in 1..MaxChunks
         /\ p.worldChunkCount \in 1..MaxChunks
         /\ p.participantMask \subseteq PlayerIDs
         /\ p.roomPlayerMask \subseteq p.participantMask /\ p.roomPlayerMask # {}
    /\ t = "DUNGEON_BEGIN" =>
         /\ p.syncMode = "AUTHORITATIVE_GRAPH_AND_ROOM_STATE"
         /\ p.roomCount \in 7..MaxRooms /\ p.entranceRoom \in 0..(p.roomCount - 1)
    /\ t = "ROOM_TRANSITION" => p.roomID \in RoomNumbers
    /\ t = "SNAPSHOT_CHUNK" =>
         /\ p.totalChunks \in 1..MaxChunks /\ p.chunkIndex \in 0..(p.totalChunks - 1)
         /\ p.payloadLength \in 1..ChunkData
         /\ \/ p.snapshotType \in {"DUNGEON_GRAPH", "FOREST_STATE"} /\ p.roomID = NoRoomID
            \/ p.snapshotType \in {"DUNGEON_ROOM", "DUNGEON_ROOM_DETAIL"} /\ p.roomID \in RoomNumbers
    /\ t = "ACK" =>
         p.packetType \in Reliable /\ p.snapshotType \in Snapshots /\ p.chunkIndex \in 0..(MaxChunks - 1)

\* sendPlayerRoomChangeTo, publishSharedGameplayMessage
PlayTells(t, p) ==
    /\ t = "PLAYER_ROOM_CHANGE" => p.roomID \in RoomNumbers
    /\ t = "SHARED_GAMEPLAY_MESSAGE" =>
         /\ p.category \in Categories
         /\ p.textLength \in 1..(TextSize - 1) /\ p.text.length = p.textLength
    /\ t = "EXPLORATION_ABILITY_COMMAND" => p.abilityID # 0 /\ MayWrite(p.target)

\* startMultiplayerCombatFromCurrentRoom, emitCombatEvent, submitMultiplayerCombatRequest
CombatTells(t, p) ==
    /\ t = "COMBAT_BEGIN" =>
         /\ p.combatantCount \in 1..MaxCombatants
         /\ p.currentTurnIndex \in 0..(p.combatantCount - 1)
         /\ Len(p.combatants) = p.combatantCount
         /\ \A i \in 1..p.combatantCount :
              ValidRef(p.combatants[i].combatant)
    /\ t \in Events =>
         /\ p.eventType \in EventTypes /\ p.actionFlags \subseteq ActionFlags
         /\ p.textLength \in 0..(TextSize - 1) /\ p.text.length = p.textLength
         /\ MayWrite(p.actor) /\ MayWrite(p.target)
    /\ t = "COMBAT_ACTION_REQUEST" =>
         p.action \in ActionTypes /\ ValidRef(p.actor) /\ MayWrite(p.target)
    /\ t = "COMBAT_ACK" => p.packetType \in ReliableCombat

Tells(t, p) ==
    /\ t \in Known /\ p = [f \in Fields(t) |-> p[f]]
    /\ \A f \in DOMAIN p : InRange(f, p[f])
    /\ SessionTells(t, p) /\ TransferTells(t, p) /\ PlayTells(t, p) /\ CombatTells(t, p)

ASSUME MessagesAssumption == \A m \in Messages : m.version \in Builds /\ Tells(m.type, m.of)

-----------------------------------------------------------------------------
(* From one handheld to another *)

Cell(f, p) == [width |-> WidthOf(f, p), value |-> Put(f, p[f])]

\* encodePacket
Frame(m) ==
    [packet |-> m.type, version |-> m.version, size |-> PayloadSize(m.type, m.of),
     cells |-> [i \in DOMAIN Writes(m.type) |-> Cell(Writes(m.type)[i], m.of)]]

\* The field of that name, of a packet read in the order of names.
Field(names, cells, f) == Taken(f, cells[CHOOSE i \in DOMAIN names : names[i] = f].value)

\* The decoder of a packet: PacketReader takes the fields in order and must be finished.
Decoded(t, cells) ==
    LET names == Reads(t)
        p == [f \in ToSet(names) |-> Field(names, cells, f)]
    IN  IF /\ DOMAIN cells = DOMAIN names
           /\ \A i \in DOMAIN names : cells[i].width = WidthOf(names[i], p)
           /\ Readable(t, p)
        THEN [packet |-> t, of |-> p]
        ELSE Refused

PacketInit == said \in Messages /\ air = Nothing /\ told = Nothing

\* sendPacketTo, sendPacketBroadcast
Transmit ==
    /\ air = Nothing
    /\ air' = IF Writable(said.type, said.of) THEN Frame(said) ELSE Refused
    /\ UNCHANGED <<said, told>>

\* decodePacketEnvelope, decodePacket: what another version sends is not read.
Receive ==
    /\ air.packet \in Known /\ told = Nothing
    /\ told' = IF air.size <= MaxPayload /\ air.version = ProtocolVersion
               THEN Decoded(air.packet, air.cells) ELSE Refused
    /\ UNCHANGED <<said, air>>

PacketNext == Transmit \/ Receive
PacketSpec == PacketInit /\ [][PacketNext]_packetVars

-----------------------------------------------------------------------------

\* A combatant of no kind has no place either.
Meant(p) ==
    [f \in DOMAIN p |-> IF f \in References /\ p[f].kind = "NONE" THEN NoCombatant ELSE p[f]]

\* Whatever a handheld tells, a handheld of its version takes: the same packet with the same
\* fields, none of them refused by the sender's writer or the receiver's reader, and a negative
\* number negative still.  A handheld of another version takes nothing.
PeersUnderstand ==
    /\ air # Refused
    /\ told # Nothing =>
         told = IF said.version = ProtocolVersion
                THEN [packet |-> said.type, of |-> Meant(said.of)] ELSE Refused

=============================================================================
