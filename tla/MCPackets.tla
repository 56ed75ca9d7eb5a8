----------------------------- MODULE MCPackets -----------------------------
(***************************************************************************)
(* The packets of the instance of MCParts: of every type those that differ *)
(* from an ordinary one in at most two fields, each at the ends of its     *)
(* range and around them, told by a handheld of the receiver's version and *)
(* by an older one.                                                        *)
(***************************************************************************)
EXTENDS Packets

Hero == [kind |-> "PLAYER", playerID |-> 3, roomID |-> 11, entityID |-> 0]
Ogre == [kind |-> "MONSTER", playerID |-> Nobody, roomID |-> 0, entityID |-> 255]
\* A MultiplayerCombatantRef that was declared and never set.
Unset == [kind |-> "NONE", playerID |-> Nobody, roomID |-> 0, entityID |-> 0]

TextOf(n) == [length |-> n]
Order(n, low) ==
    [i \in 1..n |-> [combatant |-> IF i = 1 THEN Hero ELSE Ogre, initiative |-> IF i = n THEN low ELSE 20]]

\* The values a field may have, an ordinary one of those first.
Usual(f) ==
    CASE f \in Longs -> 1
      [] f = "activityType" -> "DUNGEON"
      [] f = "availability" -> "AVAILABLE"
      [] f = "rejection" -> "SESSION_FULL"
      [] f = "departure" -> "LEFT_PARTY"
      [] f = "category" -> "GAMEPLAY"
      [] f = "action" -> "MOVE"
      [] f = "eventType" -> "STATE"
      [] f = "packetType" -> "SNAPSHOT_CHUNK"
      [] f = "snapshotType" -> "DUNGEON_ROOM"
      [] f = "syncMode" -> "AUTHORITATIVE_GRAPH_AND_ROOM_STATE"
      [] f \in {"displayName", "abilityScores", "knownAbilities", "data"} -> "bytes"
      [] f \in {"participantMask", "roomPlayerMask"} -> {0, 2}
      [] f = "actionFlags" -> {}
      [] f = "acceptingPlayers" -> TRUE
      [] f = "equipment" -> [itemID |-> 7, enhancementBonus |-> 1, weaponProperties |-> 0]
      [] f = "conditions" -> [type |-> 3, value |-> 2, roundsRemaining |-> 4]
      [] f \in References -> Hero
      [] f = "combatants" -> Order(2, 3)
      [] f = "text" -> TextOf(9)
      [] f = "textLength" -> 9
      [] f = "hostPlayerID" -> 0
      [] f = "playerCapacity" -> 4
      [] f = "roomCount" -> 7
      [] f \in {"totalChunks", "combatantCount"} -> 2
      [] OTHER -> 1

Edges(f) ==
    CASE f \in SignedWords -> {-32768, -1, 0, 32767}
      [] f \in SignedBytes -> {-128, -1, 0, 127}
      [] f \in Words -> {0, 65535}
      [] f = "activityType" -> Activities
      [] f = "availability" -> Availabilities
      [] f = "rejection" -> Rejections
      [] f = "departure" -> Departures
      [] f = "category" -> Categories
      [] f = "action" -> ActionTypes
      [] f = "eventType" -> EventTypes
      [] f = "packetType" -> Reliable \cup ReliableCombat
      [] f = "snapshotType" -> Snapshots
      [] f \in {"participantMask", "roomPlayerMask"} -> {{}, {0}, {3}, PlayerIDs}
      [] f = "actionFlags" -> SUBSET ActionFlags
      [] f = "acceptingPlayers" -> BOOLEAN
      [] f = "equipment" ->
           {[itemID |-> 7, enhancementBonus |-> b, weaponProperties |-> 0] : b \in {-128, -1, 127}}
      [] f = "conditions" ->
           {[type |-> 3, value |-> v, roundsRemaining |-> r] : v \in {-32768, 5}, r \in {-1, 32767}}
      [] f \in References -> {Ogre, Unset, NoCombatant}
      [] f = "combatants" -> {Order(n, low) : n \in {1, 2, 16}, low \in {-128, -1, 127}}
      [] f = "text" -> {TextOf(n) : n \in {0, 1, 95, 96}}
      [] f = "textLength" -> {0, 1, 95, 96}
      [] f = "payloadLength" -> {0, 200, 201}
      [] f = "combatantCount" -> {0, 1, 16, 17}
      [] f \in {"displayName", "abilityScores", "knownAbilities", "data", "syncMode"} -> {}
      [] f \in Longs -> {0, 2147483647}
      [] OTHER -> {0, 1, 3, 4, 6, 7, 8, 11, 12, 31, 32, 33, 128, 200, 255}

Ordinary(t) == [f \in Fields(t) |->
    IF t \in ReliableCombat \cup {"COMBAT_ACK"} /\ f = "packetType" THEN "COMBAT_TURN" ELSE Usual(f)]

\* What is prepared in the forest has no rooms.
Forest == [Ordinary("ACTIVITY_PREPARE") EXCEPT !.activityType = "FOREST", !.roomID = NoRoomID,
                                               !.graphChunkCount = 0, !.detailChunkCount = 0]

Near(p) ==
    LET Varied(q) == UNION {{[q EXCEPT ![f] = v] : v \in Edges(f)} : f \in DOMAIN q}
        Changed == {f \in DOMAIN p : Cardinality(Edges(f)) < 12}
    IN  {p} \cup Varied(p)
        \cup UNION {{[p EXCEPT ![f] = v, ![g] = w] : v \in Edges(f), w \in Edges(g)} : f, g \in Changed}

MCBuilds == {5, 6}
MCMessages ==
    LET Bases(t) == {Ordinary(t)} \cup (IF t = "ACTIVITY_PREPARE" THEN {Forest} ELSE {})
        Told(t) == {p \in UNION {Near(b) : b \in Bases(t)} : Tells(t, p)}
    IN  UNION {{[version |-> b, type |-> t, of |-> p] : b \in MCBuilds, p \in Told(t)} : t \in Known}

\* The fields written add up to the size the header of network_protocol.h gives each packet.
ASSUME SizesAdd ==
    \A m \in MCMessages :
        PayloadSize(m.type, m.of)
            = FoldLeft(LAMBDA n, f : n + WidthOf(f, m.of), 0, Writes(m.type))
=============================================================================
