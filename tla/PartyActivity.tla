---------------------------- MODULE PartyActivity ----------------------------
(***************************************************************************)
(* A handheld party goes on an adventure: the host invites, transfers the  *)
(* dungeon to whoever accepts, one acknowledged item at a time, and starts *)
(* when everybody has loaded.  Later it transfers a room again to who      *)
(* enters it, or to who is in it when a spell changes it.                  *)
(*                                                                         *)
(* Frames arrive in the order sent or are lost; the session is modelled in *)
(* MultiplayerSession and stays up here.  A retry is due when nothing is   *)
(* on its way to or from the client; an earlier one is a disturbance, and  *)
(* so is a loss.  The load timeouts, far longer, end only what is stuck.   *)
(* There is one activity, and one player on each client.                   *)
(***************************************************************************)
EXTENDS Integers, Sequences, FiniteSets

CONSTANTS
  Clients,          \* players other than the host
  Rooms,            \* rooms of the dungeon, numbered from 1, the entrance
  RetryLimit,       \* RELIABLE_RETRY_LIMIT = 12
  StartRepeats,     \* START_REPEAT_COUNT = 4
  Plans             \* what a behaviour may contain: doors a client goes through, spells
                    \* that change a room, events of a combat, losses and early retries

ASSUME RoomsAssumption == Rooms \subseteq Nat \ {0} /\ 1 \in Rooms
ASSUME LimitsAssumption == {RetryLimit, StartRepeats} \subseteq Nat

VARIABLES
  phase,            \* of the host; NONE is TOWN before the activity, OVER after
  part,             \* the host's participants
  revision,         \* roomRevisions of the host, 0 where nobody has been
  spells,           \* spells cast in each room: for each, whom the host was then sending the room
  turns,            \* events of a combat, that everybody knows has begun
  eventPending,     \* pendingPlayerMask: who has not acknowledged the event
  eventRoom, eventRetries,
  repeats,          \* startRepeatsRemaining
  cphase,           \* phase of each client; NONE is TOWN before, HOME after
  invitation,       \* no, pending, accepted or declined
  loading,          \* clientRoomLoading
  croom,            \* currentRoom of each client
  cepoch,           \* snapshotEpoch of each client
  known,            \* roomRevisions of each client
  got,              \* what it has received of this epoch
  shown,            \* spells in the snapshot it received
  heard,            \* number of the last combat event it took
  door,             \* number of its last transition request
  pendingDoor,      \* transitionPending: where it wants to go, 0 if nowhere
  up, down,         \* frames on their way to the host and to each client
  plan, disturbances

combatVars == <<turns, eventPending, eventRoom, eventRetries>>
hostVars == <<phase, part, revision, spells, combatVars, repeats>>
areaVars == <<loading, croom, cepoch, known, got, shown, heard, door, pendingDoor>>
clientVars == <<cphase, invitation, areaVars>>
vars == <<hostVars, clientVars, up, down, plan, disturbances>>

\* What is transferred, in order: the dungeon graph, the details and the world
\* of the room are one snapshot here, the characters one item, the spawns one.
Items == <<"PREPARE", "BEGIN", "CHARACTER", "SNAPSHOT", "SPAWN">>
ItemSet == {Items[i] : i \in DOMAIN Items}
Complete == Len(Items) + 1

NoParticipant ==
  [invited |-> FALSE, responded |-> FALSE, in |-> FALSE, ready |-> FALSE, startAcked |-> FALSE,
   roomLoading |-> FALSE, room |-> 1, epoch |-> 0, stage |-> 1, retries |-> 0,
   expect |-> "NONE", door |-> 0]

Frame(type, item, epoch, room, n) ==
  [type |-> type, item |-> item, epoch |-> epoch, room |-> room, n |-> n]
Start(epoch) == Frame("START", "START", epoch, 0, 0)
End == Frame("END", "END", 0, 0, 0)
Ack(item, epoch, room) == Frame("ACK", item, epoch, IF item = "SNAPSHOT" THEN room ELSE 0, 0)

Participants == {p \in Clients : part[p].in}
Quiet(p) == up[p] = <<>> /\ down[p] = <<>>
Hears(queue, type) == queue # <<>> /\ Head(queue).type = type
ToClient(p, frame) == down' = [down EXCEPT ![p] = Append(@, frame)]
ToClients(S, Of(_)) == down' = [p \in Clients |-> IF p \in S THEN Append(down[p], Of(p)) ELSE down[p]]
ToHost(p, frame) == up' = [up EXCEPT ![p] = Append(@, frame)]

Disturb == disturbances < plan.disturbances /\ disturbances' = disturbances + 1 /\ UNCHANGED plan

\* A timer of one exchange is due once nothing of it is on its way.
Due(p) == IF Quiet(p) THEN UNCHANGED <<plan, disturbances>> ELSE Disturb

Init ==
  /\ phase = "TOWN"
  /\ part = [p \in Clients |-> NoParticipant]
  /\ revision = [r \in Rooms |-> 0]
  /\ spells = [r \in Rooms |-> <<>>]
  /\ turns = 0
  /\ eventPending = {}
  /\ eventRoom = 0
  /\ eventRetries = 0
  /\ repeats = 0
  /\ cphase = [p \in Clients |-> "TOWN"]
  /\ invitation = [p \in Clients |-> "no"]
  /\ loading = [p \in Clients |-> FALSE]
  /\ croom = [p \in Clients |-> 0]
  /\ cepoch = [p \in Clients |-> 0]
  /\ known = [p \in Clients |-> [r \in Rooms |-> 0]]
  /\ got = [p \in Clients |-> {}]
  /\ shown = [p \in Clients |-> 0]
  /\ heard = [p \in Clients |-> 0]
  /\ door = [p \in Clients |-> 0]
  /\ pendingDoor = [p \in Clients |-> 0]
  /\ up = [p \in Clients |-> <<>>]
  /\ down = [p \in Clients |-> <<>>]
  /\ plan \in Plans
  /\ disturbances = 0

-----------------------------------------------------------------------------
(* The invitation *)

Invite == Frame("INVITE", "INVITE", 0, 0, 0)

RequestTravel ==
  /\ phase = "TOWN"
  /\ phase' = "WAITING"
  /\ part' = [p \in Clients |-> [part[p] EXCEPT !.invited = TRUE]]
  /\ ToClients(Clients, LAMBDA p : Invite)
  /\ UNCHANGED <<revision, spells, combatVars, repeats, clientVars, up, plan, disturbances>>

SendInvite(p) ==
  /\ phase = "WAITING"
  /\ part[p].invited
  /\ ~part[p].responded
  /\ Due(p)
  /\ ToClient(p, Invite)
  /\ UNCHANGED <<hostVars, clientVars, up>>

ProcessTravelInvite(p) ==
  /\ Hears(down[p], "INVITE")
  /\ down' = [down EXCEPT ![p] = Tail(@)]
  /\ invitation' = [invitation EXCEPT ![p] = IF cphase[p] = "TOWN" /\ @ = "no" THEN "pending" ELSE @]
  /\ UNCHANGED <<hostVars, cphase, areaVars, up, plan, disturbances>>

Respond(p, answer) ==
  /\ cphase[p] = "TOWN"
  /\ invitation[p] = "pending"
  /\ invitation' = [invitation EXCEPT ![p] = answer]
  /\ ToHost(p, Frame("RESPONSE", answer, 0, 0, 0))
  /\ UNCHANGED <<hostVars, cphase, areaVars, down, plan, disturbances>>

SendStoredTravelResponse(p) ==
  /\ cphase[p] = "TOWN"
  /\ invitation[p] \in {"accepted", "declined"}
  /\ Due(p)
  /\ ToHost(p, Frame("RESPONSE", invitation[p], 0, 0, 0))
  /\ UNCHANGED <<hostVars, clientVars, down>>

Accepts(response) == response.item = "accepted"

\* processTravelResponse; too late once the host is loading
ProcessTravelResponse(p) ==
  /\ Hears(up[p], "RESPONSE")
  /\ up' = [up EXCEPT ![p] = Tail(@)]
  /\ part' = IF phase = "WAITING" /\ part[p].invited
               THEN [part EXCEPT ![p].responded = TRUE, ![p].in = Accepts(Head(up[p]))]
               ELSE part
  /\ UNCHANGED <<phase, revision, spells, combatVars, repeats, clientVars, down, plan, disturbances>>

\* beginHostLoading, when everybody answered or INVITE_TIMEOUT_MS has passed
BeginHostLoading ==
  /\ phase = "WAITING"
  /\ phase' = "LOADING"
  /\ revision' = [revision EXCEPT ![1] = 1]
  /\ part' = [p \in Clients |-> [part[p] EXCEPT !.responded = TRUE, !.ready = FALSE, !.room = 1,
                                   !.epoch = 1, !.stage = 1, !.retries = 0, !.expect = "NONE"]]
  /\ UNCHANGED <<spells, combatVars, repeats, clientVars, up, down, plan, disturbances>>

-----------------------------------------------------------------------------
(* The transfer, at the host *)

\* clientLoadComplete
LoadItems == ItemSet \ {"PREPARE"}
Loaded(p) == cphase[p] \in {"LOADING", "ACTIVE"} /\ got[p] = LoadItems

RoomLoading == \E p \in Participants : part[p].roomLoading
Transferring == phase = "LOADING" \/ (phase = "ACTIVE" /\ RoomLoading)

\* hasReliablePacketInFlight
InFlight == \E q \in Participants : part[q].expect # "NONE"

\* sendCurrentReliableItem builds the item from what is there now.
Item(p) ==
  LET name == Items[part[p].stage]
  IN  Frame(name, name, part[p].epoch, part[p].room, IF name = "SNAPSHOT" THEN Len(spells[part[p].room]) ELSE 0)

SendItem(p) ==
  /\ Transferring
  /\ part[p].in
  /\ ~part[p].ready
  /\ part[p].stage < Complete
  /\ ~InFlight
  /\ part[p].expect = "NONE"
  /\ part' = [part EXCEPT ![p].expect = Items[part[p].stage]]
  /\ ToClient(p, Item(p))
  /\ UNCHANGED <<phase, revision, spells, combatVars, repeats, clientVars, up, plan, disturbances>>

\* Mutant of AckMatches: any acknowledgement of the epoch.
AckMatchesEpoch(p, ack) == ack.epoch = part[p].epoch

\* activityAcksMatch
AckMatches(p, ack) ==
  /\ ack.item = part[p].expect
  /\ ack.epoch = part[p].epoch
  /\ ack.item = "SNAPSHOT" => ack.room = part[p].room

\* processActivityAck and advanceReliableTransfer
Acknowledged(p, ack) ==
  CASE ~part[p].in -> part[p]
    [] part[p].in /\ phase = "ACTIVE" /\ ack.item = "START" /\ ack.epoch = part[p].epoch ->
         IF AckMatches(p, ack)
           THEN [part[p] EXCEPT !.startAcked = TRUE, !.expect = "NONE", !.retries = 0, !.roomLoading = FALSE]
           ELSE [part[p] EXCEPT !.startAcked = TRUE]
    [] part[p].in /\ ack.item # "START" /\ AckMatches(p, ack)
       /\ (phase = "LOADING" \/ (phase = "ACTIVE" /\ part[p].roomLoading)) ->
         [part[p] EXCEPT !.stage = @ + 1, !.expect = "NONE", !.retries = 0]
    [] OTHER -> part[p]

ProcessActivityAck(p) ==
  /\ Hears(up[p], "ACK")
  /\ up' = [up EXCEPT ![p] = Tail(@)]
  /\ part' = [part EXCEPT ![p] = Acknowledged(p, Head(up[p]))]
  /\ UNCHANGED <<phase, revision, spells, combatVars, repeats, clientVars, down, plan, disturbances>>

\* failParticipantLoad
Fail(p) ==
  /\ part' = [part EXCEPT ![p].in = FALSE, ![p].expect = "NONE"]
  /\ ToClient(p, End)

Retry(p) ==
  /\ Transferring
  /\ part[p].in
  /\ part[p].expect # "NONE"
  /\ Due(p)
  /\ \/ /\ part[p].retries >= RetryLimit
        /\ Fail(p)
     \/ /\ part[p].retries < RetryLimit
        /\ \/ /\ part[p].expect = "START"
              /\ part' = [part EXCEPT ![p].retries = @ + 1]
              /\ ToClient(p, Start(part[p].epoch))
           \/ /\ part[p].expect # "START"
              /\ part' = [part EXCEPT ![p].retries = @ + 1, ![p].expect = "NONE"]
              /\ UNCHANGED down
  /\ UNCHANGED <<phase, revision, spells, combatVars, repeats, clientVars, up>>

\* processActivityReady
ReadyCounts(p, ready) ==
  /\ phase \in {"LOADING", "ACTIVE"}
  /\ part[p].in
  /\ ready.epoch = part[p].epoch
  /\ part[p].stage = Complete

ProcessActivityReady(p) ==
  LET ready == Head(up[p])
      answered == ReadyCounts(p, ready) /\ ready.item = "ROOM_READY"
  IN  /\ Hears(up[p], "READY")
      /\ up' = [up EXCEPT ![p] = Tail(@)]
      /\ part' =
           CASE answered -> [part EXCEPT ![p].ready = TRUE, ![p].startAcked = FALSE,
                                         ![p].retries = 0, ![p].expect = "START"]
             [] ReadyCounts(p, ready) /\ ~answered -> [part EXCEPT ![p].ready = TRUE]
             [] OTHER -> part
      /\ IF answered THEN ToClient(p, Start(part[p].epoch)) ELSE UNCHANGED down
      /\ UNCHANGED <<phase, revision, spells, combatVars, repeats, clientVars, plan, disturbances>>

\* Mutant of AllParticipantsReady: one is enough.
OneReady == \E p \in Participants : part[p].ready

AllParticipantsReady == \A p \in Participants : part[p].ready

\* startHostActivity
StartHostActivity ==
  /\ phase = "LOADING"
  /\ AllParticipantsReady
  /\ phase' = "ACTIVE"
  /\ repeats' = StartRepeats
  /\ part' = [p \in Clients |-> [part[p] EXCEPT !.startAcked = FALSE]]
  /\ ToClients(Participants, LAMBDA p : Start(1))
  /\ UNCHANGED <<revision, spells, combatVars, clientVars, up, plan, disturbances>>

\* broadcastActivityStart, again every START_REPEAT_MS
RepeatStart ==
  /\ phase = "ACTIVE"
  /\ repeats > 0
  /\ \A p \in Clients : Quiet(p)
  /\ repeats' = repeats - 1
  /\ ToClients({p \in Participants : ~part[p].startAcked}, LAMBDA p : Start(1))
  /\ UNCHANGED <<phase, part, revision, spells, combatVars, clientVars, up, plan, disturbances>>

\* What the client keeps repeating is still to some effect.
SaysReady(p) ==
  /\ cphase[p] = "LOADING"
  /\ Loaded(p)
  /\ cepoch[p] = part[p].epoch
  /\ ~part[p].ready \/ loading[p]

\* ACTIVITY_LOAD_TIMEOUT_MS of a transfer that got nowhere
HostLoadTimeout(p) ==
  /\ part[p].in
  /\ \/ phase = "LOADING" /\ ~part[p].ready
     \/ phase = "ACTIVE" /\ part[p].roomLoading
  /\ part[p].expect = "NONE"
  /\ part[p].stage = Complete
  /\ Quiet(p)
  /\ ~SaysReady(p)
  /\ Fail(p)
  /\ UNCHANGED <<phase, revision, spells, combatVars, repeats, clientVars, up, plan, disturbances>>

-----------------------------------------------------------------------------
(* The transfer, at the client *)

Takes(p, type) == Hears(down[p], type) /\ down' = [down EXCEPT ![p] = Tail(@)]
Replies(p, frames) == up' = [up EXCEPT ![p] = @ \o frames]

\* controlAck names the epoch of the client
ClientAck(p, item) == <<Ack(item, cepoch[p], croom[p])>>

\* sendActivityReady
Ready(p) == <<Frame("READY", IF loading[p] THEN "ROOM_READY" ELSE "ACTIVITY_READY", cepoch[p], 0, 0)>>

\* finishClientLoading, of which the last item received makes the area complete
Finish(p, item) == IF got[p] # LoadItems /\ got[p] \cup {item} = LoadItems THEN Ready(p) ELSE <<>>

Forgotten(p) ==
  /\ cphase' = [cphase EXCEPT ![p] = "HOME"]
  /\ invitation' = [invitation EXCEPT ![p] = "no"]
  /\ loading' = [loading EXCEPT ![p] = FALSE]
  /\ croom' = [croom EXCEPT ![p] = 0]
  /\ cepoch' = [cepoch EXCEPT ![p] = 0]
  /\ known' = [known EXCEPT ![p] = [r \in Rooms |-> 0]]
  /\ got' = [got EXCEPT ![p] = {}]
  /\ shown' = [shown EXCEPT ![p] = 0]
  /\ heard' = [heard EXCEPT ![p] = 0]
  /\ door' = [door EXCEPT ![p] = 0]
  /\ pendingDoor' = [pendingDoor EXCEPT ![p] = 0]

\* An older revision of the room it is in is refused without a word.
Refused(p, prepare) ==
  /\ known[p][prepare.room] # 0
  /\ prepare.room = croom[p]
  /\ prepare.epoch < known[p][prepare.room]

NewEpoch(p, prepare) == croom[p] # prepare.room \/ cepoch[p] # prepare.epoch

ProcessActivityPrepare(p) ==
  LET prepare == Head(down[p])
      newEpoch == NewEpoch(p, prepare)
      acked == <<Ack("PREPARE", prepare.epoch, 0)>>
  IN  /\ Takes(p, "PREPARE")
      /\ \/ /\ invitation[p] = "no" \/ Refused(p, prepare)
            /\ UNCHANGED <<clientVars, up>>
         \/ /\ invitation[p] # "no"
            /\ ~Refused(p, prepare)
            /\ cphase[p] = "ACTIVE"
            /\ ~newEpoch
            /\ Replies(p, acked)
            /\ UNCHANGED clientVars
         \/ /\ invitation[p] # "no"
            /\ ~Refused(p, prepare)
            /\ cphase[p] # "ACTIVE" \/ newEpoch
            /\ cphase' = [cphase EXCEPT ![p] = "LOADING"]
            /\ loading' = [loading EXCEPT ![p] = @ \/ cphase[p] = "ACTIVE"]
            /\ croom' = [croom EXCEPT ![p] = prepare.room]
            /\ cepoch' = [cepoch EXCEPT ![p] = prepare.epoch]
            /\ known' = [known EXCEPT ![p][prepare.room] = prepare.epoch]
            /\ got' = [got EXCEPT ![p] = IF newEpoch THEN {} ELSE @]
            /\ pendingDoor' = [pendingDoor EXCEPT ![p] = 0]
            /\ Replies(p, acked)
            /\ UNCHANGED <<invitation, shown, heard, door>>
      /\ UNCHANGED <<hostVars, plan, disturbances>>

\* Whether the client takes an item of the area it has prepared
ItemFits(p, frame) ==
  \/ /\ frame.item = "BEGIN"
     /\ cphase[p] = "LOADING"
     /\ frame.epoch = cepoch[p]
     /\ frame.room = croom[p]
  \/ frame.item = "CHARACTER" /\ cphase[p] \in {"LOADING", "ACTIVE"}
  \/ frame.item = "SPAWN" /\ cphase[p] \in {"LOADING", "ACTIVE"} /\ frame.room = croom[p]
  \/ /\ frame.item = "SNAPSHOT"
     /\ cphase[p] = "LOADING"
     /\ frame.epoch = cepoch[p]
     /\ frame.room = croom[p]
     /\ "SNAPSHOT" \notin got[p] \/ Loaded(p) \/ frame.n = shown[p]

\* processDungeonBegin, processRoomTransition, processCharacterState,
\* processSnapshotChunk and processPlayerSpawn
ProcessItem(p, item) ==
  LET frame == Head(down[p])
  IN  /\ Takes(p, item)
      /\ IF ItemFits(p, frame)
           THEN /\ got' = [got EXCEPT ![p] = @ \cup {item}]
                /\ shown' = [shown EXCEPT ![p] = IF item = "SNAPSHOT" /\ item \notin got[p] THEN frame.n ELSE @]
                /\ Replies(p, IF item = "SPAWN" THEN ClientAck(p, item) \o Finish(p, item)
                                                ELSE Finish(p, item) \o ClientAck(p, item))
           ELSE UNCHANGED <<got, shown, up>>
      /\ UNCHANGED <<hostVars, cphase, invitation, loading, croom, cepoch, known, heard, door, pendingDoor, plan, disturbances>>

\* The client repeats that it is ready.
RepeatReady(p) ==
  /\ cphase[p] = "LOADING"
  /\ Loaded(p)
  /\ Due(p)
  /\ Replies(p, Ready(p))
  /\ UNCHANGED <<hostVars, clientVars, down>>

StartsNow(p, start) == cphase[p] = "LOADING" /\ Loaded(p) /\ start.epoch = cepoch[p]

ProcessActivityStart(p) ==
  LET start == Head(down[p])
      starts == StartsNow(p, start)
  IN  /\ Takes(p, "START")
      /\ cphase' = [cphase EXCEPT ![p] = IF starts THEN "ACTIVE" ELSE @]
      /\ loading' = [loading EXCEPT ![p] = @ /\ ~starts]
      /\ IF starts \/ (cphase[p] = "ACTIVE" /\ start.epoch = cepoch[p])
           THEN Replies(p, ClientAck(p, "START"))
           ELSE UNCHANGED up
      /\ UNCHANGED <<hostVars, invitation, croom, cepoch, known, got, shown, heard, door, pendingDoor, plan, disturbances>>

\* ACTIVITY_LOAD_TIMEOUT_MS + 5000 of a client nobody will start
ClientTimeout(p) ==
  /\ cphase[p] = "LOADING"
  /\ Quiet(p)
  /\ \/ phase = "OVER"
     \/ ~part[p].in
     \/ phase = "ACTIVE" /\ ~part[p].roomLoading /\ ~loading[p] /\ repeats = 0
  /\ Forgotten(p)
  /\ UNCHANGED <<hostVars, up, down, plan, disturbances>>

-----------------------------------------------------------------------------
(* Leaving *)

HostLeaves ==
  /\ phase = "ACTIVE"
  /\ phase' = "OVER"
  /\ part' = [p \in Clients |-> NoParticipant]
  /\ eventPending' = {}
  /\ repeats' = 0
  /\ ToClients(Participants, LAMBDA p : End)
  /\ UNCHANGED <<revision, spells, turns, eventRoom, eventRetries, clientVars, up, plan, disturbances>>

ProcessActivityEnd(p) ==
  /\ Takes(p, "END")
  /\ IF invitation[p] = "no" THEN UNCHANGED clientVars ELSE Forgotten(p)
  /\ UNCHANGED <<hostVars, up, plan, disturbances>>

\* leaveMultiplayerActivity; while it loads, the device takes no buttons
ClientLeaves(p) ==
  /\ cphase[p] = "ACTIVE"
  /\ ToHost(p, Frame("LEAVE", "LEAVE", 0, 0, 0))
  /\ Forgotten(p)
  /\ UNCHANGED <<hostVars, down, plan, disturbances>>

ProcessActivityLeave(p) ==
  /\ Hears(up[p], "LEAVE")
  /\ up' = [up EXCEPT ![p] = Tail(@)]
  /\ part' = [part EXCEPT ![p].in = FALSE]
  /\ UNCHANGED <<phase, revision, spells, combatVars, repeats, clientVars, down, plan, disturbances>>

-----------------------------------------------------------------------------
(* Doors *)

Request(p) == Frame("REQUEST", "REQUEST", pendingDoor'[p], croom[p], door'[p])

\* handleMultiplayerLocalMove towards a door
UseDoor(p, destination) ==
  /\ cphase[p] = "ACTIVE"
  /\ pendingDoor[p] = 0
  /\ destination # croom[p]
  /\ door[p] < plan.doors
  /\ door' = [door EXCEPT ![p] = @ + 1]
  /\ pendingDoor' = [pendingDoor EXCEPT ![p] = destination]
  /\ ToHost(p, Request(p))
  /\ UNCHANGED <<hostVars, cphase, invitation, loading, croom, cepoch, known, got, shown, heard, down, plan, disturbances>>

\* sendPendingRoomTransitionRequest, of updateMultiplayerActivity
RepeatRequest(p) ==
  /\ cphase[p] = "ACTIVE"
  /\ pendingDoor[p] # 0
  /\ Due(p)
  /\ UNCHANGED <<hostVars, clientVars, down>>
  /\ ToHost(p, Request(p))

RequestCounts(p, request) ==
  /\ phase = "ACTIVE"
  /\ part[p].in
  /\ part[p].room = request.room
  /\ ~part[p].roomLoading
  /\ request.n > part[p].door

\* processRoomTransitionRequest where the door is, and
\* beginIndependentRoomTransition
ProcessRoomTransitionRequest(p) ==
  LET request == Head(up[p])
      destination == request.epoch
      counts == RequestCounts(p, request)
  IN  /\ Hears(up[p], "REQUEST")
      /\ up' = [up EXCEPT ![p] = Tail(@)]
      /\ revision' = IF counts /\ revision[destination] = 0
                       THEN [revision EXCEPT ![destination] = 1] ELSE revision
      /\ part' = IF counts
                   THEN [part EXCEPT ![p] = [@ EXCEPT !.door = request.n, !.room = destination,
                           !.roomLoading = TRUE, !.ready = FALSE, !.epoch = revision'[destination],
                           !.stage = 1, !.retries = 0, !.expect = "NONE"]]
                   ELSE part
      /\ UNCHANGED <<phase, spells, combatVars, repeats, clientVars, down, plan, disturbances>>

\* processRoomTransitionRequest where the host, that missed a move of the
\* player, finds no door: it answers with the position.
RefuseDoor(p) ==
  LET request == Head(up[p])
  IN  /\ Hears(up[p], "REQUEST")
      /\ RequestCounts(p, request)
      /\ Disturb
      /\ up' = [up EXCEPT ![p] = Tail(@)]
      /\ part' = [part EXCEPT ![p].door = request.n]
      /\ UNCHANGED <<phase, revision, spells, combatVars, repeats, clientVars, down>>

-----------------------------------------------------------------------------
(* What changes a room *)

\* Mutant of Refreshed: only who is known to have started.
RefreshedStarted(p, r) == part[p].in /\ part[p].room = r /\ part[p].startAcked

\* Who a refresh of room r reaches
Refreshed(p, r) == part[p].in /\ part[p].room = r /\ ~part[p].roomLoading

\* Whom the host is sending room r already: a refresh leaves them out
OnTheWayIn(r) == {p \in Clients : part[p].in /\ part[p].room = r /\ part[p].roomLoading}

\* scheduleRoomRefreshForClients
Refresh(r) ==
  part' = [p \in Clients |->
    IF Refreshed(p, r)
      THEN [part[p] EXCEPT !.roomLoading = TRUE, !.ready = FALSE, !.startAcked = FALSE,
              !.epoch = revision'[r], !.stage = 1, !.retries = 0, !.expect = "NONE"]
      ELSE part[p]]

Event == Frame("EVENT", "EVENT", turns', eventRoom', revision'[eventRoom'])

\* emitCombatEvent and queueReliableCombatPacket, one event at a time
EmitEvent(r) ==
  /\ turns < plan.turns
  /\ eventPending = {}
  /\ turns' = turns + 1
  /\ eventRoom' = r
  /\ eventPending' = Participants
  /\ eventRetries' = 0
  /\ ToClients(Participants, LAMBDA p : Event)

\* An ability of a player in room r, resolveAuthoritativeExplorationAbility
\* outside a combat and resolveMultiplayerAbility in one
CastAbility(r) ==
  /\ phase = "ACTIVE"
  /\ revision[r] # 0
  /\ Len(spells[r]) < plan.spells
  /\ spells' = [spells EXCEPT ![r] = Append(@, OnTheWayIn(r))]
  /\ revision' = [revision EXCEPT ![r] = @ + 1]
  /\ Refresh(r)
  /\ \/ turns = 0 /\ UNCHANGED <<combatVars, down>>
     \/ EmitEvent(r)
  /\ UNCHANGED <<phase, repeats, clientVars, up, plan, disturbances>>

\* Any other action of a combat: saveCombatRoomAndRestoreHost and its event
CombatTurn(r) ==
  /\ phase = "ACTIVE"
  /\ revision[r] # 0
  /\ revision' = [revision EXCEPT ![r] = @ + 1]
  /\ EmitEvent(r)
  /\ UNCHANGED <<phase, part, spells, repeats, clientVars, up, plan, disturbances>>

\* updateMultiplayerCombat: again to who has not acknowledged it, or no more
RetryEvent ==
  /\ phase = "ACTIVE"
  /\ eventPending # {}
  /\ \A p \in eventPending : Quiet(p)
  /\ \/ /\ eventRetries < RetryLimit
        /\ eventRetries' = eventRetries + 1
        /\ down' = [p \in Clients |-> IF p \in eventPending
             THEN Append(down[p], Frame("EVENT", "EVENT", turns, eventRoom, revision[eventRoom])) ELSE down[p]]
        /\ UNCHANGED eventPending
     \/ /\ eventRetries = RetryLimit
        /\ eventPending' = {}
        /\ UNCHANGED <<eventRetries, down>>
  /\ UNCHANGED <<phase, part, revision, spells, turns, eventRoom, repeats, clientVars, up, plan, disturbances>>

\* processCombatEvent: its room revision is taken at once, the room is not
ProcessCombatEvent(p) ==
  LET event == Head(down[p])
      news == event.epoch > heard[p]
      inside == cphase[p] \in {"LOADING", "ACTIVE"}
  IN  /\ Takes(p, "EVENT")
      /\ heard' = [heard EXCEPT ![p] = IF inside /\ news THEN event.epoch ELSE @]
      /\ known' = IF inside /\ news THEN [known EXCEPT ![p][event.room] = event.n] ELSE known
      /\ IF inside THEN Replies(p, <<Frame("HEARD", "EVENT", event.epoch, 0, 0)>>) ELSE UNCHANGED up
      /\ UNCHANGED <<hostVars, cphase, invitation, loading, croom, cepoch, got, shown, door, pendingDoor, plan, disturbances>>

\* processCombatAck
ProcessCombatAck(p) ==
  LET ack == Head(up[p])
  IN  /\ Hears(up[p], "HEARD")
      /\ up' = [up EXCEPT ![p] = Tail(@)]
      /\ eventPending' = IF phase = "ACTIVE" /\ part[p].in /\ ack.epoch = turns
                           THEN eventPending \ {p} ELSE eventPending
      /\ UNCHANGED <<phase, part, revision, spells, turns, eventRoom, eventRetries, repeats, clientVars, down, plan, disturbances>>

-----------------------------------------------------------------------------

Lose(p) ==
  /\ Disturb
  /\ \/ up[p] # <<>> /\ up' = [up EXCEPT ![p] = Tail(@)] /\ UNCHANGED down
     \/ down[p] # <<>> /\ down' = [down EXCEPT ![p] = Tail(@)] /\ UNCHANGED up
  /\ UNCHANGED <<hostVars, clientVars>>

Invitation(p) ==
  \/ SendInvite(p)
  \/ ProcessTravelInvite(p)
  \/ \E answer \in {"accepted", "declined"} : Respond(p, answer)
  \/ SendStoredTravelResponse(p)
  \/ ProcessTravelResponse(p)

HostTransfer(p) ==
  \/ SendItem(p)
  \/ ProcessActivityAck(p)
  \/ Retry(p)
  \/ ProcessActivityReady(p)
  \/ HostLoadTimeout(p)

ClientTransfer(p) ==
  \/ ProcessActivityPrepare(p)
  \/ \E item \in LoadItems : ProcessItem(p, item)
  \/ RepeatReady(p)
  \/ ProcessActivityStart(p)
  \/ ClientTimeout(p)

Adventure(p) ==
  \/ ProcessActivityEnd(p)
  \/ ClientLeaves(p)
  \/ ProcessActivityLeave(p)
  \/ \E destination \in Rooms : UseDoor(p, destination)
  \/ RepeatRequest(p)
  \/ ProcessRoomTransitionRequest(p)
  \/ RefuseDoor(p)
  \/ ProcessCombatEvent(p)
  \/ ProcessCombatAck(p)

Next ==
  \/ RequestTravel
  \/ BeginHostLoading
  \/ StartHostActivity
  \/ RepeatStart
  \/ HostLeaves
  \/ \E r \in Rooms : CastAbility(r) \/ CombatTurn(r)
  \/ RetryEvent
  \/ \E p \in Clients : Invitation(p) \/ HostTransfer(p) \/ ClientTransfer(p) \/ Adventure(p) \/ Lose(p)

Spec == Init /\ [][Next]_vars

-----------------------------------------------------------------------------
(* Properties *)

Present(p) == part[p].in /\ cphase[p] \in {"LOADING", "ACTIVE"}

\* Nobody is taken along who did not accept: a late or lost answer, a repeated
\* invitation or its timeout never puts a device that declined or said nothing
\* into the activity.
OnlyWhoAccepted ==
  \A p \in Clients : cphase[p] \in {"LOADING", "ACTIVE"} => invitation[p] = "accepted"

\* Whom the host takes for ready has received all of the area, in the room and
\* of the epoch the host means, whatever was retried, repeated or refreshed.
ReadyMeansLoaded ==
  \A p \in Clients : Present(p) /\ part[p].ready =>
    Loaded(p) /\ croom[p] = part[p].room /\ cepoch[p] = part[p].epoch

\* Once one client plays, every participant has the area complete or is being
\* given one anew: nobody plays while another is still on the way in.
NobodyPlaysAlone ==
  (\E p \in Clients : cphase[p] = "ACTIVE") =>
    \A q \in Clients : Present(q) => Loaded(q) \/ part[q].roomLoading \/ loading[q]

\* The party goes together: nobody who did not accept is taken along, and nobody
\* who did plays while another is still on the way in.
GoTogether == OnlyWhoAccepted /\ NobodyPlaysAlone

\* When nothing is on its way and the host transfers nothing to a client that
\* plays, both mean the same revision of the same room.
RoomsAgree ==
  \A p \in Clients :
    Present(p) /\ cphase[p] = "ACTIVE" /\ Quiet(p) /\ ~part[p].roomLoading =>
      croom[p] = part[p].room /\ cepoch[p] = part[p].epoch

\* Host and client mean the same room: when the client says it is ready, and
\* whenever nothing more is on its way.
SameRoom == ReadyMeansLoaded /\ RoomsAgree

\* A client that has not left is never removed by the host: with no more losses
\* than retries every transfer succeeds.
NobodyIsRemoved ==
  [][phase' = "OVER" \/ \A p \in Clients : part[p].in /\ ~part'[p].in => cphase[p] = "HOME"]_vars

\* A client that plays, and that the host is not transferring to, shows every
\* ability cast in its room, whether it was there or came later.  One is left out,
\* the one cast while the host was already sending that client that room: its
\* refresh skips whom it finds loading, and nothing makes up for it until the next
\* ability or door.  That next one shows both.
SpellsAreSeen ==
  \A p \in Clients :
    Present(p) /\ cphase[p] = "ACTIVE" /\ Quiet(p) /\ ~part[p].roomLoading =>
      \A i \in DOMAIN spells[croom[p]] : p \notin spells[croom[p]][i] => i <= shown[p]

\* The comment of docs/multiplayer-stage2.md on pacing: one synchronization
\* frame is awaited at a time, across the activity.
OneInFlight == \A p, q \in Participants : part[p].expect # "NONE" /\ part[q].expect # "NONE" => p = q

\* When the host has ended the activity and nothing is on its way, no client
\* still plays it.
EndReachesAll ==
  phase = "OVER" /\ (\A p \in Clients : Quiet(p)) => \A p \in Clients : cphase[p] # "ACTIVE"

\* A client that returned to Town is no participant for long: not when nothing
\* is on its way.
LeaversAreOut == \A p \in Clients : part[p].in /\ cphase[p] = "HOME" => ~Quiet(p)

\* A door the client waits at is one the host may still answer for.
DoorIsAnswered ==
  \A p \in Clients :
    Present(p) /\ cphase[p] = "ACTIVE" /\ pendingDoor[p] # 0 /\ Quiet(p) =>
      door[p] > part[p].door \/ part[p].roomLoading

=============================================================================
