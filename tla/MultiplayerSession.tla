-------------------------- MODULE MultiplayerSession --------------------------
(***************************************************************************)
(* Membership of a handheld party over ESP-NOW: one host, Player 0, and    *)
(* the devices around it.  The host seats whoever asks and tells the other *)
(* members; each client keeps a roster of its own from what it is told.    *)
(* Announcements are sent once; only heartbeats, silence timeouts and the  *)
(* join retry repair what is lost.                                         *)
(*                                                                         *)
(* Frames to a device pass through its receive queue in the order sent;    *)
(* any frame may be lost, and a full queue drops what arrives.  Nothing is *)
(* duplicated or reordered, so the sequence check never refuses a frame    *)
(* and is left out.  One tick is a heartbeat interval; a timeout fires in  *)
(* the update in which it is due.                                          *)
(***************************************************************************)
EXTENDS Integers, Sequences, FiniteSets, FiniteSetsExt

CONSTANTS
  Devices,           \* devices that may join
  NoDevice,          \* an empty seat
  HostDevice,        \* the device of the host
  MaxPlayers,        \* MAX_MULTIPLAYER_PLAYERS = 4
  ConnectionTimeout, \* CONNECTION_TIMEOUT_MS in heartbeat intervals (3.5)
  JoinTimeout,       \* JOIN_TIMEOUT_MS in heartbeat intervals (2.5)
  QueueLength,       \* the receive queue holds six frames
  MaxSessions,       \* sessions hosted in one behaviour
  MaxDisturbances    \* lost or late frames and inputs of players, together

ASSUME PlayersAssumption == MaxPlayers \in Nat \ {0, 1}
ASSUME DevicesAssumption == NoDevice \notin Devices \cup {HostDevice} /\ HostDevice \notin Devices
ASSUME TimeoutAssumption == /\ ConnectionTimeout \in Nat \ {0, 1}
                            /\ {JoinTimeout, QueueLength} \subseteq Nat \ {0}

VARIABLES
  session,           \* sessionID of the host, 0 while it hosts none
  lastSession,       \* ids handed out so far; each session gets a new one
  seat,              \* the host's members: the device in each seat
  silence,           \* ticks since the host heard from each seat
  mode,              \* INACTIVE, JOINING or CLIENT, per device
  joined,            \* sessionID each device joins or has joined
  mySeat,            \* localPlayerID of each client
  roster,            \* each client's members: who is in which seat
  patience,          \* ticks since it heard the host, or began to join
  up,                \* frames from each device queued at the host
  down,              \* frames queued at each device
  disturbances,      \* losses and inputs so far
  prompt,            \* no frame was lost, late or sent to who has walked away
  calm               \* ticks since the last loss, late frame or input

hostVars == <<session, lastSession, seat, silence>>
clientVars == <<mode, joined, mySeat, roster, patience>>
envVars == <<disturbances, prompt, calm>>
vars == <<hostVars, clientVars, up, down, envVars>>

Seats == 1..(MaxPlayers - 1)
Players == 0..(MaxPlayers - 1)
Sessions == 0..MaxSessions
\* Ticks after which the parties have found out whatever silence tells them.
SettlingTime == 2 * ConnectionTimeout + 1

NoMembers == [p \in Seats |-> NoDevice]
NoRoster == [p \in Players |-> NoDevice]

\* A frame: its type, session, sender's seat, and the seat and device it names.
Frame(type, s, from, p, d) ==
  [type |-> type, session |-> s, from |-> from, player |-> p, device |-> d]

InSeat(d) == {p \in Seats : seat[p] = d}

-----------------------------------------------------------------------------
(* Queues.  A burst is what one handler sends, a sequence for each device. *)

\* What a full receive queue leaves of the frames that arrive.
Fits(queue, frames) ==
  SubSeq(frames, 1, Min({Len(frames), QueueLength - Len(queue)}))

\* The host sends a burst.
HostSends(burst) == down' = [d \in Devices |-> down[d] \o Fits(down[d], burst[d])]

Dropped(burst) == \E d \in Devices : Len(Fits(down[d], burst[d])) < Len(burst[d])

\* Bookkeeping of the environment after a burst nobody disturbed.
Delivered(burst) ==
  \/ /\ ~Dropped(burst)
     /\ UNCHANGED envVars
  \/ /\ Dropped(burst)
     /\ prompt' = FALSE
     /\ calm' = 0
     /\ UNCHANGED disturbances

Quiet == [d \in Devices |-> <<>>]

\* An input of a player, or a lost or late frame: bounded, and no longer calm.
Disturb ==
  /\ disturbances < MaxDisturbances
  /\ disturbances' = disturbances + 1
  /\ calm' = 0

-----------------------------------------------------------------------------
(* The host *)

Init ==
  /\ session = 0
  /\ lastSession = 0
  /\ seat = NoMembers
  /\ silence = [p \in Seats |-> 0]
  /\ mode = [d \in Devices |-> "INACTIVE"]
  /\ joined = [d \in Devices |-> 0]
  /\ mySeat = [d \in Devices |-> 0]
  /\ roster = [d \in Devices |-> NoRoster]
  /\ patience = [d \in Devices |-> 0]
  /\ up = [d \in Devices |-> <<>>]
  /\ down = [d \in Devices |-> <<>>]
  /\ disturbances = 0
  /\ prompt = TRUE
  /\ calm = 0

HostSession ==
  /\ session = 0
  /\ lastSession < MaxSessions
  /\ Disturb
  /\ session' = lastSession + 1
  /\ lastSession' = lastSession + 1
  /\ UNCHANGED <<seat, silence, clientVars, up, down, prompt>>

\* broadcastPlayerLeft over the members in seats
LeftBurst(members, p) ==
  [d \in Devices |->
     IF \E q \in Seats \ {p} : members[q] = d
       THEN <<Frame("LEFT", session, 0, p, NoDevice)>> ELSE <<>>]

\* leaveSession of the host; when it is switched off it tells nobody.
HostLeaves ==
  /\ session # 0
  /\ Disturb
  /\ session' = 0
  /\ seat' = NoMembers
  /\ silence' = [p \in Seats |-> 0]
  /\ \/ /\ HostSends(LeftBurst(seat, 0))
        /\ prompt' = (prompt /\ ~Dropped(LeftBurst(seat, 0)))
     \/ /\ down' = down
        /\ prompt' = FALSE
  /\ UNCHANGED <<lastSession, clientVars, up>>

\* findMemberByDevice, else findOpenPlayerID
SeatFor(d) ==
  IF InSeat(d) # {} THEN Min(InSeat(d)) ELSE Min({p \in Seats : seat[p] = NoDevice})

\* isAcceptingPlayers, apart from what the host is busy with
HasRoom == Cardinality({p \in Seats : seat[p] # NoDevice}) < MaxPlayers - 1

DeviceIn(members, p) == IF p = 0 THEN HostDevice ELSE members[p]

\* The seats a newcomer is told of, in order.
OthersOf(members, p) ==
  LET others == {q \in Players \ {p} : DeviceIn(members, q) # NoDevice}
  IN  [i \in 1..Cardinality(others) |->
         CHOOSE q \in others : Cardinality({r \in others : r < q}) = i - 1]

\* Mutant of JoinBurst: the newcomer is not told who is there already.
JoinBurstAlone(members, d, p) ==
  [e \in Devices |->
     CASE e = d -> <<Frame("ACCEPT", session, 0, p, d)>>
       [] e # d /\ \E q \in Seats \ {p} : members[q] = e -> <<Frame("JOINED", session, 0, p, d)>>
       [] OTHER -> <<>>]

\* What processJoinRequest sends: the acceptance and the roster to the
\* newcomer, the newcomer to everybody else.
JoinBurst(members, d, p) ==
  LET told == OthersOf(members, p)
  IN  [e \in Devices |->
         CASE e = d -> <<Frame("ACCEPT", session, 0, p, d)>> \o
                       [i \in DOMAIN told |->
                          Frame("JOINED", session, 0, told[i], DeviceIn(members, told[i]))]
           [] e # d /\ \E q \in Seats \ {p} : members[q] = e ->
                <<Frame("JOINED", session, 0, p, d)>>
           [] OTHER -> <<>>]

HostTakes(d) == up' = [up EXCEPT ![d] = Tail(@)]

\* processJoinRequest; busy is a host away from Town or in combat.
ProcessJoinRequest(d, busy) ==
  LET p == SeatFor(d)
      members == [seat EXCEPT ![p] = d]
      refusal == [Quiet EXCEPT ![d] = <<Frame("REJECT", session, 0, 0, d)>>]
  IN  /\ up[d] # <<>>
      /\ Head(up[d]).type = "REQUEST"
      /\ Head(up[d]).session = session
      /\ session # 0
      /\ HostTakes(d)
      /\ \/ /\ HasRoom
            /\ ~busy
            /\ seat' = members
            /\ silence' = [silence EXCEPT ![p] = 0]
            /\ HostSends(JoinBurst(members, d, p))
            /\ Delivered(JoinBurst(members, d, p))
         \/ /\ ~HasRoom \/ busy
            /\ HostSends(refusal)
            /\ Delivered(refusal)
            /\ UNCHANGED <<seat, silence>>
      /\ UNCHANGED <<session, lastSession, clientVars>>

\* acceptMemberPacket at the host
HostKnows(d, frame) ==
  /\ session # 0
  /\ frame.session = session
  /\ frame.from \in Seats
  /\ seat[frame.from] = d

HostHears(d) ==
  LET frame == Head(up[d])
      p == frame.from
  IN  /\ up[d] # <<>>
      /\ HostTakes(d)
      /\ \/ /\ frame.type = "HEARTBEAT"
            /\ HostKnows(d, frame)
            /\ silence' = [silence EXCEPT ![p] = 0]
            /\ UNCHANGED <<seat, down, envVars>>
         \/ /\ frame.type = "LEFT"
            /\ HostKnows(d, frame)
            /\ seat' = [seat EXCEPT ![p] = NoDevice]
            /\ silence' = [silence EXCEPT ![p] = 0]
            /\ HostSends(LeftBurst(seat, p))
            /\ Delivered(LeftBurst(seat, p))
         \/ /\ \/ frame.type # "REQUEST" /\ ~HostKnows(d, frame)
               \/ frame.type = "REQUEST" /\ (session = 0 \/ frame.session # session)
            /\ UNCHANGED <<seat, silence, down, envVars>>
      /\ UNCHANGED <<session, lastSession, clientVars>>

\* expireConnections
Silent(p) == seat[p] # NoDevice /\ silence[p] >= ConnectionTimeout

HostExpires(p) ==
  /\ Silent(p)
  /\ seat' = [seat EXCEPT ![p] = NoDevice]
  /\ silence' = [silence EXCEPT ![p] = 0]
  /\ HostSends(LeftBurst(seat, p))
  /\ Delivered(LeftBurst(seat, p))
  /\ UNCHANGED <<session, lastSession, clientVars, up>>

-----------------------------------------------------------------------------
(* The clients *)

\* clearSessionState
Cleared(d) ==
  /\ mode' = [mode EXCEPT ![d] = "INACTIVE"]
  /\ joined' = [joined EXCEPT ![d] = 0]
  /\ mySeat' = [mySeat EXCEPT ![d] = 0]
  /\ roster' = [roster EXCEPT ![d] = NoRoster]
  /\ patience' = [patience EXCEPT ![d] = 0]

Sent(d, frame) == Append(up[d], frame)

\* The nearby list is what beacons said up to DISCOVERY_EXPIRY_MS ago: it may
\* offer any session hosted so far, ended or full by now.
JoinNearby(d, s) ==
  /\ mode[d] = "INACTIVE"
  /\ s \in 1..lastSession
  /\ Len(up[d]) < QueueLength
  /\ Disturb
  /\ mode' = [mode EXCEPT ![d] = "JOINING"]
  /\ joined' = [joined EXCEPT ![d] = s]
  /\ patience' = [patience EXCEPT ![d] = 0]
  /\ up' = [up EXCEPT ![d] = Sent(d, Frame("REQUEST", s, 0, 0, d))]
  /\ UNCHANGED <<mySeat, roster, hostVars, down, prompt>>

\* leaveSession of a client.  Who is still joining, or is switched off, tells
\* nobody: what it is sent finds it gone, or finds it when it joins again.
ClientLeaves(d) ==
  /\ mode[d] # "INACTIVE"
  /\ Disturb
  /\ Cleared(d)
  /\ \/ /\ mode[d] = "CLIENT"
        /\ Len(up[d]) < QueueLength
        /\ up' = [up EXCEPT ![d] = Sent(d, Frame("LEFT", joined[d], mySeat[d], mySeat[d], NoDevice))]
        /\ UNCHANGED prompt
     \/ /\ prompt' = FALSE
        /\ UNCHANGED up
  /\ UNCHANGED <<hostVars, down>>

DeviceTakes(d) == down' = [down EXCEPT ![d] = Tail(@)]

\* processJoinAccept, processJoinReject; ignored unless it is joining there.
ClientAnswered(d) ==
  LET frame == Head(down[d])
      expected == mode[d] = "JOINING" /\ frame.session = joined[d]
  IN  /\ down[d] # <<>>
      /\ frame.type \in {"ACCEPT", "REJECT"}
      /\ DeviceTakes(d)
      /\ \/ /\ expected
            /\ frame.type = "ACCEPT"
            /\ mode' = [mode EXCEPT ![d] = "CLIENT"]
            /\ mySeat' = [mySeat EXCEPT ![d] = frame.player]
            /\ roster' = [roster EXCEPT ![d] =
                            [NoRoster EXCEPT ![0] = HostDevice, ![frame.player] = d]]
            /\ patience' = [patience EXCEPT ![d] = 0]
            /\ UNCHANGED joined
         \/ /\ expected
            /\ frame.type = "REJECT"
            /\ Cleared(d)
         \/ /\ ~expected
            /\ UNCHANGED clientVars
      /\ UNCHANGED <<hostVars, up, envVars>>

\* acceptMemberPacket at a client
ClientKnows(d, frame) == mode[d] = "CLIENT" /\ frame.session = joined[d]

\* processPlayerLeft, processPlayerJoined: what is said of itself it ignores.
AfterLeft(d, p) == IF p = mySeat[d] THEN roster[d] ELSE [roster[d] EXCEPT ![p] = NoDevice]

AfterJoined(d, p, e) == IF p = mySeat[d] THEN roster[d] ELSE [roster[d] EXCEPT ![p] = e]

ClientHears(d) ==
  LET frame == Head(down[d])
  IN  /\ down[d] # <<>>
      /\ frame.type \in {"HEARTBEAT", "JOINED", "LEFT"}
      /\ DeviceTakes(d)
      /\ \/ /\ ~ClientKnows(d, frame)
            /\ UNCHANGED clientVars
         \/ /\ ClientKnows(d, frame)
            /\ frame.type = "LEFT"
            /\ frame.player = 0
            /\ Cleared(d)
         \/ /\ ClientKnows(d, frame)
            /\ ~(frame.type = "LEFT" /\ frame.player = 0)
            /\ patience' = [patience EXCEPT ![d] = 0]
            /\ roster' = [roster EXCEPT ![d] =
                 CASE frame.type = "LEFT" -> AfterLeft(d, frame.player)
                   [] frame.type = "JOINED" -> AfterJoined(d, frame.player, frame.device)
                   [] OTHER -> @]
            /\ UNCHANGED <<mode, joined, mySeat>>
      /\ UNCHANGED <<hostVars, up, envVars>>

\* Mutant of GivesUp: who is joining asks for ever.
GivesUpClient(d) == mode[d] = "CLIENT" /\ patience[d] >= ConnectionTimeout

\* Host connection lost, or the join request timed out.
GivesUp(d) ==
  \/ mode[d] = "CLIENT" /\ patience[d] >= ConnectionTimeout
  \/ mode[d] = "JOINING" /\ patience[d] >= JoinTimeout

ClientExpires(d) ==
  /\ GivesUp(d)
  /\ Cleared(d)
  /\ UNCHANGED <<hostVars, up, down, envVars>>

-----------------------------------------------------------------------------
(* Time and radio *)

Expired == (\E p \in Seats : Silent(p)) \/ (\E d \in Devices : GivesUp(d))

InFlight == \E d \in Devices : up[d] # <<>> \/ down[d] # <<>>

\* A heartbeat interval passes: members send heartbeats, and who is joining
\* asks again.  Frames still queued from the last interval are late.
Tick ==
  LET beats == [d \in Devices |-> IF InSeat(d) # {}
                  THEN <<Frame("HEARTBEAT", session, 0, 0, NoDevice)>> ELSE <<>>]
      FromDevice(d) ==
        CASE mode[d] = "CLIENT" -> <<Frame("HEARTBEAT", joined[d], mySeat[d], 0, NoDevice)>>
          [] mode[d] = "JOINING" -> <<Frame("REQUEST", joined[d], 0, 0, d)>>
          [] OTHER -> <<>>
  IN  /\ ~Expired
      /\ \A d \in Devices : Len(up[d]) < QueueLength /\ Len(down[d]) < QueueLength
      /\ silence' = [p \in Seats |-> IF seat[p] = NoDevice THEN 0 ELSE silence[p] + 1]
      /\ patience' = [d \in Devices |-> IF mode[d] = "INACTIVE" THEN 0 ELSE patience[d] + 1]
      /\ HostSends(beats)
      /\ up' = [d \in Devices |-> up[d] \o FromDevice(d)]
      /\ \/ /\ ~InFlight
            /\ calm' = Min({calm + 1, SettlingTime})
            /\ UNCHANGED <<disturbances, prompt>>
         \/ /\ InFlight
            /\ Disturb
            /\ prompt' = FALSE
      /\ UNCHANGED <<session, lastSession, seat, mode, joined, mySeat, roster>>

Lose(d) ==
  /\ Disturb
  /\ prompt' = FALSE
  /\ \/ up[d] # <<>> /\ HostTakes(d) /\ UNCHANGED down
     \/ down[d] # <<>> /\ DeviceTakes(d) /\ UNCHANGED up
  /\ UNCHANGED <<hostVars, clientVars>>

Next ==
  \/ HostSession \/ HostLeaves \/ Tick
  \/ \E p \in Seats : HostExpires(p)
  \/ \E d \in Devices :
       \/ HostHears(d) \/ ClientLeaves(d) \/ ClientAnswered(d) \/ ClientHears(d)
       \/ ClientExpires(d) \/ Lose(d)
       \/ \E s \in Sessions : JoinNearby(d, s)
       \/ \E busy \in BOOLEAN : ProcessJoinRequest(d, busy)

Spec == Init /\ [][Next]_vars

-----------------------------------------------------------------------------
(* Properties *)

FrameTypes == {"REQUEST", "ACCEPT", "REJECT", "JOINED", "LEFT", "HEARTBEAT"}

\* The host never seats a device twice, however often it asks, leaves without
\* being heard and asks again (processJoinRequest).
OneSeatPerDevice == \A d \in Devices : Cardinality(InSeat(d)) <= 1

\* Host and clients agree on who is a member and in which seat.
SeatsAgree ==
  \A d \in Devices :
    /\ mode[d] # "JOINING"
    /\ mode[d] = "CLIENT" <=> InSeat(d) # {}
    /\ mode[d] = "CLIENT" => joined[d] = session /\ InSeat(d) = {mySeat[d]}

\* Whatever was lost, refused, or answered too late, two connection timeouts
\* without another disturbance later host and clients agree: heartbeats and
\* expireConnections put an end to every half-open membership.
SeatsSettle == calm = SettlingTime => SeatsAgree

\* While nothing was lost or late and nobody walked away from its own request,
\* a client whose frames have all arrived lists exactly the members of the
\* host: joins and departures of others, at the same time as its own, reach it
\* in an order that leaves the right roster.
RosterExactWhenPrompt ==
  \A d \in Devices :
    prompt /\ mode[d] = "CLIENT" /\ down[d] = <<>> /\ joined[d] = session =>
      \A p \in Seats \ {mySeat[d]} : roster[d][p] = seat[p]

\* Every device has one seat with the host, and while nothing was lost, late or
\* answered to who had gone, every member lists exactly the seats the host gave.
SeatsExact == OneSeatPerDevice /\ RosterExactWhenPrompt

=============================================================================
