------------------------------- MODULE Service -------------------------------
(***************************************************************************)
(* The server: connections, the characters they are bound to, the players  *)
(* of the GameSession and the controllers that lease a screen and buttons. *)
(* One thread runs every handler to its end; between two of them a         *)
(* connection may be lost, time out or be closed by the server.            *)
(*                                                                         *)
(* A connection is its serial number, which is never used twice.  A        *)
(* reconnect token is the generation of the player it was issued to: both  *)
(* are new at every join.  Whether the party lets a member retire is       *)
(* NativeParty's to say; here it may answer either way.                    *)
(***************************************************************************)
EXTENDS GameSession

CONSTANTS
  Modes,            \* how the server was started: "party", "serve" or "single"
  Serials,          \* connections that are made, in the order of their numbers
  MaxConnections,   \* MAX_CONNECTIONS = 8
  PrincipalPeers,   \* connections of one verified person: 2
  AuthFailureLimit, \* AUTH_FAILURE_LIMIT = 3
  Principals        \* verified identities, of which "serve" mode knows each peer's

ASSUME SerialsAssumption == Serials \subseteq Nat \ {0} /\ IsFiniteSet(Serials)
ASSUME LimitsOfServiceAssumption ==
  {MaxConnections, PrincipalPeers, AuthFailureLimit} \subseteq Nat \ {0}

VARIABLES
  mode,
  peer,             \* of each serial: its stage and its ConnectionState
  game,             \* the GameSession
  participant,      \* participants_: who owns a player, and by which connection
  slot,             \* the controllers' slots, leased to connections
  started,          \* partyStarted_
  playOwner,        \* of the single controller, and whether it has retired
  playRetired,
  held              \* players whose controller has a button pressed

svcVars == <<mode, peer, game, participant, slot, started, playOwner, playRetired, held>>
runtimeVars == <<slot, started, playOwner, playRetired, held>>

NoPlayer == MaxPlayers
NoSerial == 0

Handle(p, g) == [id |-> p, generation |-> g]

NoParticipant == [occupied |-> FALSE, active |-> NoSerial, generation |-> 0, owner |-> "nobody"]
EmptySlot == [state |-> FALSE, generation |-> 0, lease |-> NoSerial]
NewConnection == [stage |-> "new", authenticated |-> FALSE, failures |-> 0, player |-> NoPlayer,
                  principal |-> "nobody"]

SvcInit ==
  /\ mode \in Modes
  /\ peer = [s \in Serials |-> NewConnection]
  /\ game = Initialized(Constructed)
  /\ participant = [p \in Players |-> NoParticipant]
  /\ slot = [p \in Players |-> EmptySlot]
  /\ started = [p \in Players |-> FALSE]
  /\ playOwner = NoPlayer
  /\ playRetired = FALSE
  /\ held = {}

-----------------------------------------------------------------------------
(* Controller slots *)

\* The handle a participant was given, and the slot it may use: not one whose
\* own player is gone, whose state another player of the same number must not
\* inherit.
HandleOf(p) == Handle(p, participant[p].generation)
Resolves(p) ==
  /\ SessionValid(game, HandleOf(p))
  /\ slot[p].state => SessionValid(game, Handle(p, slot[p].generation))

Connected(p) == game.players[p].connected

MayAttach(p, s) == Resolves(p) /\ Connected(p) /\ slot[p].lease \in {NoSerial, s}
MayUse(p, s) == Resolves(p) /\ slot[p].state /\ slot[p].lease = s

Attached(p, s) ==
  [slot EXCEPT ![p] = [state |-> TRUE, lease |-> s,
     generation |-> IF slot[p].state THEN slot[p].generation ELSE participant[p].generation]]

\* PartyRuntime::detach, which lets go of every button.
Detached(p, s) == IF MayUse(p, s) /\ Connected(p) THEN [slot EXCEPT ![p].lease = NoSerial] ELSE slot
LetGo(p, s) == IF MayUse(p, s) /\ Connected(p) THEN held \ {p} ELSE held

-----------------------------------------------------------------------------
(* Connections *)

Live == {s \in Serials : peer[s].stage \in {"opening", "open", "closing"}}
Counted == {s \in Live : peer[s].stage # "opening"}

AcceptClient(s) ==
  /\ peer[s].stage = "new"
  /\ \A t \in Serials : t < s => peer[t].stage # "new"
  /\ Cardinality(Live) < MaxConnections
  /\ peer' = [peer EXCEPT ![s].stage = "opening"]
  /\ UNCHANGED <<mode, game, participant, runtimeVars>>

\* The upgrade to a web socket; in serve mode the gateway names the person.
Upgrade(s, name) ==
  /\ peer[s].stage = "opening"
  /\ (name = "nobody") = (mode # "serve")
  /\ mode = "serve" =>
       Cardinality({t \in Counted : peer[t].principal = name}) < PrincipalPeers
  /\ peer' = [peer EXCEPT ![s].stage = "open", ![s].principal = name]
  /\ UNCHANGED <<mode, game, participant, runtimeVars>>

\* Mutant of Leaves: the game session is not told.
LeavesSilently(p) == game

Leaves(p) ==
  IF SessionCanDisconnect(game, HandleOf(p)) THEN SessionDisconnected(game, HandleOf(p)) ELSE game

\* The connection gives up its character: what is held is let go, the player
\* goes offline, and somebody who can prove it may take the character over.
Release(s) ==
  LET p == peer[s].player
  IN  IF p # NoPlayer /\ participant[p].occupied /\ participant[p].active = s
        THEN /\ IF mode # "single" /\ started[p]
                  THEN slot' = Detached(p, s) /\ held' = LetGo(p, s)
                  ELSE UNCHANGED slot /\ held' = IF p = playOwner THEN {} ELSE held
             /\ game' = Leaves(p)
             /\ participant' = [participant EXCEPT ![p].active = NoSerial]
        ELSE UNCHANGED <<slot, held, game, participant>>

\* Mutant of Finish: a lost connection is dropped and nothing else.
FinishOnly(s) ==
  /\ s \in Live
  /\ peer' = [peer EXCEPT ![s].stage = "gone", ![s].player = NoPlayer]
  /\ UNCHANGED <<mode, game, participant, runtimeVars>>

\* Lost, silent for too long, not authenticated in time, no longer admitted,
\* or closed after the last reply; also the end of the server.
Finish(s) ==
  /\ s \in Live
  /\ Release(s)
  /\ peer' = [peer EXCEPT ![s].stage = "gone", ![s].player = NoPlayer]
  /\ UNCHANGED <<mode, started, playOwner, playRetired>>

\* More than 20 requests a second, a repeated request number, a reply too long.
Refuse(s) ==
  /\ peer[s].stage = "open"
  /\ peer' = [peer EXCEPT ![s].stage = "closing"]
  /\ UNCHANGED <<mode, game, participant, runtimeVars>>

-----------------------------------------------------------------------------
(* Requests *)

Authenticate(s) ==
  /\ peer[s].stage = "open" /\ ~peer[s].authenticated
  /\ \/ peer' = [peer EXCEPT ![s].authenticated = TRUE]
     \/ /\ mode # "serve"
        /\ peer' = [peer EXCEPT ![s].failures = @ + 1,
             ![s].stage = IF peer[s].failures + 1 >= AuthFailureLimit THEN "closing" ELSE "open"]
  /\ UNCHANGED <<mode, game, participant, runtimeVars>>

Asks(s) == peer[s].stage = "open" /\ peer[s].authenticated
Unbound(s) == Asks(s) /\ peer[s].player = NoPlayer
Bound(s) == Asks(s) /\ peer[s].player # NoPlayer /\ participant[peer[s].player].active = s

OwnsOne(s) ==
  mode = "serve" /\ \E p \in Players : participant[p].occupied /\ participant[p].owner = peer[s].principal

Join(s) ==
  LET h == SessionJoinHandle(game)
  IN  /\ Unbound(s)
      /\ ~OwnsOne(s)
      /\ SessionCanJoin(game)
      /\ game' = SessionJoined(game)
      /\ participant' = [participant EXCEPT ![h.id] =
           [occupied |-> TRUE, active |-> s, generation |-> h.generation, owner |-> peer[s].principal]]
      /\ peer' = [peer EXCEPT ![s].player = h.id]
      /\ UNCHANGED <<mode, runtimeVars>>

\* A token that was ever issued, or in serve mode the person itself.
Proves(s, p, token) ==
  /\ participant[p].occupied
  /\ IF mode = "serve" THEN participant[p].owner = peer[s].principal
                       ELSE participant[p].generation = token

MayTakeOver(p) == participant[p].active = NoSerial

Reconnect(s, token) ==
  /\ Unbound(s)
  /\ \E p \in Players :
       /\ Proves(s, p, token)
       /\ MayTakeOver(p)
       /\ SessionCanReconnect(game, HandleOf(p))
       /\ game' = SessionReconnected(game, HandleOf(p))
       /\ participant' = [participant EXCEPT ![p].active = s]
       /\ peer' = [peer EXCEPT ![s].player = p]
  /\ UNCHANGED <<mode, runtimeVars>>

Disconnect(s) ==
  /\ Bound(s)
  /\ Release(s)
  /\ peer' = [peer EXCEPT ![s].player = NoPlayer]
  /\ UNCHANGED <<mode, started, playOwner, playRetired>>

\* Mutant of Retired: the controller stays in the slot of the player that left.
RetiredSlotKept(p) == [slot EXCEPT ![p].lease = NoSerial]

Retired(p) == [slot EXCEPT ![p] = EmptySlot]

\* A member of a party retires if the adventure lets it, and then its
\* controller and its player go together.
Leave(s) ==
  LET p == peer[s].player
  IN  /\ Bound(s)
      /\ SessionCanLeave(game, HandleOf(p))
      /\ IF mode # "single" /\ started[p]
           THEN MayUse(p, s) /\ Connected(p) /\ slot' = Retired(p)
           ELSE UNCHANGED slot
      /\ started' = [started EXCEPT ![p] = FALSE]
      /\ held' = IF p = playOwner \/ started[p] THEN held \ {p} ELSE held
      /\ playRetired' = (playRetired \/ p = playOwner)
      /\ game' = SessionLeft(game, HandleOf(p))
      /\ participant' = [participant EXCEPT ![p] = NoParticipant]
      /\ peer' = [peer EXCEPT ![s].player = NoPlayer]
      /\ UNCHANGED <<mode, playOwner>>

\* The screen and the buttons: of a controller of its own in a party, of the
\* one controller of the process else.
Play(s) ==
  LET p == peer[s].player
  IN  /\ Bound(s)
      /\ IF mode = "single"
           THEN /\ ~playRetired /\ playOwner \in {NoPlayer, p}
                /\ playOwner' = p /\ held' = {}
                /\ UNCHANGED <<slot, started>>
           ELSE /\ MayAttach(p, s)
                /\ slot' = Attached(p, s)
                /\ started' = [started EXCEPT ![p] = TRUE]
                /\ held' = held \ {p}
                /\ UNCHANGED playOwner
      /\ UNCHANGED <<mode, peer, game, participant, playRetired>>

MayPress(p, s) ==
  IF mode = "single" THEN ~playRetired /\ playOwner = p
                     ELSE started[p] /\ MayUse(p, s) /\ Connected(p)

Input(s, down) ==
  LET p == peer[s].player
  IN  /\ Bound(s)
      /\ MayPress(p, s)
      /\ held' = IF down THEN held \cup {p} ELSE held \ {p}
      /\ UNCHANGED <<mode, peer, game, participant, slot, started, playOwner, playRetired>>

\* tick: 1.5 s without an input release the buttons of a connected player.
ReleaseIdle(p) ==
  /\ participant[p].active # NoSerial
  /\ IF mode = "single" THEN playOwner = p /\ ~playRetired
                        ELSE started[p] /\ MayUse(p, participant[p].active) /\ Connected(p)
  /\ p \in held
  /\ held' = held \ {p}
  /\ UNCHANGED <<mode, peer, game, participant, slot, started, playOwner, playRetired>>

SvcNext ==
  \/ \E s \in Serials :
       \/ AcceptClient(s) \/ Finish(s) \/ Refuse(s) \/ Authenticate(s)
       \/ Join(s) \/ Disconnect(s) \/ Leave(s) \/ Play(s)
       \/ \E name \in Principals \cup {"nobody"} : Upgrade(s, name)
       \/ \E token \in 1..(game.nextGeneration - 1) : Reconnect(s, token)
       \/ \E down \in BOOLEAN : Input(s, down)
  \/ \E p \in Players : ReleaseIdle(p)

SvcSpec == SvcInit /\ [][SvcNext]_svcVars

-----------------------------------------------------------------------------
(* Properties *)

\* A character is played by one connection at a time: the one the service
\* takes for its connection is open and means this character, and nobody else
\* does.  (Service::detach, join and reconnect with connections that end late.)
OneVoice ==
  /\ \A p \in Players : participant[p].active # NoSerial =>
       participant[p].active \in Live /\ peer[participant[p].active].player = p
  /\ \A s \in Serials : peer[s].player # NoPlayer => participant[peer[s].player].active = s

\* The game session and the service agree on who exists, and whoever has a connection
\* is online, even once the session can record nothing more and Service::detach drops
\* its refusal of a disconnect.  Until then nobody else is online; after it those who
\* are lost may stay online (README, section 6).
SessionFollows ==
  /\ \A p \in Players : participant[p].occupied <=> game.players[p].occupied
  /\ \A p \in Players : participant[p].occupied => SessionValid(game, HandleOf(p))
  /\ \A p \in Players : participant[p].active # NoSerial => p \in SessionConnected(game)
  /\ SessionCanEmit(game) => \A p \in SessionConnected(game) : participant[p].active # NoSerial

\* What is pressed is pressed by somebody who is there and holds the
\* controller: no button outlives its connection or passes to the next player.
NothingStaysPressed ==
  \A p \in held :
    /\ participant[p].active # NoSerial
    /\ mode # "single" => slot[p].state /\ slot[p].lease = participant[p].active

\* Every controller belongs to the player that has its number now, and only a
\* connection that plays it leases it; a person has one character at most.
ControllersFollow ==
  /\ \A p \in Players : slot[p].state =>
       participant[p].occupied /\ slot[p].generation = participant[p].generation
  /\ \A p \in Players : slot[p].lease \in {NoSerial, participant[p].active}
  /\ mode = "serve" => \A p, q \in Players :
       participant[p].occupied /\ participant[p].owner = participant[q].owner => p = q

\* Hands are on the controls: a controller and every button pressed on it belong
\* to the player that has the number now and to the connection that plays it.
HandsOnTheControls == NothingStaysPressed /\ ControllersFollow

=============================================================================
