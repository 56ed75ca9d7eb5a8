---------------------------- MODULE ServiceProofs ----------------------------
(***************************************************************************)
(* Proofs about Service for any number of players, connections and         *)
(* persons, in every mode the server can be started in.                    *)
(***************************************************************************)
EXTENDS Service, GameSessionProofs

-----------------------------------------------------------------------------
(* The inductive invariant *)

Stages == {"new", "opening", "open", "closing", "gone"}
LiveStages == {"opening", "open", "closing"}
Persons == Principals \cup {"nobody"}

Peer == [stage : Stages, authenticated : BOOLEAN, failures : Nat,
         player : 0..MaxPlayers, principal : Persons]
Participant == [occupied : BOOLEAN, active : Serials \cup {NoSerial},
                generation : 0..MaxSessionGeneration, owner : Persons]
Slot == [state : BOOLEAN, generation : 0..MaxSessionGeneration, lease : Serials \cup {NoSerial}]

SvcTypeOK ==
  /\ mode \in Modes
  /\ peer \in [Serials -> Peer]
  /\ game \in Session
  /\ participant \in [Players -> Participant]
  /\ slot \in [Players -> Slot]
  /\ started \in [Players -> BOOLEAN]
  /\ playOwner \in 0..MaxPlayers
  /\ playRetired \in BOOLEAN
  /\ held \subseteq Players

\* The service and the session have the same players, of the same generations.
Registered(p) ==
  /\ participant[p].occupied <=> game.players[p].occupied
  /\ participant[p].occupied => participant[p].generation = game.players[p].generation
  /\ ~participant[p].occupied => participant[p] = NoParticipant

\* Whoever has a connection is online.  The session may miss a departure, but
\* only once it has no sequence number left to record one.
Voiced(p) ==
  /\ participant[p].active # NoSerial =>
       /\ participant[p].active \in Live
       /\ peer[participant[p].active].player = p
       /\ game.players[p].connected
  /\ SessionCanEmit(game) /\ game.players[p].occupied /\ game.players[p].connected =>
       participant[p].active # NoSerial

\* A controller is there because its player started it, and only the player's
\* connection leases it.
Leased(p) ==
  /\ slot[p].state => /\ started[p] /\ participant[p].occupied
                      /\ slot[p].generation = participant[p].generation
  /\ slot[p].lease # NoSerial => slot[p].state /\ slot[p].lease = participant[p].active

Pressed(p) ==
  p \in held => /\ participant[p].active # NoSerial
                /\ mode # "single" => slot[p].state /\ slot[p].lease = participant[p].active
                /\ mode = "single" => playOwner = p

Heard(s) == peer[s].player # NoPlayer => participant[peer[s].player].active = s

Known(s) == mode = "serve" /\ peer[s].stage = "open" => peer[s].principal # "nobody"

\* One process has either one controller or one for each player.
OneController ==
  /\ mode = "single" => \A p \in Players : ~started[p]
  /\ mode # "single" => playOwner = NoPlayer

OneCharacter ==
  mode = "serve" => \A p, q \in Players : participant[p].occupied =>
    /\ participant[p].owner # "nobody"
    /\ participant[p].owner = participant[q].owner => p = q

PlayersOK == \A p \in Players : Registered(p) /\ Voiced(p) /\ Leased(p) /\ Pressed(p)
PeersOK == \A s \in Serials : Heard(s) /\ Known(s)

SvcInv ==
  /\ SvcTypeOK
  /\ game.initialized
  /\ PlayersOK
  /\ PeersOK
  /\ OneController
  /\ OneCharacter

-----------------------------------------------------------------------------
(* What the properties say of a state follows from the invariant *)

LEMMA NumbersApart == NoSerial \notin Serials /\ NoPlayer \notin Players
  BY SerialsAssumption, MaxPlayersAssumption DEF NoSerial, NoPlayer, Players

LEMMA OneVoiceFollows == SvcInv => OneVoice
  BY DEF SvcInv, PlayersOK, PeersOK, Voiced, Heard, OneVoice

LEMMA SessionFollowsFollows == SvcInv => SessionFollows
<1> SUFFICES ASSUME SvcInv PROVE SessionFollows
  OBVIOUS
<1>1. \A p \in Players : participant[p].occupied <=> game.players[p].occupied
  BY DEF SvcInv, PlayersOK, Registered
<1>2. ASSUME NEW p \in Players, participant[p].occupied
      PROVE  SessionValid(game, HandleOf(p))
  BY <1>2 DEF SvcInv, PlayersOK, Registered, SessionValid, HandleOf, Handle
<1>3. ASSUME NEW p \in Players
      PROVE  /\ participant[p].active # NoSerial => p \in SessionConnected(game)
             /\ SessionCanEmit(game) /\ p \in SessionConnected(game) => participant[p].active # NoSerial
  BY DEF SvcInv, PlayersOK, Registered, Voiced, NoParticipant, SessionConnected
<1> QED
  BY <1>1, <1>2, <1>3 DEF SessionFollows, SessionConnected

LEMMA HandsFollow == SvcInv => HandsOnTheControls
<1> SUFFICES ASSUME SvcInv PROVE HandsOnTheControls
  OBVIOUS
<1>1. NothingStaysPressed
  BY DEF SvcInv, SvcTypeOK, PlayersOK, Pressed, NothingStaysPressed
<1>2. ControllersFollow
  BY DEF SvcInv, PlayersOK, Leased, OneCharacter, ControllersFollow
<1> QED
  BY <1>1, <1>2 DEF HandsOnTheControls

-----------------------------------------------------------------------------
(* The first state *)

LEMMA SvcInitInv == SvcInit => SvcInv
<1> SUFFICES ASSUME SvcInit PROVE SvcInv
  OBVIOUS
<1>1. game \in Session /\ game.initialized /\ \A p \in Players : ~game.players[p].occupied
  BY ConstructedType, InitializedType DEF SvcInit, Initialized, Session, FreeSlot, Constructed
<1>2. NoPlayer \in 0..MaxPlayers
  BY MaxPlayersAssumption DEF NoPlayer
<1>3. SvcTypeOK
  <2>1. NewConnection \in Peer
    BY <1>2 DEF NewConnection, Peer, Stages, Persons
  <2>2. NoParticipant \in Participant
    BY MaxSessionGenerationAssumption DEF NoParticipant, Participant, Persons
  <2>3. EmptySlot \in Slot
    BY MaxSessionGenerationAssumption DEF EmptySlot, Slot
  <2> QED
    BY <1>1, <1>2, <2>1, <2>2, <2>3 DEF SvcInit, SvcTypeOK
<1>4. PlayersOK
  BY <1>1 DEF SvcInit, PlayersOK, Registered, Voiced, Leased, Pressed, NoParticipant, EmptySlot
<1>5. PeersOK
  BY DEF SvcInit, PeersOK, Heard, Known, NewConnection
<1>6. OneController /\ OneCharacter
  BY DEF SvcInit, OneController, OneCharacter, NoParticipant
<1> QED
  BY <1>1, <1>3, <1>4, <1>5, <1>6 DEF SvcInv

-----------------------------------------------------------------------------
(* Steps of the connections *)

\* A step that neither ends a live connection nor gives it another character.
KeepsPeers ==
  /\ UNCHANGED <<mode, game, participant, slot, started, playOwner, playRetired, held>>
  /\ peer' \in [Serials -> Peer]
  /\ \A t \in Serials : /\ peer'[t].player = peer[t].player
                        /\ t \in Live => peer'[t].stage \in LiveStages
                        /\ mode = "serve" /\ peer'[t].stage = "open" =>
                             peer'[t].principal # "nobody"

LEMMA PeerStep == ASSUME SvcInv, KeepsPeers PROVE SvcInv'
<1> USE DEF KeepsPeers
<1>1. SvcTypeOK' /\ game'.initialized
  BY DEF SvcInv, SvcTypeOK
<1>2. PlayersOK'
  <2> SUFFICES ASSUME NEW p \in Players
               PROVE  Registered(p)' /\ Voiced(p)' /\ Leased(p)' /\ Pressed(p)'
    BY DEF PlayersOK
  <2>1. Registered(p) /\ Voiced(p) /\ Leased(p) /\ Pressed(p)
    BY DEF SvcInv, PlayersOK
  <2>2. Registered(p)' /\ Leased(p)' /\ Pressed(p)'
    BY <2>1 DEF Registered, Leased, Pressed
  <2>3. Voiced(p)'
    BY <2>1 DEF Voiced, Live, LiveStages
  <2> QED
    BY <2>2, <2>3
<1>3. PeersOK'
  BY DEF SvcInv, PeersOK, Heard, Known
<1>4. OneController' /\ OneCharacter'
  BY DEF SvcInv, OneController, OneCharacter
<1> QED
  BY <1>1, <1>2, <1>3, <1>4 DEF SvcInv

LEMMA AcceptClientInv == ASSUME SvcInv, NEW s \in Serials, AcceptClient(s) PROVE SvcInv'
<1>1. peer' \in [Serials -> Peer]
  BY DEF SvcInv, SvcTypeOK, AcceptClient, Peer, Stages
<1>2. \A t \in Serials : /\ peer'[t].player = peer[t].player
                         /\ t \in Live => peer'[t].stage \in LiveStages
                         /\ mode = "serve" /\ peer'[t].stage = "open" =>
                              peer'[t].principal # "nobody"
  BY DEF SvcInv, SvcTypeOK, PeersOK, Known, AcceptClient, Live, LiveStages, Peer
<1> QED
  BY <1>1, <1>2, PeerStep DEF KeepsPeers, AcceptClient, runtimeVars

LEMMA UpgradeInv ==
  ASSUME SvcInv, NEW s \in Serials, NEW name \in Persons, Upgrade(s, name)
  PROVE  SvcInv'
<1>1. peer' = [peer EXCEPT ![s] = [peer[s] EXCEPT !.stage = "open", !.principal = name]]
  BY DEF SvcInv, SvcTypeOK, Upgrade
<1>2. peer' \in [Serials -> Peer]
  BY <1>1 DEF SvcInv, SvcTypeOK, Peer, Stages
<1>3. \A t \in Serials : /\ peer'[t].player = peer[t].player
                         /\ t \in Live => peer'[t].stage \in LiveStages
                         /\ mode = "serve" /\ peer'[t].stage = "open" =>
                              peer'[t].principal # "nobody"
  BY <1>1 DEF SvcInv, SvcTypeOK, PeersOK, Known, Upgrade, Live, LiveStages, Peer
<1> QED
  BY <1>2, <1>3, PeerStep DEF KeepsPeers, Upgrade, runtimeVars

LEMMA RefuseInv == ASSUME SvcInv, NEW s \in Serials, Refuse(s) PROVE SvcInv'
<1>1. peer' \in [Serials -> Peer]
  BY DEF SvcInv, SvcTypeOK, Refuse, Peer, Stages
<1>2. \A t \in Serials : /\ peer'[t].player = peer[t].player
                         /\ t \in Live => peer'[t].stage \in LiveStages
                         /\ mode = "serve" /\ peer'[t].stage = "open" =>
                              peer'[t].principal # "nobody"
  BY DEF SvcInv, SvcTypeOK, PeersOK, Known, Refuse, Live, LiveStages, Peer
<1> QED
  BY <1>1, <1>2, PeerStep DEF KeepsPeers, Refuse, runtimeVars

LEMMA AuthenticateInv == ASSUME SvcInv, NEW s \in Serials, Authenticate(s) PROVE SvcInv'
<1>1. PICK auth \in BOOLEAN, n \in Nat, stage \in {"open", "closing"} :
        peer' = [peer EXCEPT ![s] = [peer[s] EXCEPT !.authenticated = auth, !.failures = n,
                                                    !.stage = stage]]
  <2>1. peer[s].stage = "open" /\ peer[s] \in Peer
    BY DEF SvcInv, SvcTypeOK, Authenticate
  <2>2. CASE peer' = [peer EXCEPT ![s].authenticated = TRUE]
    <3>1. peer' = [peer EXCEPT ![s] = [peer[s] EXCEPT !.authenticated = TRUE,
                     !.failures = peer[s].failures, !.stage = "open"]]
      BY <2>1, <2>2 DEF Peer, SvcInv, SvcTypeOK
    <3> QED
      BY <2>1, <3>1 DEF Peer
  <2>3. CASE ~(peer' = [peer EXCEPT ![s].authenticated = TRUE])
    <3> DEFINE stage == IF peer[s].failures + 1 >= AuthFailureLimit THEN "closing" ELSE "open"
    <3>1. peer' = [peer EXCEPT ![s].failures = @ + 1, ![s].stage = stage]
      BY <2>3 DEF Authenticate
    <3> HIDE DEF stage
    <3>2. peer' = [peer EXCEPT ![s] = [peer[s] EXCEPT !.authenticated = peer[s].authenticated,
                     !.failures = peer[s].failures + 1, !.stage = stage]]
      BY <2>1, <3>1 DEF Peer, SvcInv, SvcTypeOK
    <3>3. stage \in {"open", "closing"}
      BY DEF stage
    <3>4. peer[s].authenticated \in BOOLEAN /\ peer[s].failures + 1 \in Nat
      BY <2>1 DEF Peer
    <3> QED
      BY <3>2, <3>3, <3>4
  <2> QED
    BY <2>2, <2>3
<1>2. peer' \in [Serials -> Peer]
  BY <1>1 DEF SvcInv, SvcTypeOK, Peer, Stages
<1>3. \A t \in Serials : /\ peer'[t].player = peer[t].player
                         /\ t \in Live => peer'[t].stage \in LiveStages
                         /\ mode = "serve" /\ peer'[t].stage = "open" =>
                              peer'[t].principal # "nobody"
  BY <1>1 DEF SvcInv, SvcTypeOK, PeersOK, Known, Authenticate, Live, LiveStages, Peer
<1> QED
  BY <1>2, <1>3, PeerStep DEF KeepsPeers, Authenticate, runtimeVars

-----------------------------------------------------------------------------
(* Giving up a character *)

\* The handle by which the service knows a player is the session's own.
LEMMA OwnHandle ==
  ASSUME SvcInv, NEW p \in Players
  PROVE  /\ HandleOf(p) \in SessionHandle
         /\ HandleOf(p).id = p
         /\ participant[p].occupied => SessionValid(game, HandleOf(p))
<1>1. participant[p].generation \in 0..MaxSessionGeneration
  BY DEF SvcInv, SvcTypeOK, Participant
<1> QED
  BY <1>1 DEF SvcInv, PlayersOK, Registered, HandleOf, Handle, SessionHandle, SessionValid

\* A session that can emit records the departure; one that cannot stays as it is.
LEMMA LeavesGame ==
  ASSUME SvcInv, NEW p \in Players, participant[p].active # NoSerial
  PROVE  LET g == Leaves(p)
         IN  /\ g \in Session
             /\ g.initialized
             /\ \A q \in Players : /\ g.players[q].occupied = game.players[q].occupied
                                   /\ g.players[q].generation = game.players[q].generation
                                   /\ q # p => g.players[q] = game.players[q]
             /\ SessionCanEmit(g) => SessionCanEmit(game) /\ ~g.players[p].connected
<1> DEFINE h == HandleOf(p)
<1>1. h \in SessionHandle /\ h.id = p /\ SessionValid(game, h) /\ game.players[p].connected
  <2>1. participant[p].occupied /\ game.players[p].connected
    BY DEF SvcInv, PlayersOK, Registered, Voiced, NoParticipant
  <2> QED
    BY <2>1, OwnHandle
<1>2. game \in Session /\ game.initialized
  BY DEF SvcInv, SvcTypeOK
<1> HIDE DEF h
<1>3. CASE SessionCanEmit(game)
  <2>1. SessionCanDisconnect(game, h)
    BY <1>1, <1>3 DEF SessionCanDisconnect
  <2>2. Leaves(p) = SessionDisconnected(game, h)
    BY <2>1 DEF Leaves, h
  <2>3. Leaves(p) \in Session
    BY <1>1, <1>2, <2>1, <2>2, DisconnectedType
  <2>4. \A q \in Players : Leaves(p).players[q] =
          IF q = p THEN [game.players[q] EXCEPT !.connected = FALSE] ELSE game.players[q]
    BY <1>1, <1>2, <2>2, DisconnectedFields
  <2>5. Leaves(p).initialized
    BY <1>1, <1>2, <2>2, DisconnectedFields
  <2>6. \A q \in Players : game.players[q] \in SessionSlot
    BY <1>2 DEF Session
  <2> QED
    BY <1>3, <2>3, <2>4, <2>5, <2>6 DEF SessionSlot
<1>4. CASE ~SessionCanEmit(game)
  <2>1. Leaves(p) = game
    BY <1>4 DEF Leaves, SessionCanDisconnect
  <2> QED
    BY <1>2, <1>4, <2>1
<1> QED
  BY <1>3, <1>4

\* What is left of a connection that had the character p: nothing is pressed
\* any more, and the controller waits for whoever takes the character over.
LEMMA ReleaseLetsGo ==
  ASSUME SvcInv, NEW s \in Serials, Release(s), peer[s].player # NoPlayer
  PROVE  LET p == peer[s].player
         IN  /\ p \in Players
             /\ participant[p].occupied /\ participant[p].active = s
             /\ participant' = [participant EXCEPT ![p].active = NoSerial]
             /\ game' = Leaves(p)
             /\ slot' \in [Players -> Slot]
             /\ slot'[p].state = slot[p].state /\ slot'[p].generation = slot[p].generation
             /\ slot'[p].lease = NoSerial
             /\ \A q \in Players \ {p} : slot'[q] = slot[q]
             /\ held' \subseteq held \ {p}
<1> DEFINE p == peer[s].player
<1>1. p \in Players
  BY MaxPlayersAssumption DEF SvcInv, SvcTypeOK, Peer, NoPlayer, Players
<1>2. participant[p].active = s /\ s # NoSerial
  BY NumbersApart DEF SvcInv, PeersOK, Heard
<1>3. participant[p].occupied
  BY <1>1, <1>2 DEF SvcInv, PlayersOK, Registered, NoParticipant
<1>4. Registered(p) /\ Voiced(p) /\ Leased(p) /\ Pressed(p)
  BY <1>1 DEF SvcInv, PlayersOK
<1>5. /\ participant' = [participant EXCEPT ![p].active = NoSerial]
      /\ game' = Leaves(p)
  BY <1>2, <1>3 DEF Release
<1>6. slot \in [Players -> Slot] /\ held \subseteq Players
  BY DEF SvcInv, SvcTypeOK
<1> HIDE DEF p
<1>7. CASE mode # "single" /\ started[p]
  <2>1. slot' = Detached(p, s) /\ held' = LetGo(p, s)
    BY <1>2, <1>3, <1>7 DEF Release, p
  <2>2. SessionValid(game, HandleOf(p)) /\ Connected(p)
    BY <1>1, <1>2, <1>3, <1>4, OwnHandle DEF Voiced, Connected
  <2>3. Resolves(p)
    BY <2>2, <1>4 DEF Resolves, Leased, HandleOf
  <2>4. CASE slot[p].lease = s
    <3>1. MayUse(p, s)
      BY <1>2, <1>4, <2>3, <2>4 DEF MayUse, Leased
    <3>2. slot' = [slot EXCEPT ![p].lease = NoSerial] /\ held' = held \ {p}
      BY <2>1, <2>2, <3>1 DEF Detached, LetGo
    <3> QED
      BY <1>1, <1>2, <1>3, <1>5, <1>6, <3>2 DEF Slot, p
  <2>5. CASE slot[p].lease # s
    <3>1. slot' = slot /\ held' = held
      BY <2>1, <2>5 DEF Detached, LetGo, MayUse
    <3>2. slot[p].lease = NoSerial /\ p \notin held
      BY <1>2, <1>4, <1>7, <2>5 DEF Leased, Pressed
    <3> QED
      BY <1>1, <1>2, <1>3, <1>5, <1>6, <3>1, <3>2 DEF p
  <2> QED
    BY <2>4, <2>5
<1>8. CASE ~(mode # "single" /\ started[p])
  <2>1. slot' = slot /\ held' = IF p = playOwner THEN {} ELSE held
    BY <1>2, <1>3, <1>8 DEF Release, p
  <2>2. ~started[p]
    BY <1>1, <1>8 DEF SvcInv, OneController
  <2>3. slot[p].lease = NoSerial
    BY <1>4, <2>2 DEF Leased
  <2>4. p \in held => p = playOwner
    BY <1>2, <1>4, <1>8, <2>2 DEF Pressed, Leased
  <2> QED
    BY <1>1, <1>2, <1>3, <1>5, <1>6, <2>1, <2>3, <2>4 DEF p
<1> QED
  BY <1>7, <1>8

\* The connection s keeps no character, and the others keep what they have.
GivesUp(s) ==
  /\ Release(s)
  /\ UNCHANGED <<mode, started, playOwner, playRetired>>
  /\ peer' \in [Serials -> Peer]
  /\ peer'[s].player = NoPlayer
  /\ peer'[s].principal = peer[s].principal
  /\ peer'[s].stage = "open" => peer[s].stage = "open"
  /\ \A t \in Serials \ {s} : peer'[t] = peer[t]

LEMMA GivesUpInv == ASSUME SvcInv, NEW s \in Serials, GivesUp(s) PROVE SvcInv'
<1>1. PeersOK /\ PlayersOK /\ SvcTypeOK
  BY DEF SvcInv
<1>2. \A t \in Serials : Known(t)'
  BY <1>1 DEF PeersOK, Known, GivesUp
<1>3. CASE peer[s].player = NoPlayer
  <2>1. UNCHANGED <<slot, held, game, participant>>
    BY <1>3 DEF GivesUp, Release
  <2>2. SvcTypeOK' /\ game'.initialized
    BY <2>1 DEF SvcInv, SvcTypeOK, GivesUp
  <2>3. PlayersOK'
    <3> SUFFICES ASSUME NEW p \in Players
                 PROVE  Registered(p)' /\ Voiced(p)' /\ Leased(p)' /\ Pressed(p)'
      BY DEF PlayersOK
    <3>1. Registered(p) /\ Voiced(p) /\ Leased(p) /\ Pressed(p)
      BY <1>1 DEF PlayersOK
    <3>2. Registered(p)' /\ Leased(p)' /\ Pressed(p)'
      BY <2>1, <3>1 DEF Registered, Leased, Pressed, GivesUp
    <3>3. participant[p].active # s
      BY <1>3, <3>1, NumbersApart DEF Voiced
    <3>4. Voiced(p)'
      BY <2>1, <3>1, <3>3 DEF Voiced, Live, GivesUp
    <3> QED
      BY <3>2, <3>4
  <2>4. PeersOK'
    BY <1>1, <1>2, <2>1 DEF PeersOK, Heard, GivesUp
  <2>5. OneController' /\ OneCharacter'
    BY <2>1 DEF SvcInv, OneController, OneCharacter, GivesUp
  <2> QED
    BY <2>2, <2>3, <2>4, <2>5 DEF SvcInv
<1>4. CASE peer[s].player # NoPlayer
  <2> DEFINE p == peer[s].player
  <2>1. /\ p \in Players
        /\ participant[p].occupied /\ participant[p].active = s
        /\ participant' = [participant EXCEPT ![p].active = NoSerial]
        /\ game' = Leaves(p)
        /\ slot' \in [Players -> Slot]
        /\ slot'[p].state = slot[p].state /\ slot'[p].generation = slot[p].generation
        /\ slot'[p].lease = NoSerial
        /\ \A q \in Players \ {p} : slot'[q] = slot[q]
        /\ held' \subseteq held \ {p}
    BY <1>4, ReleaseLetsGo DEF GivesUp
  <2>2. participant[p].active # NoSerial
    BY <2>1, NumbersApart
  <2> HIDE DEF p
  <2>3. /\ game' \in Session
        /\ game'.initialized
        /\ \A q \in Players : /\ game'.players[q].occupied = game.players[q].occupied
                              /\ game'.players[q].generation = game.players[q].generation
                              /\ q # p => game'.players[q] = game.players[q]
        /\ SessionCanEmit(game') => SessionCanEmit(game) /\ ~game'.players[p].connected
    BY <2>1, <2>2, LeavesGame
  <2>4. \A q \in Players :
          participant'[q] = IF q = p THEN [participant[q] EXCEPT !.active = NoSerial]
                                     ELSE participant[q]
    BY <2>1, <1>1 DEF SvcTypeOK
  <2>5. \A q \in Players : participant[q] \in Participant /\ slot[q] \in Slot /\ slot'[q] \in Slot
    BY <1>1, <2>1 DEF SvcTypeOK
  <2>6. SvcTypeOK'
    <3>1. participant' \in [Players -> Participant]
      BY <2>1, <1>1 DEF SvcTypeOK, Participant
    <3> QED
      BY <2>1, <2>3, <1>1, <3>1 DEF SvcTypeOK, GivesUp
  <2>7. PlayersOK'
    <3> SUFFICES ASSUME NEW q \in Players
                 PROVE  Registered(q)' /\ Voiced(q)' /\ Leased(q)' /\ Pressed(q)'
      BY DEF PlayersOK
    <3>1. Registered(q) /\ Voiced(q) /\ Leased(q) /\ Pressed(q)
      BY <1>1 DEF PlayersOK
    <3>2. CASE q = p
      <4>1. Registered(q)'
        <5>1. /\ participant'[q].occupied = participant[q].occupied
              /\ participant'[q].generation = participant[q].generation
          BY <2>4, <2>5, <3>2 DEF Participant
        <5>2. participant[q].occupied
          BY <2>1, <3>2
        <5> QED
          BY <2>3, <3>1, <5>1, <5>2 DEF Registered
      <4>2. Voiced(q)'
        <5>1. participant'[q].active = NoSerial
          BY <2>4, <2>5, <3>2 DEF Participant
        <5> QED
          BY <2>3, <3>2, <5>1 DEF Voiced, SessionCanEmit
      <4>3. Leased(q)'
        <5>1. /\ participant'[q].occupied = participant[q].occupied
              /\ participant'[q].generation = participant[q].generation
          BY <2>4, <2>5, <3>2 DEF Participant
        <5> QED
          BY <2>1, <3>1, <3>2, <5>1 DEF Leased, GivesUp
      <4>4. Pressed(q)'
        BY <2>1, <3>2 DEF Pressed
      <4> QED
        BY <4>1, <4>2, <4>3, <4>4
    <3>3. CASE q # p
      <4>1. participant'[q] = participant[q] /\ game'.players[q] = game.players[q]
            /\ slot'[q] = slot[q] /\ (q \in held' => q \in held)
        <5>1. participant'[q] = participant[q]
          BY <2>4, <3>3
        <5> QED
          BY <2>1, <2>3, <3>3, <5>1
      <4>2. Registered(q)' /\ Leased(q)' /\ Pressed(q)'
        BY <3>1, <4>1 DEF Registered, Leased, Pressed, GivesUp
      <4>3. participant[q].active # s
        BY <2>2, <2>1, <3>1, <3>3 DEF Voiced, p
      <4>4. Voiced(q)'
        <5>1. participant[q].active # NoSerial =>
                participant[q].active \in Live' /\ peer'[participant[q].active].player = q
          BY <3>1, <4>3 DEF Voiced, Live, GivesUp
        <5>2. SessionCanEmit(game') => SessionCanEmit(game)
          BY <2>3
        <5> QED
          BY <3>1, <4>1, <5>1, <5>2 DEF Voiced, SessionCanEmit
      <4> QED
        BY <4>2, <4>4
    <3> QED
      BY <3>2, <3>3
  <2>8. PeersOK'
    <3> SUFFICES ASSUME NEW t \in Serials PROVE Heard(t)'
      BY <1>2 DEF PeersOK
    <3>1. CASE t = s
      BY <3>1 DEF Heard, GivesUp
    <3>2. CASE t # s
      <4>1. peer'[t] = peer[t] /\ peer[t] \in Peer
        BY <1>1, <3>2 DEF GivesUp, SvcTypeOK
      <4>2. peer[t].player # NoPlayer => peer[t].player \in Players /\ participant[peer[t].player].active = t
        BY <1>1, <4>1, MaxPlayersAssumption DEF PeersOK, Heard, Peer, NoPlayer, Players
      <4> QED
        BY <2>1, <2>4, <3>2, <4>1, <4>2 DEF Heard
    <3> QED
      BY <3>1, <3>2
  <2>9. OneController' /\ OneCharacter'
    <3>1. \A q \in Players : /\ participant'[q].occupied = participant[q].occupied
                             /\ participant'[q].owner = participant[q].owner
      BY <2>4, <2>5 DEF Participant
    <3> QED
      BY <3>1 DEF SvcInv, OneController, OneCharacter, GivesUp
  <2> QED
    BY <2>3, <2>6, <2>7, <2>8, <2>9 DEF SvcInv
<1> QED
  BY <1>3, <1>4

LEMMA FinishInv == ASSUME SvcInv, NEW s \in Serials, Finish(s) PROVE SvcInv'
<1>1. peer' = [peer EXCEPT ![s] = [peer[s] EXCEPT !.stage = "gone", !.player = NoPlayer]]
  BY DEF SvcInv, SvcTypeOK, Finish
<1>2. peer \in [Serials -> Peer] /\ NoPlayer \in 0..MaxPlayers
  BY MaxPlayersAssumption DEF SvcInv, SvcTypeOK, NoPlayer
<1>3. peer' \in [Serials -> Peer] /\ peer'[s].player = NoPlayer
      /\ peer'[s].principal = peer[s].principal /\ peer'[s].stage = "gone"
      /\ \A t \in Serials \ {s} : peer'[t] = peer[t]
  BY <1>1, <1>2 DEF Peer, Stages
<1>4. GivesUp(s)
  BY <1>3 DEF Finish, GivesUp
<1> QED
  BY <1>4, GivesUpInv

LEMMA DisconnectInv == ASSUME SvcInv, NEW s \in Serials, Disconnect(s) PROVE SvcInv'
<1>1. GivesUp(s)
  BY MaxPlayersAssumption DEF SvcInv, SvcTypeOK, Disconnect, GivesUp, Peer, NoPlayer
<1> QED
  BY <1>1, GivesUpInv

-----------------------------------------------------------------------------
(* Taking a character *)

\* The connection s, which has no character, becomes the one that plays p.
Takes(s, p) ==
  /\ peer[s].stage = "open" /\ peer[s].player = NoPlayer
  /\ peer' = [peer EXCEPT ![s].player = p]
  /\ participant[p].active = NoSerial
  /\ participant' \in [Players -> Participant]
  /\ participant'[p].active = s /\ participant'[p].occupied
  /\ participant'[p].generation = game'.players[p].generation
  /\ participant[p].occupied => participant'[p].generation = participant[p].generation
  /\ mode = "serve" =>
       /\ participant'[p].owner = peer[s].principal
       /\ \A q \in Players \ {p} : participant[q].occupied => participant[q].owner # peer[s].principal
  /\ \A q \in Players \ {p} : participant'[q] = participant[q]
  /\ game' \in Session /\ game'.initialized
  /\ game'.players[p].occupied /\ game'.players[p].connected
  /\ \A q \in Players \ {p} : game'.players[q] = game.players[q]
  /\ SessionCanEmit(game') => SessionCanEmit(game)
  /\ UNCHANGED <<mode, slot, started, playOwner, playRetired, held>>

LEMMA TakesInv ==
  ASSUME SvcInv, NEW s \in Serials, NEW p \in Players, Takes(s, p)
  PROVE  SvcInv'
<1>1. PeersOK /\ PlayersOK /\ SvcTypeOK
  BY DEF SvcInv
<1>2. p \in 0..MaxPlayers /\ p # NoPlayer
  BY NumbersApart, MaxPlayersAssumption DEF Players
<1>3. peer' = [peer EXCEPT ![s] = [peer[s] EXCEPT !.player = p]]
  BY <1>1 DEF SvcTypeOK, Takes
<1>4. peer' \in [Serials -> Peer] /\ peer[s] \in Peer
  BY <1>1, <1>2, <1>3 DEF SvcTypeOK, Peer
<1>5. /\ peer'[s].player = p /\ peer'[s].stage = "open" /\ peer'[s].principal = peer[s].principal
      /\ \A t \in Serials \ {s} : peer'[t] = peer[t]
  BY <1>1, <1>3, <1>4 DEF SvcTypeOK, Peer, Takes
<1>6. SvcTypeOK' /\ game'.initialized
  BY <1>1, <1>4 DEF SvcTypeOK, Takes
<1>7. PlayersOK'
  <2> SUFFICES ASSUME NEW q \in Players
               PROVE  Registered(q)' /\ Voiced(q)' /\ Leased(q)' /\ Pressed(q)'
    BY DEF PlayersOK
  <2>1. Registered(q) /\ Voiced(q) /\ Leased(q) /\ Pressed(q)
    BY <1>1 DEF PlayersOK
  <2>2. CASE q = p
    <3>1. Registered(q)'
      BY <2>2 DEF Registered, Takes
    <3>2. Voiced(q)'
      <4>1. s \in Live'
        BY <1>5 DEF Live
      <4>2. participant'[q].active = s /\ game'.players[q].connected /\ s # NoSerial
        BY <2>2, NumbersApart DEF Takes
      <4> QED
        BY <1>5, <2>2, <4>1, <4>2 DEF Voiced
    <3>3. Leased(q)'
      BY <2>1, <2>2 DEF Leased, Takes
    <3>4. Pressed(q)'
      BY <2>1, <2>2 DEF Pressed, Takes
    <3> QED
      BY <3>1, <3>2, <3>3, <3>4
  <2>3. CASE q # p
    <3>1. participant'[q] = participant[q] /\ game'.players[q] = game.players[q]
      BY <2>3 DEF Takes
    <3>2. Registered(q)' /\ Leased(q)' /\ Pressed(q)'
      BY <2>1, <3>1 DEF Registered, Leased, Pressed, Takes
    <3>3. participant[q].active # NoSerial =>
            participant[q].active \in Live' /\ peer'[participant[q].active].player = q
      <4> SUFFICES ASSUME participant[q].active # NoSerial
                   PROVE  participant[q].active \in Live' /\ peer'[participant[q].active].player = q
        OBVIOUS
      <4>1. participant[q].active # s
        BY <2>1, NumbersApart DEF Voiced, Takes
      <4> QED
        BY <1>5, <2>1, <4>1 DEF Voiced, Live
    <3>4. SessionCanEmit(game') => SessionCanEmit(game)
      BY DEF Takes
    <3>5. Voiced(q)'
      BY <2>1, <3>1, <3>3, <3>4 DEF Voiced, SessionCanEmit
    <3> QED
      BY <3>2, <3>5
  <2> QED
    BY <2>2, <2>3
<1>8. PeersOK'
  <2> SUFFICES ASSUME NEW t \in Serials PROVE Heard(t)' /\ Known(t)'
    BY DEF PeersOK
  <2>1. Heard(t) /\ Known(t)
    BY <1>1 DEF PeersOK
  <2>2. CASE t = s
    BY <1>5, <2>1, <2>2 DEF Heard, Known, Takes
  <2>3. CASE t # s
    <3>1. peer'[t] = peer[t] /\ peer[t] \in Peer
      BY <1>1, <1>5, <2>3 DEF SvcTypeOK
    <3>2. ASSUME peer[t].player # NoPlayer
          PROVE  participant'[peer[t].player].active = t
      <4>1. peer[t].player \in Players
        BY <3>1, <3>2, MaxPlayersAssumption DEF Peer, NoPlayer, Players
      <4>2. peer[t].player # p
        BY <2>1, <3>2, NumbersApart DEF Heard, Takes
      <4>3. participant'[peer[t].player] = participant[peer[t].player]
        BY <4>1, <4>2 DEF Takes
      <4> QED
        BY <2>1, <3>2, <4>3 DEF Heard
    <3>3. Heard(t)'
      BY <3>1, <3>2 DEF Heard
    <3>4. Known(t)'
      BY <2>1, <3>1 DEF Known, Takes
    <3> QED
      BY <3>3, <3>4
  <2> QED
    BY <2>2, <2>3
<1>9. OneController'
  BY DEF SvcInv, OneController, Takes
<1>10. OneCharacter'
  <2> SUFFICES ASSUME mode = "serve", NEW a \in Players, NEW b \in Players, participant'[a].occupied
               PROVE  /\ participant'[a].owner # "nobody"
                      /\ participant'[a].owner = participant'[b].owner => a = b
    BY DEF OneCharacter, Takes
  <2>1. peer[s].principal # "nobody" /\ participant'[p].owner = peer[s].principal
    BY <1>1 DEF PeersOK, Known, Takes
  <2>2. \A q \in Players \ {p} : /\ participant'[q] = participant[q]
                                 /\ participant[q].occupied => participant[q].owner # peer[s].principal
    BY DEF Takes
  <2>3. \A q \in Players : ~participant[q].occupied => participant[q].owner = "nobody"
    BY <1>1 DEF PlayersOK, Registered, NoParticipant
  <2>4. \A c, d \in Players : participant[c].occupied =>
          participant[c].owner # "nobody" /\ (participant[c].owner = participant[d].owner => c = d)
    BY DEF SvcInv, OneCharacter
  <2>5. CASE a = p
    BY <2>1, <2>2, <2>3, <2>5
  <2>6. CASE a # p
    BY <2>1, <2>2, <2>4, <2>6
  <2> QED
    BY <2>5, <2>6
<1> QED
  BY <1>6, <1>7, <1>8, <1>9, <1>10 DEF SvcInv

LEMMA JoinInv == ASSUME SvcInv, NEW s \in Serials, Join(s) PROVE SvcInv'
<1> DEFINE h == SessionJoinHandle(game)
           p == h.id
           new == [occupied |-> TRUE, active |-> s, generation |-> h.generation,
                   owner |-> peer[s].principal]
<1>1. game \in Session /\ SessionCanJoin(game) /\ game' = SessionJoined(game)
  BY DEF SvcInv, SvcTypeOK, Join
<1>2. /\ p \in Players /\ ~game.players[p].occupied
      /\ h.generation = game.nextGeneration
      /\ game'.initialized
      /\ game'.nextSequence = game.nextSequence + 1
      /\ \A q \in Players : game'.players[q] =
           IF q = p THEN [occupied |-> TRUE, connected |-> TRUE, generation |-> h.generation]
                    ELSE game.players[q]
  BY <1>1, JoinedFields
<1>3. game' \in Session
  BY <1>1, JoinedType
<1>4. SessionCanEmit(game') => SessionCanEmit(game)
  BY <1>1, <1>2, <1>3, MaxSessionSequenceAssumption DEF SessionCanEmit, Session
<1>5. participant[p] = NoParticipant
  BY <1>2 DEF SvcInv, PlayersOK, Registered
<1>6. /\ peer[s].stage = "open" /\ peer[s].player = NoPlayer
      /\ mode = "serve" => \A q \in Players :
           participant[q].occupied => participant[q].owner # peer[s].principal
  BY DEF Join, Unbound, Asks, OwnsOne
<1>7. /\ participant' = [participant EXCEPT ![p] = new]
      /\ peer' = [peer EXCEPT ![s].player = p]
      /\ UNCHANGED <<mode, slot, started, playOwner, playRetired, held>>
  BY DEF Join, runtimeVars
<1>8. participant \in [Players -> Participant] /\ new \in Participant
  <2>1. h.generation \in 0..MaxSessionGeneration
    BY <1>1, <1>2 DEF Session
  <2>2. peer[s].principal \in Persons
    BY DEF SvcInv, SvcTypeOK, Peer
  <2> HIDE DEF h
  <2> QED
    BY <2>1, <2>2 DEF SvcInv, SvcTypeOK, Participant
<1>9. participant' \in [Players -> Participant] /\ participant'[p] = new
      /\ \A q \in Players \ {p} : participant'[q] = participant[q]
  BY <1>2, <1>7, <1>8
<1> HIDE DEF h, p
<1>10. Takes(s, p)
  BY <1>2, <1>3, <1>4, <1>5, <1>6, <1>7, <1>9 DEF Takes, NoParticipant
<1> QED
  BY <1>2, <1>10, TakesInv

LEMMA ReconnectInv ==
  ASSUME SvcInv, NEW s \in Serials, NEW token, Reconnect(s, token)
  PROVE  SvcInv'
<1>1. PICK p \in Players :
        /\ Proves(s, p, token)
        /\ MayTakeOver(p)
        /\ SessionCanReconnect(game, HandleOf(p))
        /\ game' = SessionReconnected(game, HandleOf(p))
        /\ participant' = [participant EXCEPT ![p].active = s]
        /\ peer' = [peer EXCEPT ![s].player = p]
  BY DEF Reconnect
<1>2. game \in Session /\ game.initialized /\ participant \in [Players -> Participant]
  BY DEF SvcInv, SvcTypeOK
<1>3. HandleOf(p) \in SessionHandle /\ HandleOf(p).id = p
  BY OwnHandle
<1>4. /\ game'.initialized
      /\ game'.nextSequence = game.nextSequence + 1
      /\ \A q \in Players : game'.players[q] =
           IF q = p THEN [game.players[q] EXCEPT !.connected = TRUE] ELSE game.players[q]
  BY <1>1, <1>2, <1>3, ReconnectedFields
<1>5. game' \in Session
  BY <1>1, <1>2, <1>3, ReconnectedType
<1>6. SessionCanEmit(game') => SessionCanEmit(game)
  BY <1>2, <1>4, <1>5, MaxSessionSequenceAssumption DEF SessionCanEmit, Session
<1>7. participant' = [participant EXCEPT ![p] = [participant[p] EXCEPT !.active = s]]
  BY <1>1, <1>2
<1>8. participant[p] \in Participant /\ [participant[p] EXCEPT !.active = s] \in Participant
  BY <1>2 DEF Participant
<1>9. /\ participant' \in [Players -> Participant]
      /\ participant'[p].active = s
      /\ participant'[p].occupied = participant[p].occupied
      /\ participant'[p].generation = participant[p].generation
      /\ participant'[p].owner = participant[p].owner
      /\ \A q \in Players \ {p} : participant'[q] = participant[q]
  BY <1>2, <1>7, <1>8 DEF Participant
<1>10. /\ game.players[p] \in SessionSlot
       /\ game.players[p].occupied
       /\ game.players[p].generation = participant[p].generation
  BY <1>1, <1>2, <1>3 DEF Session, SessionCanReconnect, SessionValid, HandleOf, Handle
<1>11. /\ game'.players[p].occupied /\ game'.players[p].connected
       /\ game'.players[p].generation = participant[p].generation
       /\ \A q \in Players \ {p} : game'.players[q] = game.players[q]
  BY <1>4, <1>10 DEF SessionSlot
<1>12. mode = "serve" =>
         /\ participant[p].owner = peer[s].principal
         /\ \A q \in Players \ {p} : participant[q].occupied =>
              participant[q].owner # peer[s].principal
  BY <1>1 DEF Proves, SvcInv, OneCharacter
<1>13. participant[p].occupied /\ participant[p].active = NoSerial
  BY <1>1 DEF Proves, MayTakeOver
<1>14. /\ peer[s].stage = "open" /\ peer[s].player = NoPlayer
       /\ UNCHANGED <<mode, slot, started, playOwner, playRetired, held>>
  BY DEF Reconnect, Unbound, Asks, runtimeVars
<1>15. Takes(s, p)
  BY <1>1, <1>4, <1>5, <1>6, <1>9, <1>11, <1>12, <1>13, <1>14 DEF Takes
<1> QED
  BY <1>15, TakesInv

-----------------------------------------------------------------------------
(* Leaving *)

LEMMA LeaveInv == ASSUME SvcInv, NEW s \in Serials, Leave(s) PROVE SvcInv'
<1> DEFINE p == peer[s].player
<1>1. PeersOK /\ PlayersOK /\ SvcTypeOK
  BY DEF SvcInv
<1>2. p # NoPlayer /\ participant[p].active = s /\ peer[s].stage = "open"
  BY DEF Leave, Bound, Asks
<1>3. p \in Players /\ peer[s] \in Peer
  BY <1>1, <1>2, MaxPlayersAssumption DEF SvcTypeOK, Peer, NoPlayer, Players
<1>4. Registered(p) /\ Voiced(p) /\ Leased(p) /\ Pressed(p)
  BY <1>1, <1>3 DEF PlayersOK
<1>5. /\ SessionCanLeave(game, HandleOf(p)) /\ game' = SessionLeft(game, HandleOf(p))
      /\ started' = [started EXCEPT ![p] = FALSE]
      /\ participant' = [participant EXCEPT ![p] = NoParticipant]
      /\ peer' = [peer EXCEPT ![s].player = NoPlayer]
      /\ held' = IF p = playOwner \/ started[p] THEN held \ {p} ELSE held
      /\ playRetired' = (playRetired \/ p = playOwner)
      /\ UNCHANGED <<mode, playOwner>>
  BY DEF Leave
<1>6. IF mode # "single" /\ started[p] THEN slot' = Retired(p) ELSE slot' = slot
  BY DEF Leave
<1> HIDE DEF p
<1>7. HandleOf(p) \in SessionHandle /\ HandleOf(p).id = p /\ game \in Session /\ game.initialized
  BY <1>3, OwnHandle DEF SvcInv, SvcTypeOK
<1>8. /\ game' \in Session /\ game'.initialized
      /\ game'.nextSequence = game.nextSequence + 1
      /\ \A q \in Players : game'.players[q] = IF q = p THEN FreeSlot ELSE game.players[q]
  BY <1>5, <1>7, LeftType, LeftFields
<1>9. SessionCanEmit(game') => SessionCanEmit(game)
  BY <1>7, <1>8, MaxSessionSequenceAssumption DEF SessionCanEmit, Session
<1>10. /\ slot' \in [Players -> Slot]
       /\ ~slot'[p].state /\ slot'[p].lease = NoSerial
       /\ \A q \in Players \ {p} : slot'[q] = slot[q]
  <2>1. CASE mode # "single" /\ started[p]
    <3>1. EmptySlot \in Slot /\ ~EmptySlot.state /\ EmptySlot.lease = NoSerial
      BY MaxSessionGenerationAssumption DEF EmptySlot, Slot
    <3>2. slot' = [slot EXCEPT ![p] = EmptySlot]
      BY <1>6, <2>1 DEF Retired
    <3> QED
      BY <1>1, <1>3, <3>1, <3>2 DEF SvcTypeOK
  <2>2. CASE ~(mode # "single" /\ started[p])
    <3>1. slot' = slot
      BY <1>6, <2>2
    <3>2. ~started[p]
      BY <1>3, <2>2 DEF SvcInv, OneController
    <3> QED
      BY <1>1, <1>4, <3>1, <3>2 DEF SvcTypeOK, Leased
  <2> QED
    BY <2>1, <2>2
<1>11. held' \subseteq held \ {p}
  <2>1. p \in held => started[p] \/ p = playOwner
    BY <1>4 DEF Pressed, Leased
  <2> QED
    BY <1>5, <2>1
<1>12. /\ participant' \in [Players -> Participant]
       /\ \A q \in Players : participant'[q] = IF q = p THEN NoParticipant ELSE participant[q]
  <2>1. NoParticipant \in Participant
    BY MaxSessionGenerationAssumption DEF NoParticipant, Participant, Persons
  <2> QED
    BY <1>1, <1>5, <2>1 DEF SvcTypeOK
<1>13. /\ peer' \in [Serials -> Peer]
       /\ peer'[s].player = NoPlayer /\ peer'[s].principal = peer[s].principal
       /\ peer'[s].stage = "open"
       /\ \A t \in Serials \ {s} : peer'[t] = peer[t]
  <2>1. peer' = [peer EXCEPT ![s] = [peer[s] EXCEPT !.player = NoPlayer]] /\ NoPlayer \in 0..MaxPlayers
    BY <1>1, <1>5, MaxPlayersAssumption DEF SvcTypeOK, NoPlayer
  <2>2. [peer[s] EXCEPT !.player = NoPlayer] \in Peer
    BY <1>3, <2>1 DEF Peer
  <2> QED
    BY <1>1, <1>2, <1>3, <2>1, <2>2 DEF SvcTypeOK, Peer
<1>14. /\ started' \in [Players -> BOOLEAN]
       /\ \A q \in Players \ {p} : started'[q] = started[q]
       /\ \A q \in Players : started'[q] => started[q]
  BY <1>1, <1>3, <1>5 DEF SvcTypeOK
<1>15. SvcTypeOK'
  <2>1. playRetired' \in BOOLEAN /\ held' \subseteq Players
    BY <1>1, <1>5, <1>11 DEF SvcTypeOK
  <2> QED
    BY <1>1, <1>5, <1>8, <1>10, <1>12, <1>13, <1>14, <2>1 DEF SvcTypeOK
<1>16. PlayersOK'
  <2> SUFFICES ASSUME NEW q \in Players
               PROVE  Registered(q)' /\ Voiced(q)' /\ Leased(q)' /\ Pressed(q)'
    BY DEF PlayersOK
  <2>1. Registered(q) /\ Voiced(q) /\ Leased(q) /\ Pressed(q)
    BY <1>1 DEF PlayersOK
  <2>2. CASE q = p
    <3>1. participant'[q] = NoParticipant /\ game'.players[q] = FreeSlot
      BY <1>8, <1>12, <2>2
    <3>2. Registered(q)' /\ Voiced(q)'
      BY <3>1 DEF Registered, Voiced, NoParticipant, FreeSlot
    <3>3. Leased(q)' /\ Pressed(q)'
      BY <1>10, <1>11, <2>2 DEF Leased, Pressed
    <3> QED
      BY <3>2, <3>3
  <2>3. CASE q # p
    <3>1. participant'[q] = participant[q] /\ game'.players[q] = game.players[q]
      BY <1>8, <1>12, <2>3
    <3>2. slot'[q] = slot[q] /\ started'[q] = started[q] /\ (q \in held' => q \in held)
      BY <1>10, <1>11, <1>14, <2>3
    <3>3. Registered(q)' /\ Leased(q)' /\ Pressed(q)'
      BY <1>5, <2>1, <3>1, <3>2 DEF Registered, Leased, Pressed
    <3>4. participant[q].active # NoSerial =>
            participant[q].active \in Live' /\ peer'[participant[q].active].player = q
      <4>1. participant[q].active # s
        BY <2>1, <1>2, <2>3, NumbersApart DEF Voiced, p
      <4> QED
        BY <1>13, <2>1, <4>1 DEF Voiced, Live
    <3>5. Voiced(q)'
      BY <1>9, <2>1, <3>1, <3>4 DEF Voiced, SessionCanEmit
    <3> QED
      BY <3>3, <3>5
  <2> QED
    BY <2>2, <2>3
<1>17. PeersOK'
  <2> SUFFICES ASSUME NEW t \in Serials PROVE Heard(t)' /\ Known(t)'
    BY DEF PeersOK
  <2>1. Heard(t) /\ Known(t)
    BY <1>1 DEF PeersOK
  <2>2. CASE t = s
    BY <1>2, <1>5, <1>13, <2>1, <2>2 DEF Heard, Known
  <2>3. CASE t # s
    <3>1. peer'[t] = peer[t] /\ peer[t] \in Peer
      BY <1>1, <1>13, <2>3 DEF SvcTypeOK
    <3>2. ASSUME peer[t].player # NoPlayer
          PROVE  participant'[peer[t].player].active = t
      <4>1. peer[t].player \in Players
        BY <3>1, <3>2, MaxPlayersAssumption DEF Peer, NoPlayer, Players
      <4>2. peer[t].player # p
        BY <1>2, <2>1, <2>3, <3>2 DEF Heard
      <4>3. participant'[peer[t].player] = participant[peer[t].player]
        BY <1>12, <4>1, <4>2
      <4> QED
        BY <2>1, <3>2, <4>3 DEF Heard
    <3>3. Heard(t)'
      BY <3>1, <3>2 DEF Heard
    <3>4. Known(t)'
      BY <1>5, <2>1, <3>1 DEF Known
    <3> QED
      BY <3>3, <3>4
  <2> QED
    BY <2>2, <2>3
<1>18. OneController'
  BY <1>5, <1>14 DEF SvcInv, OneController
<1>19. OneCharacter'
  <2>1. \A q \in Players : /\ participant'[q].occupied => participant'[q] = participant[q] /\ participant[q].occupied
                           /\ ~participant'[q].occupied => participant'[q].owner = "nobody"
    BY <1>1, <1>12 DEF NoParticipant, PlayersOK, Registered
  <2>2. \A a, b \in Players : mode = "serve" /\ participant[a].occupied =>
          participant[a].owner # "nobody" /\ (participant[a].owner = participant[b].owner => a = b)
    BY DEF SvcInv, OneCharacter
  <2> QED
    BY <1>5, <2>1, <2>2 DEF OneCharacter
<1> QED
  BY <1>8, <1>15, <1>16, <1>17, <1>18, <1>19 DEF SvcInv

-----------------------------------------------------------------------------
(* The controllers *)

\* A step of the screen or the buttons of a player who is there.
Operates(p) ==
  /\ UNCHANGED <<mode, peer, game, participant, playRetired>>
  /\ slot' \in [Players -> Slot] /\ started' \in [Players -> BOOLEAN]
  /\ playOwner' \in 0..MaxPlayers /\ held' \subseteq Players
  /\ \A q \in Players \ {p} : slot'[q] = slot[q] /\ started'[q] = started[q]
                              /\ (q \in held' => q \in held)
  /\ Leased(p)' /\ Pressed(p)'
  /\ mode = "single" => slot' = slot /\ started' = started
  /\ mode # "single" => playOwner' = playOwner
  /\ playOwner' # playOwner => held' \subseteq {p}

LEMMA OperatesInv ==
  ASSUME SvcInv, NEW p \in Players, Operates(p)
  PROVE  SvcInv'
<1>1. SvcTypeOK' /\ game'.initialized
  BY DEF SvcInv, SvcTypeOK, Operates
<1>2. PlayersOK'
  <2> SUFFICES ASSUME NEW q \in Players
               PROVE  Registered(q)' /\ Voiced(q)' /\ Leased(q)' /\ Pressed(q)'
    BY DEF PlayersOK
  <2>1. Registered(q) /\ Voiced(q) /\ Leased(q) /\ Pressed(q)
    BY DEF SvcInv, PlayersOK
  <2>2. Registered(q)' /\ Voiced(q)'
    BY <2>1 DEF Registered, Voiced, Live, Operates
  <2>3. CASE q = p
    BY <2>2, <2>3 DEF Operates
  <2>4. CASE q # p
    <3>1. Leased(q)'
      BY <2>1, <2>4 DEF Leased, Operates
    <3>2. Pressed(q)'
      BY <2>1, <2>4 DEF Pressed, Operates
    <3> QED
      BY <2>2, <3>1, <3>2
  <2> QED
    BY <2>3, <2>4
<1>3. PeersOK'
  BY DEF SvcInv, PeersOK, Heard, Known, Operates
<1>4. OneController' /\ OneCharacter'
  BY DEF SvcInv, OneController, OneCharacter, Operates
<1> QED
  BY <1>1, <1>2, <1>3, <1>4 DEF SvcInv

LEMMA PlayInv == ASSUME SvcInv, NEW s \in Serials, Play(s) PROVE SvcInv'
<1>1. PeersOK /\ PlayersOK /\ SvcTypeOK
  BY DEF SvcInv
<1>2. peer[s].player \in Players /\ participant[peer[s].player].active = s
  BY <1>1, MaxPlayersAssumption DEF Play, Bound, SvcTypeOK, Peer, NoPlayer, Players
<1>3. PICK p \in Players : p = peer[s].player /\ participant[p].active = s /\ s # NoSerial
  BY <1>2, NumbersApart
<1>4. Registered(p) /\ Voiced(p) /\ Leased(p) /\ Pressed(p)
  BY <1>1, <1>3 DEF PlayersOK
<1>5. UNCHANGED <<mode, peer, game, participant, playRetired>>
  BY DEF Play
<1>6. CASE mode = "single"
  <2>1. playOwner' = p /\ held' = {} /\ UNCHANGED <<slot, started>>
    BY <1>3, <1>6 DEF Play
  <2>2. Leased(p)' /\ Pressed(p)'
    BY <1>4, <1>5, <2>1 DEF Leased, Pressed
  <2>3. p \in 0..MaxPlayers
    BY <1>3, MaxPlayersAssumption DEF Players
  <2>4. Operates(p)
    BY <1>1, <1>5, <1>6, <2>1, <2>2, <2>3 DEF Operates, SvcTypeOK
  <2> QED
    BY <1>3, <2>4, OperatesInv
<1>7. CASE mode # "single"
  <2>1. /\ slot' = Attached(p, s)
        /\ started' = [started EXCEPT ![p] = TRUE]
        /\ held' = held \ {p}
        /\ playOwner' = playOwner
    BY <1>3, <1>7 DEF Play
  <2> DEFINE g == IF slot[p].state THEN slot[p].generation ELSE participant[p].generation
             new == [state |-> TRUE, lease |-> s, generation |-> g]
  <2>2. slot' = [slot EXCEPT ![p] = new]
    BY <2>1 DEF Attached
  <2>3. g = participant[p].generation /\ participant[p].occupied
    BY <1>3, <1>4 DEF Leased, Registered, NoParticipant
  <2>4. g \in 0..MaxSessionGeneration
    BY <1>1, <1>3, <2>3 DEF SvcTypeOK, Participant
  <2> HIDE DEF g
  <2>5. new \in Slot
    BY <2>4 DEF Slot
  <2>6. slot' \in [Players -> Slot] /\ slot'[p] = new /\ \A q \in Players \ {p} : slot'[q] = slot[q]
    BY <1>1, <1>3, <2>2, <2>5 DEF SvcTypeOK
  <2>7. started' \in [Players -> BOOLEAN] /\ started'[p]
        /\ \A q \in Players \ {p} : started'[q] = started[q]
    BY <1>1, <1>3, <2>1 DEF SvcTypeOK
  <2>8. Leased(p)' /\ Pressed(p)'
    BY <1>3, <1>5, <2>1, <2>3, <2>6, <2>7 DEF Leased, Pressed
  <2>9. Operates(p)
    BY <1>1, <1>5, <1>7, <2>1, <2>6, <2>7, <2>8 DEF Operates, SvcTypeOK
  <2> QED
    BY <1>3, <2>9, OperatesInv
<1> QED
  BY <1>6, <1>7

LEMMA InputInv ==
  ASSUME SvcInv, NEW s \in Serials, NEW down \in BOOLEAN, Input(s, down)
  PROVE  SvcInv'
<1>1. PeersOK /\ PlayersOK /\ SvcTypeOK
  BY DEF SvcInv
<1>2. peer[s].player \in Players /\ participant[peer[s].player].active = s
  BY <1>1, MaxPlayersAssumption DEF Input, Bound, SvcTypeOK, Peer, NoPlayer, Players
<1>3. PICK p \in Players : /\ p = peer[s].player /\ participant[p].active = s
                           /\ s # NoSerial /\ MayPress(p, s)
  BY <1>2, NumbersApart DEF Input
<1>4. /\ held' = IF down THEN held \cup {p} ELSE held \ {p}
      /\ UNCHANGED <<mode, peer, game, participant, slot, started, playOwner, playRetired>>
  BY <1>3 DEF Input
<1>5. Leased(p)
  BY <1>1, <1>3 DEF PlayersOK
<1>6. Leased(p)' /\ Pressed(p)'
  BY <1>3, <1>4, <1>5 DEF Leased, Pressed, MayPress, MayUse
<1>7. Operates(p)
  BY <1>1, <1>3, <1>4, <1>6 DEF Operates, SvcTypeOK
<1> QED
  BY <1>3, <1>7, OperatesInv

LEMMA ReleaseIdleInv ==
  ASSUME SvcInv, NEW p \in Players, ReleaseIdle(p)
  PROVE  SvcInv'
<1>1. PlayersOK /\ SvcTypeOK
  BY DEF SvcInv
<1>2. /\ held' = held \ {p}
      /\ UNCHANGED <<mode, peer, game, participant, slot, started, playOwner, playRetired>>
  BY DEF ReleaseIdle
<1>3. Leased(p)' /\ Pressed(p)'
  BY <1>1, <1>2 DEF PlayersOK, Leased, Pressed
<1>4. Operates(p)
  BY <1>1, <1>2, <1>3 DEF Operates, SvcTypeOK
<1> QED
  BY <1>4, OperatesInv

-----------------------------------------------------------------------------
(* The theorems *)

LEMMA SvcNextInv == ASSUME SvcInv, SvcNext PROVE SvcInv'
<1>1. ASSUME NEW s \in Serials, NEW name \in Principals \cup {"nobody"}, Upgrade(s, name)
      PROVE  SvcInv'
  BY <1>1, UpgradeInv DEF Persons
<1>2. ASSUME NEW s \in Serials, NEW token, Reconnect(s, token) PROVE SvcInv'
  BY <1>2, ReconnectInv
<1>3. ASSUME NEW s \in Serials, NEW down \in BOOLEAN, Input(s, down) PROVE SvcInv'
  BY <1>3, InputInv
<1>4. ASSUME NEW s \in Serials,
             \/ AcceptClient(s) \/ Finish(s) \/ Refuse(s) \/ Authenticate(s)
             \/ Join(s) \/ Disconnect(s) \/ Leave(s) \/ Play(s)
      PROVE  SvcInv'
  BY <1>4, AcceptClientInv, FinishInv, RefuseInv, AuthenticateInv, JoinInv, DisconnectInv,
     LeaveInv, PlayInv
<1> QED
  BY <1>1, <1>2, <1>3, <1>4, ReleaseIdleInv DEF SvcNext

LEMMA SvcStutterInv == ASSUME SvcInv, UNCHANGED svcVars PROVE SvcInv'
<1> USE DEF svcVars
<1>1. SvcTypeOK' /\ game'.initialized
  BY DEF SvcInv, SvcTypeOK
<1>2. PlayersOK'
  BY DEF SvcInv, PlayersOK, Registered, Voiced, Leased, Pressed, Live
<1>3. PeersOK'
  BY DEF SvcInv, PeersOK, Heard, Known
<1>4. OneController' /\ OneCharacter'
  BY DEF SvcInv, OneController, OneCharacter
<1> QED
  BY <1>1, <1>2, <1>3, <1>4 DEF SvcInv

\* The service, the session, the controllers and the buttons stay in step,
\* whatever the order in which connections come, ask, time out and are lost.
THEOREM ServiceInvariance == SvcSpec => []SvcInv
<1>1. SvcInv /\ [SvcNext]_svcVars => SvcInv'
  BY SvcNextInv, SvcStutterInv
<1> QED
  BY SvcInitInv, <1>1, PTL DEF SvcSpec

\* Every variable of the service keeps its type: the handles stay in range and
\* no slot, lease or button names a player there is not.
THEOREM ServiceTypes == SvcSpec => []SvcTypeOK
<1>1. SvcInv => SvcTypeOK
  BY DEF SvcInv
<1> QED
  BY ServiceInvariance, <1>1, PTL

\* A character is played by one connection at a time, in both directions: what
\* Service::authenticate, join, reconnect, leave and detach are careful about.
THEOREM OneVoiceAlways == SvcSpec => []OneVoice
  BY ServiceInvariance, OneVoiceFollows, PTL

\* The game session knows the participants the service knows, under the handles
\* the service uses; whoever has a connection is online always, and nobody else as
\* long as it can record who leaves.
THEOREM SessionAlwaysFollows == SvcSpec => []SessionFollows
  BY ServiceInvariance, SessionFollowsFollows, PTL

\* No button outlives its connection, no controller passes to the next player
\* of the number, and a verified person has one character at most.
THEOREM HandsAlwaysOnTheControls == SvcSpec => []HandsOnTheControls
  BY ServiceInvariance, HandsFollow, PTL

=============================================================================
