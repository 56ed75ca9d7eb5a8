---------------------------- MODULE PartyRegistry ----------------------------
(***************************************************************************)
(* The registry of parties: a fixed array of slots, each holding a party   *)
(* of up to MaxPlayers members and the GameSession behind it.  A caller    *)
(* refers to a party and to its own membership by the handles it was given *)
(* (slot, generation, player, generation) and by a reconnect token; slots  *)
(* of both kinds are reused, so stale handles point into live slots.       *)
(*                                                                         *)
(* Callers use any credential ever issued, in any order.  Every call that  *)
(* changes state is an action; a call that returns an error and changes    *)
(* nothing is a stuttering step.  Profiles, party ids and the text of      *)
(* events are left out; the entropy source never repeats a token.          *)
(***************************************************************************)
EXTENDS GameSession

CONSTANTS
  RegistryCapacity,   \* PARTY_REGISTRY_CAPACITY = 16
  Codes,              \* join codes the generator can draw
  MaxSequence,        \* UINT64_MAX for a party's event sequence
  MaxGeneration       \* UINT64_MAX for party and member generations

ASSUME RegistryCapacityAssumption == RegistryCapacity \in Nat \ {0}
ASSUME MaxSequenceAssumption == MaxSequence \in Nat \ {0, 1}
ASSUME MaxGenerationAssumption == MaxGeneration \in Nat \ {0}

VARIABLES
  state,                  \* per slot: Empty, Active or Closed
  generation,             \* per slot: generation of its latest party
  joinCode,               \* per slot: the code of its latest party
  members,                \* per slot: its four member slots
  activity,               \* per slot: Town, Forest or Dungeon
  locked,                 \* per slot: no one may join
  nextSequence,           \* per slot: the next event's sequence number
  session,                \* per slot: its GameSession
  nextPartyGeneration,
  nextMemberGeneration,
  tokensDrawn,            \* reconnect tokens handed out so far
  ended,                  \* history: credentials of memberships that are over
  view                    \* history: per slot, what its events alone tell

counters == <<nextPartyGeneration, nextMemberGeneration, tokensDrawn>>
vars == <<state, generation, joinCode, members, activity, locked, nextSequence,
          session, nextPartyGeneration, nextMemberGeneration, tokensDrawn,
          ended, view>>

Slots == 0..(RegistryCapacity - 1)
Host == 0
Activities == {"Town", "Forest", "Dungeon"}
Locations == {"TOWN", "FOREST", "DUNGEON", "CONNECTING", "DISCONNECTED"}
NoCode == "no code"

MaxTokens == MaxGeneration

Member ==
  [occupied : BOOLEAN, connected : BOOLEAN, participating : BOOLEAN,
   generation : 0..MaxGeneration, token : 0..MaxTokens,
   location : Locations, sessionHandle : SessionHandle]

NoMember ==
  [occupied |-> FALSE, connected |-> FALSE, participating |-> FALSE,
   generation |-> 0, token |-> 0, location |-> "DISCONNECTED",
   sessionHandle |-> [id |-> 0, generation |-> 0]]

NewMember(gen, token, handle) ==
  [occupied |-> TRUE, connected |-> TRUE, participating |-> FALSE,
   generation |-> gen, token |-> token, location |-> "TOWN",
   sessionHandle |-> handle]

Vacated == [p \in Players |-> NoMember]

-----------------------------------------------------------------------------
(* Credentials *)

Credential ==
  [slot : Slots, party : 1..MaxGeneration, player : Players,
   member : 1..MaxGeneration, token : 1..MaxTokens]

\* makeMembership: what the member in slot s, player p was given.
Membership(s, p) ==
  [slot |-> s, party |-> generation[s], player |-> p,
   member |-> members[s][p].generation, token |-> members[s][p].token]

Occupied(s) == {p \in Players : members[s][p].occupied}
Connected(s) == {p \in Occupied(s) : members[s][p].connected}

Current == UNION {{Membership(s, p) : p \in Occupied(s)} : s \in Slots}

\* Every credential some caller may still hold.
Issued == Current \cup ended

ValidParty(c) == state[c.slot] = "Active" /\ generation[c.slot] = c.party

\* Mutant of ValidMember: the member generation is not compared.
ValidMemberBySlot(c) == ValidParty(c) /\ members[c.slot][c.player].occupied

ValidMember(c) ==
  /\ ValidParty(c)
  /\ members[c.slot][c.player].occupied
  /\ members[c.slot][c.player].generation = c.member

IsLeader(p) == p = Host

-----------------------------------------------------------------------------
(* Events *)

NoView == [present |-> {}, online |-> {}, open |-> FALSE]

\* A subscriber's picture of the roster after one more event about player p.
ViewAfter(v, type, p) ==
  CASE type = "PartyCreated" -> [present |-> {p}, online |-> {p}, open |-> TRUE]
    [] type \in {"MemberJoined", "MemberReconnected"} ->
         [v EXCEPT !.present = @ \cup {p}, !.online = @ \cup {p}]
    [] type = "MemberDisconnected" -> [v EXCEPT !.online = @ \ {p}]
    [] type = "MemberLeft" -> [v EXCEPT !.present = @ \ {p}, !.online = @ \ {p}]
    [] type = "PartyClosed" -> NoView
    [] OTHER -> v

CanEmit(s, count) == nextSequence[s] <= MaxSequence - count

Emit(s, type, p) ==
  /\ nextSequence' = [nextSequence EXCEPT ![s] = @ + 1]
  /\ view' = [view EXCEPT ![s] = ViewAfter(@, type, p)]

EmitBoth(s, type1, type2, p) ==
  /\ nextSequence' = [nextSequence EXCEPT ![s] = @ + 2]
  /\ view' = [view EXCEPT ![s] = ViewAfter(ViewAfter(@, type1, p), type2, p)]

-----------------------------------------------------------------------------
(* Operations *)

Init ==
  /\ state = [s \in Slots |-> "Empty"]
  /\ generation = [s \in Slots |-> 0]
  /\ joinCode = [s \in Slots |-> NoCode]
  /\ members = [s \in Slots |-> Vacated]
  /\ activity = [s \in Slots |-> "Town"]
  /\ locked = [s \in Slots |-> FALSE]
  /\ nextSequence = [s \in Slots |-> 1]
  /\ session = [s \in Slots |-> Constructed]
  /\ nextPartyGeneration = 1
  /\ nextMemberGeneration = 1
  /\ tokensDrawn = 0
  /\ ended = {}
  /\ view = [s \in Slots |-> NoView]

VacantSlots == {s \in Slots : state[s] # "Active"}

CodeInUse(c) == \E s \in Slots : state[s] = "Active" /\ joinCode[s] = c

\* resetSlot and the new generation; c is the code the slot shows afterwards.
ResetSlot(s, c) ==
  /\ joinCode' = [joinCode EXCEPT ![s] = c]
  /\ activity' = [activity EXCEPT ![s] = "Town"]
  /\ locked' = [locked EXCEPT ![s] = FALSE]
  /\ generation' = [generation EXCEPT ![s] = nextPartyGeneration]
  /\ nextPartyGeneration' = nextPartyGeneration + 1

\* The part of createParty before its first assignment: a free slot, both
\* generation counters short of their end, and an unused code drawn.
CanCreate(c) ==
  /\ VacantSlots # {}
  /\ nextPartyGeneration < MaxGeneration
  /\ nextMemberGeneration < MaxGeneration
  /\ ~CodeInUse(c)

CreateParty(c) ==
  LET s == FirstOf(VacantSlots)
      started == Initialized(session[s])
  IN  /\ CanCreate(c)
      /\ SessionCanJoin(started)
      /\ SessionJoinHandle(started).id = Host
      /\ ResetSlot(s, c)
      /\ session' = [session EXCEPT ![s] = SessionJoined(started)]
      /\ members' = [members EXCEPT ![s] = [Vacated EXCEPT ![Host] =
                       NewMember(nextMemberGeneration, tokensDrawn + 1,
                                 SessionJoinHandle(started))]]
      /\ nextMemberGeneration' = nextMemberGeneration + 1
      /\ tokensDrawn' = tokensDrawn + 1
      /\ state' = [state EXCEPT ![s] = "Active"]
      /\ nextSequence' = [nextSequence EXCEPT ![s] = 2]
      /\ view' = [view EXCEPT ![s] = ViewAfter(NoView, "PartyCreated", Host)]
      /\ UNCHANGED ended

\* createParty after resetSlot: the dungeon of the new session could not be
\* generated, or the session has no generation left for its first player.
CreatePartyFails(c) ==
  LET s == FirstOf(VacantSlots)
      started == Initialized(session[s])
  IN  /\ CanCreate(c)
      /\ \/ UNCHANGED session                          \* GenerationFailed
         \/ /\ ~SessionCanJoin(started)
            /\ session' = [session EXCEPT ![s] = started]
      /\ ResetSlot(s, NoCode)
      /\ members' = [members EXCEPT ![s] = Vacated]
      /\ state' = [state EXCEPT ![s] = "Empty"]
      /\ nextSequence' = [nextSequence EXCEPT ![s] = 1]
      /\ view' = [view EXCEPT ![s] = NoView]
      /\ UNCHANGED <<nextMemberGeneration, tokensDrawn, ended>>

\* joinParty with the code of slot s's party.
JoinParty(s) ==
  LET open == Players \ Occupied(s)
      p == FirstOf(open)
  IN  /\ state[s] = "Active"
      /\ ~locked[s]
      /\ activity[s] = "Town"
      /\ open # {}
      /\ CanEmit(s, 1)
      /\ nextMemberGeneration < MaxGeneration
      /\ SessionCanJoin(session[s])
      /\ SessionJoinHandle(session[s]).id = p
      /\ session' = [session EXCEPT ![s] = SessionJoined(@)]
      /\ members' = [members EXCEPT ![s][p] =
                       NewMember(nextMemberGeneration, tokensDrawn + 1,
                                 SessionJoinHandle(session[s]))]
      /\ nextMemberGeneration' = nextMemberGeneration + 1
      /\ tokensDrawn' = tokensDrawn + 1
      /\ Emit(s, "MemberJoined", p)
      /\ UNCHANGED <<state, generation, joinCode, activity, locked,
                     nextPartyGeneration, ended>>

Disconnect(c) ==
  LET m == members[c.slot][c.player]
  IN  /\ ValidMember(c)
      /\ m.connected
      /\ CanEmit(c.slot, 1)
      /\ SessionCanDisconnect(session[c.slot], m.sessionHandle)
      /\ session' = [session EXCEPT ![c.slot] = SessionDisconnected(@, m.sessionHandle)]
      /\ members' = [members EXCEPT ![c.slot][c.player] =
                       [m EXCEPT !.connected = FALSE, !.participating = FALSE,
                                 !.location = "DISCONNECTED"]]
      /\ Emit(c.slot, "MemberDisconnected", c.player)
      /\ UNCHANGED <<state, generation, joinCode, activity, locked, counters, ended>>

\* Mutant of Returned: a member that comes back rejoins the running activity.
ReturnedToActivity(m, act) ==
  [m EXCEPT !.connected = TRUE, !.participating = (act # "Town"),
            !.location = IF act = "Town" THEN "TOWN" ELSE "CONNECTING"]

\* A member after reconnect: it never resumes the activity it dropped out of.
Returned(m, act) ==
  [m EXCEPT !.connected = TRUE, !.participating = FALSE,
            !.location = IF act = "Town" THEN "TOWN" ELSE "CONNECTING"]

\* reconnect takes a party handle, a player id and a token; the member
\* generation of the credential plays no part.
Reconnect(c) ==
  LET m == members[c.slot][c.player]
  IN  /\ ValidParty(c)
      /\ m.occupied
      /\ m.token = c.token
      /\ ~m.connected
      /\ CanEmit(c.slot, 1)
      /\ SessionCanReconnect(session[c.slot], m.sessionHandle)
      /\ session' = [session EXCEPT ![c.slot] = SessionReconnected(@, m.sessionHandle)]
      /\ members' = [members EXCEPT ![c.slot][c.player] = Returned(m, activity[c.slot])]
      /\ Emit(c.slot, "MemberReconnected", c.player)
      /\ UNCHANGED <<state, generation, joinCode, activity, locked, counters, ended>>

\* closeInternal: every member still in the party leaves the session (before
\* is the session as it stands then), whether or not the session lets it.
CloseInternal(s, before, staying) ==
  /\ session' = [session EXCEPT ![s] =
                   SessionAllLeft(before, {members[s][p].sessionHandle : p \in staying})]
  /\ members' = [members EXCEPT ![s] = Vacated]
  /\ state' = [state EXCEPT ![s] = "Closed"]
  /\ locked' = [locked EXCEPT ![s] = TRUE]
  /\ ended' = ended \cup {Membership(s, p) : p \in Occupied(s)}
  /\ UNCHANGED <<generation, joinCode, activity, counters>>

\* Mutant of DepartureEvent: a departure is announced as a disconnection.
DepartureEventWrong == "MemberDisconnected"

DepartureEvent == "MemberLeft"

Leave(c) ==
  LET m == members[c.slot][c.player]
      left == SessionLeft(session[c.slot], m.sessionHandle)
  IN  /\ ValidMember(c)
      /\ SessionCanLeave(session[c.slot], m.sessionHandle)
      /\ \/ /\ IsLeader(c.player)
            /\ CanEmit(c.slot, 2)
            /\ EmitBoth(c.slot, DepartureEvent, "PartyClosed", c.player)
            /\ CloseInternal(c.slot, left, Occupied(c.slot) \ {c.player})
         \/ /\ ~IsLeader(c.player)
            /\ CanEmit(c.slot, 1)
            /\ Emit(c.slot, DepartureEvent, c.player)
            /\ session' = [session EXCEPT ![c.slot] = left]
            /\ members' = [members EXCEPT ![c.slot][c.player] = NoMember]
            /\ ended' = ended \cup {Membership(c.slot, c.player)}
            /\ UNCHANGED <<state, generation, joinCode, activity, locked, counters>>

CloseParty(c) ==
  /\ ValidMember(c)
  /\ IsLeader(c.player)
  /\ members[c.slot][c.player].connected
  /\ CanEmit(c.slot, 1)
  /\ Emit(c.slot, "PartyClosed", c.player)
  /\ CloseInternal(c.slot, session[c.slot], Occupied(c.slot))

SetLocked(c) ==
  /\ ValidMember(c)
  /\ IsLeader(c.player)
  /\ members[c.slot][c.player].connected
  /\ CanEmit(c.slot, 1)
  /\ locked' = [locked EXCEPT ![c.slot] = ~@]
  /\ Emit(c.slot, IF locked[c.slot] THEN "PartyUnlocked" ELSE "PartyLocked", c.player)
  /\ UNCHANGED <<state, generation, joinCode, members, activity, session, counters, ended>>

StartActivity(c, act) ==
  /\ ValidMember(c)
  /\ IsLeader(c.player)
  /\ members[c.slot][c.player].connected
  /\ activity[c.slot] = "Town"
  /\ SessionConnected(session[c.slot]) # {}
  /\ CanEmit(c.slot, 2)
  /\ EmitBoth(c.slot, "ActivityStarting", "ActivityStarted", c.player)
  /\ activity' = [activity EXCEPT ![c.slot] = act]
  /\ members' = [members EXCEPT ![c.slot] = [p \in Players |->
       IF p \in Connected(c.slot)
         THEN [@[p] EXCEPT !.participating = TRUE,
                           !.location = IF act = "Forest" THEN "FOREST" ELSE "DUNGEON"]
         ELSE @[p]]]
  /\ UNCHANGED <<state, generation, joinCode, locked, session, counters, ended>>

\* updateMember: the location its client reports, only while it is connected.
UpdateMember(c, location) ==
  /\ ValidMember(c)
  /\ members[c.slot][c.player].connected
  /\ members' = [members EXCEPT ![c.slot][c.player].location = location]
  /\ UNCHANGED <<state, generation, joinCode, activity, locked, nextSequence,
                 session, counters, ended, view>>

\* Mutant of Rested: whoever is already home keeps its participation.
RestedIfHome(m) == IF m.location = "TOWN" THEN m ELSE [m EXCEPT !.participating = FALSE]

Rested(m) == [m EXCEPT !.participating = FALSE]

\* returnToTown: any member may end the activity once nobody connected is out.
ReturnToTown(c) ==
  /\ ValidMember(c)
  /\ \A p \in Occupied(c.slot) :
       members[c.slot][p].location \in {"TOWN", "DISCONNECTED"}
  /\ activity' = [activity EXCEPT ![c.slot] = "Town"]
  /\ locked' = [locked EXCEPT ![c.slot] = FALSE]
  /\ members' = [members EXCEPT ![c.slot] = [p \in Players |-> Rested(@[p])]]
  /\ UNCHANGED <<state, generation, joinCode, nextSequence, session, counters,
                 ended, view>>

Next ==
  \/ \E code \in Codes : CreateParty(code) \/ CreatePartyFails(code)
  \/ \E s \in Slots : JoinParty(s)
  \/ \E c \in Issued :
       \/ Disconnect(c) \/ Reconnect(c) \/ Leave(c)
       \/ CloseParty(c) \/ SetLocked(c) \/ ReturnToTown(c)
       \/ \E act \in {"Forest", "Dungeon"} : StartActivity(c, act)
       \/ \E location \in {"TOWN", "FOREST", "DUNGEON"} : UpdateMember(c, location)

Spec == Init /\ [][Next]_vars

-----------------------------------------------------------------------------
(* Properties *)

TypeOK ==
  /\ state \in [Slots -> {"Empty", "Active", "Closed"}]
  /\ generation \in [Slots -> 0..MaxGeneration]
  /\ joinCode \in [Slots -> Codes \cup {NoCode}]
  /\ members \in [Slots -> [Players -> Member]]
  /\ activity \in [Slots -> Activities]
  /\ locked \in [Slots -> BOOLEAN]
  /\ nextSequence \in [Slots -> 1..MaxSequence]
  /\ session \in [Slots -> Session]
  /\ nextPartyGeneration \in 1..MaxGeneration
  /\ nextMemberGeneration \in 1..MaxGeneration
  /\ tokensDrawn \in 0..MaxTokens
  /\ ended \subseteq Credential
  /\ view \in [Slots -> [present : SUBSET Players, online : SUBSET Players,
                          open : BOOLEAN]]

\* A credential is worth nothing once its membership is over, whoever sits in
\* the slot by then: the handle is refused, and so is the token, even together
\* with the current handle of the party in that slot (validateMember and
\* reconnect after leave, closeParty and slot reuse).
RevokedForever ==
  \A c \in ended :
    /\ ~ValidMember(c)
    /\ members[c.slot][c.player].occupied => members[c.slot][c.player].token # c.token

\* The registry and the GameSession of an active party, which keep the roster
\* each on their own, never disagree: same players, same connection state, and
\* every member's session handle is live.  So no call on an active party fails
\* for an internal disagreement.
SessionAgrees ==
  \A s \in Slots : state[s] = "Active" =>
    /\ session[s].initialized
    /\ \A p \in Players :
         LET m == members[s][p]
         IN  /\ session[s].players[p].occupied = m.occupied
             /\ m.occupied => /\ session[s].players[p].connected = m.connected
                              /\ m.sessionHandle.id = p
                              /\ SessionValid(session[s], m.sessionHandle)

\* A party is active exactly as long as its leader is a member, and no slot
\* that is not active holds members or takes joins (leave, closeInternal,
\* the failure paths of createParty).
LeaderHoldsParty ==
  \A s \in Slots :
    /\ state[s] = "Active" <=> Host \in Occupied(s)
    /\ state[s] # "Active" => Occupied(s) = {}
    /\ state[s] = "Closed" => locked[s]

\* The roster is kept: registry and GameSession mean the same members, and the
\* party lives exactly as long as its leader belongs to it.
RosterKept == SessionAgrees /\ LeaderHoldsParty

\* A subscriber that only reads the event history knows the roster and who is
\* online: no operation changes either without the events that say so.
EventsTellRoster ==
  \A s \in Slots :
    /\ view[s].present = Occupied(s)
    /\ view[s].online = Connected(s)
    /\ view[s].open = (state[s] = "Active")

\* Only a connected member takes part in an activity, and nobody does in Town.
ParticipantsAreOut ==
  \A s \in Slots : \A p \in Players :
    members[s][p].participating => p \in Connected(s) /\ activity[s] # "Town"

\* Two active parties never answer to the same join code (findParty).
CodesDistinct ==
  \A s, t \in Slots :
    s # t /\ state[s] = "Active" /\ state[t] = "Active" => joinCode[s] # joinCode[t]

Participants(s) == {p \in Players : members[s][p].participating}

\* While an activity runs nobody is added to it: a join, a reconnection or a
\* reused slot never enlarges the travelling company.
CompanyOnlyShrinks ==
  [][\A s \in Slots :
       activity[s] # "Town" /\ activity'[s] = activity[s] =>
         Participants(s)' \subseteq Participants(s)]_vars

-----------------------------------------------------------------------------
(* The registry implements the ledger: generations are the identities. *)

ActiveSlots == {s \in Slots : state[s] = "Active"}

EntryOf(s, p) ==
  [party |-> generation[s], member |-> members[s][p].generation, leader |-> p = Host]

Seats == Slots \X Players
OccupiedSeats == {x \in Seats : members[x[1]][x[2]].occupied}
ConnectedSeats == {x \in OccupiedSeats : members[x[1]][x[2]].connected}
TravellingSeats == {x \in Seats : members[x[1]][x[2]].participating}

Roster == {EntryOf(x[1], x[2]) : x \in OccupiedSeats}
Online == {EntryOf(x[1], x[2]) : x \in ConnectedSeats}
Company == {EntryOf(x[1], x[2]) : x \in TravellingSeats}
Away == {generation[s] : s \in {t \in ActiveSlots : activity[t] # "Town"}}

Ledger == INSTANCE PartyLedger WITH
  Identities <- 1..MaxGeneration,
  roster <- Roster,
  online <- Online,
  company <- Company,
  away <- Away,
  spentParties <- 1..(nextPartyGeneration - 1),
  spentMembers <- 1..(nextMemberGeneration - 1)

\* Slots, reuse, handles and exhaustion are invisible: every behaviour of the
\* registry is one of the ledger.
ImplementsLedger == Ledger!Spec

=============================================================================
