----------------------------- MODULE CombatTurns -----------------------------
(***************************************************************************)
(* A fight of a handheld party.  The host rolls the order, runs the        *)
(* monsters and decides every action; it tells the clients one event at a  *)
(* time and waits until all have acknowledged it.  The client whose turn   *)
(* it is sends a request and repeats it until an event comes.              *)
(*                                                                         *)
(* Frames arrive in the order sent or are lost.  A retry is due when       *)
(* nothing of its exchange is on the way; an earlier one is a disturbance, *)
(* as is a loss.  Hit points are alive or not, positions are rooms, and    *)
(* what is in reach in a room is a choice.  Sequence numbers stay far      *)
(* below their 16 bits.  Loading a room is in PartyActivity.               *)
(***************************************************************************)
EXTENDS Integers, Sequences, FiniteSets, SequencesExt

CONSTANTS
  Clients, Host,    \* the players of the activity
  Monsters, Rooms,
  Lair,             \* the room of each monster
  Speed,            \* squares a fresh turn may move
  RetryLimit,       \* RELIABLE_RETRY_LIMIT = 12
  Budgets           \* what a behaviour may contain: the party and where it is, and how
                    \* many events, requests, casts, doors, leaves, disturbances
                    \* (losses and early retries)

ASSUME CombatTurnsAssumption ==
  /\ Host \notin Clients /\ Monsters \cap (Clients \cup {Host}) = {}
  /\ Lair \in [Monsters -> Rooms]
  /\ IsFiniteSet(Clients) /\ IsFiniteSet(Monsters)
  /\ {Speed, RetryLimit} \subseteq Nat
  /\ Budgets \subseteq
       [party : SUBSET Clients, place : [Clients \cup {Host} -> Rooms], events : Nat, requests : Nat,
        casts : Nat, doors : Nat, leaves : Nat, disturbances : Nat]

VARIABLES
  party,            \* participantMask without the host
  gone,             \* clients that have left the activity themselves
  place,            \* the room of each player
  alive,            \* whoever has hit points
  combat,           \* multiplayerCombat of the host
  pending,          \* its event that is not acknowledged by all
  heard,            \* the last ability command taken of each client
  view,             \* multiplayerCombat of each client
  ask,              \* its request that no event has answered
  cast,             \* its ability command that has no result
  up, down,         \* frames to the host and to each client
  budget,           \* what is left of it
  turnNo,           \* how many turns have begun; history
  strikes,          \* standard actions: now, in this turn; owing, whose opening spell
                    \* counts in its next one; both, the turn of a request and after it
                    \* the opening spell; history
  behind, lost,     \* clients the host gave up on: an event, a BEGIN; history
  played, late,     \* last request that ran; whose ran twice, or late while it
                    \* followed the host; history
  resolved          \* ability commands resolved; history

Players == Clients \cup {Host}
table == <<combat, pending, alive, turnNo, strikes>>
vars == <<party, gone, place, heard, view, ask, cast, up, down, budget, table,
          behind, lost, played, late, resolved>>

\* Whoever still hears the host: in the activity on both sides, and not given up on.
Following == party \ (gone \cup behind \cup lost)

None == [seq |-> 0]
Actions == {"MOVE", "ATTACK", "CAST", "DOUBLE_MOVE", "FULL_DEFENSE", "END_TURN"}

\* What is left of the current turn.  Full defense only matters to armor class.
FreshTurn == [move |-> Speed, moved |-> FALSE, acted |-> FALSE]
EmptyTurn == [move |-> 0, moved |-> FALSE, acted |-> FALSE]

NoCombat ==
  [active |-> FALSE, ending |-> FALSE, id |-> 0, next |-> 1, turn |-> 1, order |-> <<>>,
   left |-> EmptyTurn, acts |-> [c \in Clients |-> 0], opening |-> None, opener |-> None]
NoView == [on |-> FALSE, id |-> 0, last |-> 0, turn |-> 1, order |-> <<>>, no |-> 0, acts |-> 0]

Init ==
  /\ budget \in Budgets
  /\ party = budget.party /\ gone = Clients \ party
  /\ place = budget.place
  /\ alive = Players \cup Monsters
  /\ combat = NoCombat
  /\ pending = [msg |-> None, to |-> {}, tries |-> 0]
  /\ heard = [p \in Players |-> [seq |-> 0, ready |-> TRUE]]
  /\ view = [c \in Clients |-> NoView]
  /\ ask = [c \in Clients |-> None]
  /\ cast = [c \in Clients |-> [seq |-> 0, waits |-> FALSE, tries |-> 0]]
  /\ up = [c \in Clients |-> <<>>] /\ down = [c \in Clients |-> <<>>]
  /\ turnNo = 0 /\ strikes = [now |-> 0, owing |-> {}, both |-> 0] /\ behind = {} /\ lost = {} /\ late = {}
  /\ played = [c \in Clients |-> 0]
  /\ resolved = [c \in Clients |-> 0]

-----------------------------------------------------------------------------
(* Turns *)

\* multiplayerCombatantAlive: a player that left does not count.
Living == alive \ (Clients \ party)
InOrder(c) == {c.order[i].who : i \in DOMAIN c.order}
Hostile(c, living) == Monsters \cap living \cap InOrder(c) # {}
Current == combat.order[combat.turn]
Busy == pending.to # {}

\* The next living combatant round the table has the turn; who cast the opening
\* ability has used the standard action of its first turn.
NextTurn(c, living) ==
  LET n == Len(c.order)
      seat(k) == ((c.turn - 1 + k) % n) + 1
      steps == {k \in 1..n : /\ c.order[seat(k)].who \in living
                             /\ \A j \in 1..(k - 1) : c.order[seat(j)].who \notin living}
      pays(i) == c.opener = [who |-> c.order[i].who]
  IN IF steps = {} THEN c
     ELSE LET i == seat(CHOOSE k \in steps : TRUE)
          IN [c EXCEPT !.turn = i, !.left = [FreshTurn EXCEPT !.acted = pays(i)],
                       !.opener = IF pays(i) THEN None ELSE @]

Nothing == [c \in Clients |-> <<>>]
Only(p, m) == [c \in Clients |-> IF c = p THEN <<m>> ELSE <<>>]
Others(p, m) == [c \in Clients |-> IF c \in party \ {p} THEN <<m>> ELSE <<>>]

Event(c, type, no) ==
  [type |-> type, id |-> c.id, seq |-> c.next, turn |-> c.turn, order |-> c.order, no |-> no]

\* The host tells an event to all, and more to some, and waits for the
\* acknowledgements of the event; none is pending before.
Emit(c, type, no, more) ==
  /\ c.next <= budget.events
  /\ combat' = [c EXCEPT !.next = @ + 1]
  /\ pending' = [msg |-> Event(c, type, no), to |-> party, tries |-> 0]
  /\ down' = [x \in Clients |->
                down[x] \o (IF x \in party THEN <<Event(c, type, no)>> ELSE <<>>) \o more[x]]
  /\ turnNo' = no

\* An event of the turn that goes on, and one that ends it.
Result(c) == Emit(c, "RESULT", turnNo, Nothing) /\ UNCHANGED alive
Advance(c) == Emit(NextTurn(c, Living), "TURN", turnNo + 1, Nothing) /\ UNCHANGED alive

\* resolveMultiplayerAttack, resolveMultiplayerAbility: a standard action after which
\* those in living have hit points.
Standard(c, living) ==
  LET d == [c EXCEPT !.left.acted = TRUE] IN
  /\ alive' = living
  /\ IF ~Hostile(d, living) THEN Emit([d EXCEPT !.ending = TRUE], "END", turnNo, Nothing)
     ELSE IF d.left.moved
     THEN Emit(NextTurn(d, living \cap Living), "RESULT", turnNo + 1, Nothing)
     ELSE Emit(d, "RESULT", turnNo, Nothing)

\* n standard actions of whoever has the turn.  A turn that begins has one already if
\* its player has cast the opening spell in somebody else's.
Strikes(n) ==
  LET w == combat'.order[combat'.turn].who
  IN strikes' = IF turnNo' = turnNo THEN [strikes EXCEPT !.now = @ + n]
                ELSE [strikes EXCEPT !.now = IF w \in strikes.owing THEN 1 ELSE 0, !.owing = @ \ {w}]

\* The opening spell of p, in its own turn or before it.
Opened(p) ==
  strikes' = IF p # Current.who THEN [strikes EXCEPT !.owing = @ \cup {p}]
             ELSE [strikes EXCEPT !.now = @ + 1, !.both = IF strikes.now > 0 THEN turnNo ELSE @]

-----------------------------------------------------------------------------
(* The beginning, and monsters that come later *)

Here(r) == {w \in Monsters \cap alive : Lair[w] = r}
Seats(ws, r) == {[who |-> w, room |-> r] : w \in ws}

\* startMultiplayerCombatFromCurrentRoom in a fight: the monsters of the room are
\* sorted into the turns still to come.
Reinforced(c, r) ==
  LET future == {c.order[i] : i \in (c.turn + 1)..Len(c.order)}
  IN {[c EXCEPT !.order = SubSeq(@, 1, c.turn) \o o] :
        o \in SetToSeqs(future \cup Seats(Here(r) \ InOrder(c), r))}

Reinforces(r) == combat.active /\ ~Busy /\ ~(Here(r) \subseteq InOrder(combat))

\* ... and when there is none: everybody alive and the monsters of the room.
Begun(r) ==
  {[NoCombat EXCEPT !.active = TRUE, !.id = combat.id + 1, !.order = o, !.left = FreshTurn] :
     o \in SetToSeqs({[who |-> p, room |-> place[p]] : p \in Players \cap Living}
                     \cup Seats(Here(r), r))}

StartCombat(r, opening) ==
  /\ ~combat.active /\ combat.id = 0
  /\ Here(r) # {}
  /\ \E c \in Begun(r) : Emit([c EXCEPT !.opening = opening], "BEGIN", turnNo + 1, Nothing)
  /\ Strikes(0) /\ behind' = {} /\ lost' = {}
  /\ UNCHANGED alive

\* checkAuthoritativeRoomCombat: a monster notices p when it steps.
MonsterNotices(p) ==
  /\ p \in Living
  /\ StartCombat(place[p], None)
  /\ UNCHANGED <<party, gone, place, heard, view, ask, cast, up, budget, played, late, resolved>>

\* The host casts at an enemy outside a fight.
HostOpens ==
  /\ Host \in Living
  /\ StartCombat(place[Host], [who |-> Host, seq |-> 0])
  /\ UNCHANGED <<party, gone, place, heard, view, ask, cast, up, budget, played, late, resolved>>

-----------------------------------------------------------------------------
(* The host acts for whoever has the turn *)

\* What may be left of everybody's hit points after an ability of p.
Outcomes(p) ==
  LET here == {q \in Players : place[q] = place[p]} \cup Here(place[p])
  IN {(alive \ here) \cup s : s \in {t \in SUBSET here : p \in t}}

\* tryMovePlayerAuthoritative, then checkAuthoritativeRoomCombat.
Move(c, p) ==
  LET d == [c EXCEPT !.left.move = @ - 1, !.left.moved = TRUE] IN
  \/ Result(c)                               \* cannot move there
  \/ /\ c.left.move > 0
     /\ UNCHANGED alive
     /\ \/ \E r \in Reinforced(d, place[p]) :
             Reinforces(place[p]) /\ Emit(r, "BEGIN", turnNo, Nothing)
        \/ IF d.left.acted /\ d.left.move = 0
           THEN Emit(NextTurn(d, Living), "RESULT", turnNo + 1, Nothing)
           ELSE Emit(d, "RESULT", turnNo, Nothing)

\* processAuthoritativeCombatAction: what the turn has left allows the action ...
Allowed(left, action) ==
  CASE action \in {"ATTACK", "CAST"} -> ~left.acted
    [] action = "FULL_DEFENSE" -> ~left.acted /\ ~left.moved
    [] action = "DOUBLE_MOVE" -> left.moved /\ ~left.acted
    [] OTHER -> TRUE

\* ... and p in room r acts.
Act(c, p, r, action) ==
  /\ Current = [who |-> p, room |-> r]
  /\ Allowed(c.left, action)
  /\ \/ action = "MOVE" /\ Move(c, p) /\ Strikes(0)
     \/ /\ action = "ATTACK" /\ p \in Living
        /\ \E w \in Here(r) : \E fallen \in {{}, {w}} : Standard(c, alive \ fallen)
        /\ Strikes(1)
     \/ /\ action = "CAST" /\ p \in Living
        /\ \E living \in Outcomes(p) : Standard(c, living)
        /\ Strikes(1)
     \/ /\ action = "DOUBLE_MOVE"
        /\ Result([c EXCEPT !.left.acted = TRUE, !.left.move = @ + Speed])
        /\ Strikes(0)
     \/ action \in {"FULL_DEFENSE", "END_TURN"} /\ Advance(c) /\ Strikes(0)

\* The host's buttons are read after its update, which has resolved an opening ability.
HostActs(action) ==
  /\ combat.active /\ ~combat.ending /\ ~Busy /\ combat.opening = None
  /\ Act(combat, Host, Current.room, action)
  /\ UNCHANGED <<party, gone, place, heard, view, ask, cast, up, budget, behind, lost, played, late, resolved>>

-----------------------------------------------------------------------------
(* updateMultiplayerCombat of the host, with no event pending *)

\* The spell that began the fight is resolved and its caster hears of it.
OpeningAbility ==
  LET o == combat.opening
      c == IF o.who = Current.who
           THEN [combat EXCEPT !.opening = None, !.left.acted = TRUE]
           ELSE [combat EXCEPT !.opening = None, !.opener = [who |-> o.who]]
      told == Only(o.who, [type |-> "ABILITY", seq |-> o.seq])
  IN /\ \/ /\ o.who \in Living
           /\ \E living \in Outcomes(o.who) :
                /\ alive' = living
                /\ IF Hostile(c, living) THEN Emit(c, "RESULT", turnNo, told)
                   ELSE Emit([c EXCEPT !.ending = TRUE], "END", turnNo, told)
           /\ Opened(o.who)
        \/ /\ combat' = [combat EXCEPT !.opening = None]
           /\ down' = [x \in Clients |-> down[x] \o told[x]]
           /\ UNCHANGED <<pending, alive, turnNo, strikes>>
     /\ heard' = [heard EXCEPT ![o.who].ready = TRUE]

\* A monster attacks a player it reaches or holds its position.
MonsterTurn ==
  \/ /\ \E p \in Players \cap alive : \E fallen \in {{}, {p}} :
          place[p] = Current.room /\ p \in Living /\ Standard(combat, alive \ fallen)
     /\ Strikes(1)
  \/ Advance(combat) /\ Strikes(0)

HostUpdate ==
  /\ combat.active /\ ~Busy
  /\ IF combat.ending
     THEN combat' = [combat EXCEPT !.active = FALSE] /\ UNCHANGED <<pending, down, alive, turnNo, strikes, heard>>
     ELSE IF combat.opening # None THEN OpeningAbility
     ELSE /\ UNCHANGED heard
          /\ IF Current.who \notin Living
             THEN IF Hostile(combat, alive) THEN Advance(combat) /\ Strikes(0)
                  ELSE Emit([combat EXCEPT !.ending = TRUE], "END", turnNo, Nothing) /\ UNCHANGED <<alive, strikes>>
             ELSE Current.who \in Monsters /\ MonsterTurn
  /\ UNCHANGED <<party, gone, place, view, ask, cast, up, budget, behind, lost, played, late, resolved>>

\* An event is sent again to who has not acknowledged it, at last it is given up.
OnItsWay ==
  \E c \in pending.to :
    \/ \E i \in DOMAIN down[c] : down[c][i].type \notin {"ABILITY", "ROOM"}
    \/ \E i \in DOMAIN up[c] : up[c][i].type = "ACK"

Spend(what) == budget[what] > 0 /\ budget' = [budget EXCEPT ![what] = @ - 1]

HostRetry ==
  /\ Busy
  /\ IF OnItsWay THEN Spend("disturbances") ELSE UNCHANGED budget
  /\ IF pending.tries < RetryLimit
     THEN /\ pending' = [pending EXCEPT !.tries = @ + 1]
          /\ down' = [c \in Clients |-> IF c \in pending.to THEN Append(down[c], pending.msg) ELSE down[c]]
          /\ UNCHANGED <<behind, lost>>
     ELSE /\ pending' = [pending EXCEPT !.to = {}]
          /\ IF pending.msg.type = "BEGIN"
             THEN lost' = lost \cup pending.to /\ UNCHANGED behind
             ELSE behind' = behind \cup pending.to /\ UNCHANGED lost
          /\ UNCHANGED down
  /\ UNCHANGED <<party, gone, place, alive, combat, heard, view, ask, cast, up, turnNo, strikes, played, late, resolved>>

-----------------------------------------------------------------------------
(* Frames that reach the host *)

HostKeeps == UNCHANGED <<combat, pending, alive, down, turnNo, strikes>>

\* mutant: the acknowledgement of any event counts
AnyAck(m) == combat.active /\ m.id = combat.id
RightAck(m) == combat.active /\ m.id = combat.id /\ m.of = pending.msg.seq

\* processCombatAck: who is no longer of the party is not heard.
ProcessCombatAck(c, m) ==
  LET right == RightAck(m) IN
  /\ pending' = IF right THEN [pending EXCEPT !.to = @ \ {c}] ELSE pending
  /\ behind' = IF right THEN behind \ {c} ELSE behind
  /\ lost' = IF right /\ pending.msg.type = "BEGIN" THEN lost \ {c} ELSE lost
  /\ UNCHANGED <<party, place, heard, combat, alive, down, turnNo, strikes, played, late, resolved>>

\* mutant: a request is not checked to be a new one
RepeatedRequest(c, m) == combat.active /\ ~Busy /\ m.id = combat.id
NewRequest(c, m) == combat.active /\ ~Busy /\ m.id = combat.id /\ m.seq > combat.acts[c]

\* processCombatActionRequest.  While an event is pending nothing is noted; a request
\* that is noted may be refused, and a target may be out of reach.
ProcessRequest(c, m) ==
  LET noted == [combat EXCEPT !.acts[c] = m.seq]
      mine == Current = [who |-> c, room |-> m.room]
  IN IF NewRequest(c, m)
     THEN /\ \/ /\ Act(noted, c, m.room, m.action)
                /\ late' = IF (c \in Following /\ m.no # turnNo) \/ m.seq <= played[c] THEN late \cup {c} ELSE late
                /\ played' = [played EXCEPT ![c] = m.seq]
             \/ /\ ~mine \/ ~Allowed(combat.left, m.action) \/ m.action \in {"ATTACK", "CAST"}
                /\ combat' = noted /\ UNCHANGED <<pending, alive, down, turnNo, strikes, played, late>>
          /\ UNCHANGED <<party, place, heard, behind, lost, resolved>>
     ELSE HostKeeps /\ UNCHANGED <<party, place, heard, behind, lost, played, late, resolved>>

\* mutant: a repeated command is taken for a new one
RepeatedCommand(c, m) == m.seq >= heard[c].seq
NewCommand(c, m) == m.seq > heard[c].seq

\* processExplorationAbilityCommand: a repeated command is answered as before, a new
\* one is resolved at once, or begins a fight that resolves it.
ProcessAbility(c, m) ==
  LET answer == [down EXCEPT ![c] = Append(@, [type |-> "ABILITY", seq |-> m.seq])]
      resolves == resolved' = [resolved EXCEPT ![c] = @ + 1]
      fights == [who |-> c, seq |-> m.seq]
  IN /\ \/ /\ m.seq = heard[c].seq
           /\ down' = IF heard[c].ready THEN answer ELSE down
           /\ UNCHANGED <<heard, combat, pending, alive, turnNo, strikes, behind, lost, resolved>>
        \/ /\ m.seq < heard[c].seq
           /\ HostKeeps /\ UNCHANGED <<heard, behind, lost, resolved>>
        \/ /\ NewCommand(c, m)
           /\ heard' = [heard EXCEPT ![c] = [seq |-> m.seq, ready |-> TRUE]]
           /\ down' = answer
           /\ \/ UNCHANGED <<alive, resolved>>
              \/ ~combat.active /\ c \in Living /\ alive' \in {a \in Outcomes(c) : alive \subseteq a} /\ resolves
           /\ UNCHANGED <<combat, pending, turnNo, strikes, behind, lost>>
        \/ /\ NewCommand(c, m) /\ c \in Living
           /\ StartCombat(place[c], fights)
           /\ heard' = [heard EXCEPT ![c] = [seq |-> m.seq, ready |-> FALSE]]
           /\ resolves
     /\ UNCHANGED <<party, place, played, late>>

\* processRoomTransitionRequest and beginIndependentRoomTransition in a fight: new
\* enemies are told before the order has the new room, and the room is told to
\* everybody but the one that moves.
CrossDoor(p, r) ==
  LET c == [combat EXCEPT !.order[combat.turn].room = r,
                          !.left.move = IF @ > 0 THEN @ - 1 ELSE 0, !.left.moved = TRUE]
      told == Others(p, [type |-> "ROOM", who |-> p, room |-> r])
      arrived(d) == [d EXCEPT !.order[combat.turn].room = r, !.left = c.left]
  IN /\ place' = [place EXCEPT ![p] = r]
     /\ \/ /\ combat' = c
           /\ down' = [x \in Clients |-> down[x] \o told[x]]
           /\ UNCHANGED <<pending, turnNo>>
        \/ /\ Reinforces(r) /\ p \in Living /\ combat.next <= budget.events
           /\ \E d \in Reinforced(combat, r) :
                /\ combat' = [arrived(d) EXCEPT !.next = @ + 1]
                /\ pending' = [msg |-> Event(d, "BEGIN", turnNo), to |-> party, tries |-> 0]
                /\ down' = [x \in Clients |-> down[x] \o (IF x \in party THEN <<Event(d, "BEGIN", turnNo)>> ELSE <<>>)
                                              \o told[x]]
           /\ UNCHANGED turnNo
     /\ UNCHANGED <<alive, strikes>>

ProcessRoomTransition(c, m) ==
  /\ IF combat.active /\ Current.who = c /\ combat.left.move > 0 THEN CrossDoor(c, m.room)
     ELSE HostKeeps /\ UNCHANGED place
  /\ UNCHANGED <<party, heard, behind, lost, played, late, resolved>>

\* processActivityLeave; the event stays pending for c.
ProcessLeave(c) ==
  /\ party' = party \ {c}
  /\ HostKeeps /\ UNCHANGED <<place, heard, behind, lost, played, late, resolved>>

HostReceives(c) ==
  /\ up[c] # <<>>
  /\ LET m == Head(up[c]) IN
       IF c \notin party
       THEN HostKeeps /\ UNCHANGED <<party, place, heard, behind, lost, played, late, resolved>>
       ELSE CASE m.type = "ACK" -> ProcessCombatAck(c, m)
              [] m.type = "REQUEST" -> ProcessRequest(c, m)
              [] m.type = "ABILITY" -> ProcessAbility(c, m)
              [] m.type = "DOOR" -> ProcessRoomTransition(c, m)
              [] m.type = "LEAVE" -> ProcessLeave(c)
  /\ up' = [up EXCEPT ![c] = Tail(@)]
  /\ UNCHANGED <<gone, view, ask, cast, budget>>

HostCrosses(r) ==
  /\ combat.active /\ Current.who = Host /\ combat.left.move > 0 /\ r # place[Host]
  /\ Spend("doors")
  /\ CrossDoor(Host, r)
  /\ UNCHANGED <<party, gone, heard, view, ask, cast, up, behind, lost, played, late, resolved>>

\* removeDisconnectedParticipants: the session has lost c; its frames go nowhere.
Disconnect(c) ==
  /\ c \in party
  /\ Spend("leaves")
  /\ party' = party \ {c} /\ gone' = gone \cup {c}
  /\ pending' = [pending EXCEPT !.to = @ \ {c}]
  /\ view' = [view EXCEPT ![c] = NoView] /\ ask' = [ask EXCEPT ![c] = None]
  /\ cast' = [cast EXCEPT ![c].waits = FALSE]
  /\ up' = [up EXCEPT ![c] = <<>>] /\ down' = [down EXCEPT ![c] = <<>>]
  /\ UNCHANGED <<place, alive, combat, heard, turnNo, strikes, behind, lost, played, late, resolved>>

-----------------------------------------------------------------------------
(* The client *)

SendUp(c, m) == up' = [up EXCEPT ![c] = Append(@, m)]
MyTurn(c) ==
  /\ view[c].on /\ view[c].turn \in DOMAIN view[c].order
  /\ view[c].order[view[c].turn].who = c

\* submitMultiplayerCombatRequest
Request(c, action) ==
  /\ MyTurn(c) /\ ask[c] = None
  /\ view[c].acts < budget.requests
  /\ LET v == view[c]
         m == [type |-> "REQUEST", id |-> v.id, seq |-> v.acts + 1, action |-> action,
               room |-> v.order[v.turn].room, no |-> v.no]
     IN /\ ask' = [ask EXCEPT ![c] = [seq |-> m.seq, msg |-> m, tries |-> 0]]
        /\ view' = [view EXCEPT ![c].acts = @ + 1]
        /\ SendUp(c, m)
  /\ UNCHANGED <<party, gone, place, heard, cast, down, budget, table, behind, lost, played, late, resolved>>

Due(c, type) ==
  IF (\E i \in DOMAIN up[c] : up[c][i].type = type) \/ down[c] # <<>>
  THEN Spend("disturbances") ELSE UNCHANGED budget

RetryRequest(c) ==
  /\ view[c].on /\ ask[c] # None
  /\ Due(c, "REQUEST")
  /\ IF ask[c].tries < RetryLimit
     THEN ask' = [ask EXCEPT ![c].tries = @ + 1] /\ SendUp(c, ask[c].msg)
     ELSE ask' = [ask EXCEPT ![c] = None] /\ UNCHANGED up    \* was not accepted
  /\ UNCHANGED <<party, gone, place, heard, view, cast, down, table, behind, lost, played, late, resolved>>

\* requestMultiplayerExplorationAbility
Cast(c) ==
  /\ c \notin gone /\ ~view[c].on
  /\ ~cast[c].waits /\ cast[c].seq < budget.casts
  /\ cast' = [cast EXCEPT ![c] = [seq |-> @.seq + 1, waits |-> TRUE, tries |-> 0]]
  /\ SendUp(c, [type |-> "ABILITY", seq |-> cast[c].seq + 1])
  /\ UNCHANGED <<party, gone, place, heard, view, ask, down, budget, table, behind, lost, played, late, resolved>>

RetryCast(c) ==
  /\ cast[c].waits
  /\ Due(c, "ABILITY")
  /\ IF cast[c].tries < RetryLimit
     THEN cast' = [cast EXCEPT ![c].tries = @ + 1] /\ SendUp(c, [type |-> "ABILITY", seq |-> cast[c].seq])
     ELSE cast' = [cast EXCEPT ![c].waits = FALSE] /\ UNCHANGED up
  /\ UNCHANGED <<party, gone, place, heard, view, ask, down, table, behind, lost, played, late, resolved>>

\* Through a door in its turn: sendPendingRoomTransitionRequest
Door(c, r) ==
  /\ MyTurn(c) /\ r # place[c]
  /\ Spend("doors")
  /\ SendUp(c, [type |-> "DOOR", room |-> r])
  /\ UNCHANGED <<party, gone, place, heard, view, ask, cast, down, table, behind, lost, played, late, resolved>>

Leave(c) ==
  /\ c \notin gone
  /\ Spend("leaves")
  /\ gone' = gone \cup {c}
  /\ view' = [view EXCEPT ![c] = NoView] /\ ask' = [ask EXCEPT ![c] = None]
  /\ cast' = [cast EXCEPT ![c].waits = FALSE]
  /\ SendUp(c, [type |-> "LEAVE"])
  /\ UNCHANGED <<party, place, heard, down, table, behind, lost, played, late, resolved>>

\* processCombatBegin: an old one is only acknowledged, a newer one of the fight
\* brings the new order, another fight begins afresh.
ProcessBegin(c, m) ==
  LET v == view[c]
      same == v.on /\ v.id = m.id
  IN IF same /\ m.seq <= v.last THEN UNCHANGED <<view, ask>>
     ELSE /\ view' = [view EXCEPT ![c] =
                [on |-> TRUE, id |-> m.id, last |-> m.seq, turn |-> m.turn, order |-> m.order,
                 no |-> m.no, acts |-> IF same THEN v.acts ELSE 0]]
          /\ ask' = [ask EXCEPT ![c] = None]

\* processCombatEvent
ProcessEvent(c, m) ==
  IF m.seq <= view[c].last THEN UNCHANGED <<view, ask>>
  ELSE /\ view' = [view EXCEPT ![c].last = m.seq, ![c].turn = m.turn, ![c].no = m.no,
                               ![c].on = m.type # "END"]
       /\ ask' = [ask EXCEPT ![c] = None]

\* processPlayerRoomChange
ProcessRoomChange(c, m) ==
  view' = [view EXCEPT ![c].order =
             [i \in DOMAIN @ |-> IF view[c].on /\ @[i].who = m.who THEN [@[i] EXCEPT !.room = m.room] ELSE @[i]]]

ClientReceives(c) ==
  /\ down[c] # <<>>
  /\ LET m == Head(down[c])
         ack == SendUp(c, [type |-> "ACK", id |-> m.id, of |-> m.seq])
     IN IF c \in gone THEN UNCHANGED <<view, ask, cast, up>>
        ELSE CASE m.type = "ABILITY" ->
                    /\ cast' = [cast EXCEPT ![c].waits = @ /\ m.seq # cast[c].seq]
                    /\ UNCHANGED <<view, ask, up>>
               [] m.type = "ROOM" -> ProcessRoomChange(c, m) /\ UNCHANGED <<ask, cast, up>>
               [] m.type = "BEGIN" -> ProcessBegin(c, m) /\ ack /\ UNCHANGED cast
               [] OTHER -> IF view[c].on /\ view[c].id = m.id
                           THEN ProcessEvent(c, m) /\ ack /\ UNCHANGED cast
                           ELSE UNCHANGED <<view, ask, cast, up>>
  /\ down' = [down EXCEPT ![c] = Tail(@)]
  /\ UNCHANGED <<party, gone, place, heard, budget, combat, pending, alive, turnNo, strikes,
                 behind, lost, played, late, resolved>>

-----------------------------------------------------------------------------
(* The radio, and everything together *)

Without(s, i) == SubSeq(s, 1, i - 1) \o SubSeq(s, i + 1, Len(s))

Lose(c) ==
  /\ Spend("disturbances")
  /\ \/ \E i \in DOMAIN up[c] : up' = [up EXCEPT ![c] = Without(@, i)] /\ UNCHANGED down
     \/ \E i \in DOMAIN down[c] : down' = [down EXCEPT ![c] = Without(@, i)] /\ UNCHANGED up
  /\ UNCHANGED <<party, gone, place, heard, view, ask, cast, combat, pending, alive, turnNo, strikes,
                 behind, lost, played, late, resolved>>

Next ==
  \/ \E p \in Players : MonsterNotices(p)
  \/ HostOpens
  \/ \E a \in Actions : HostActs(a)
  \/ \E r \in Rooms : HostCrosses(r)
  \/ HostUpdate \/ HostRetry
  \/ \E c \in Clients :
       \/ HostReceives(c) \/ ClientReceives(c) \/ Lose(c)
       \/ \E a \in Actions : Request(c, a)
       \/ RetryRequest(c) \/ Cast(c) \/ RetryCast(c)
       \/ \E r \in Rooms : Door(c, r)
       \/ Leave(c) \/ Disconnect(c)

Spec == Init /\ [][Next]_vars

-----------------------------------------------------------------------------
(* Properties *)

\* When the host waits for nothing, every client that follows shows the host's turn
\* in the host's order: updateMultiplayerCombat holds the fight until all have
\* acknowledged, and one that missed a mere event has caught up with the next.
EverybodySeesTheTurn ==
  combat.active /\ ~Busy /\ ~combat.ending =>
    \A c \in Following :
      LET v == view[c] IN
      v.on /\ v.id = combat.id /\ v.no = turnNo /\ v.turn = combat.turn
           /\ [i \in DOMAIN v.order |-> v.order[i].who] = [i \in DOMAIN combat.order |-> combat.order[i].who]

\* A request takes effect in the turn it was made in, however often it was repeated
\* and however late it comes: processCombatActionRequest drops what is not newer and
\* what comes while an event is pending, and a new event withdraws the request.  Only
\* one the host has given up on may still act on a turn that is over for the others.
ActedInTime == late = {}

\* An exploration ability is resolved at most once for each command the player gave,
\* retries and the fight it may start included.
CommandsOnce == \A c \in Clients : resolved[c] <= cast[c].seq

\* A player has one standard action in a turn, however its requests are repeated, and
\* the spell that opened the fight counts: in the turn it takes effect in, or, if that
\* is somebody else's, in its caster's next.  Only a request of the caster that comes in
\* between the beginning of the fight and its spell gives it a second one (README,
\* section 6), in that turn alone.
PlayersStrikeOnce ==
  combat.active /\ Current.who \in Players => strikes.now <= IF turnNo = strikes.both THEN 2 ELSE 1

\* However often a request is repeated, the host does what it asks once: a command
\* outside a fight, a standard action in a turn.
NothingTwice == CommandsOnce /\ PlayersStrikeOnce

\* "PF1e: a normal turn provides one standard and one move action."
\* (src/dungeon/actioneconomy.h:6)
MonstersStrikeOnce == combat.active /\ Current.who \in Monsters => strikes.now <= 1

\* "Players in other rooms still receive turns and may move or cross doors toward the
\* encounter." (docs/multiplayer-stage3.md:74): in its turn a client that follows
\* names itself as the host does, so that the host can take its request.
TurnsAreUsable ==
  combat.active /\ ~Busy /\ ~combat.ending =>
    \A c \in Following : Current.who = c /\ up[c] = <<>> /\ down[c] = <<>> => view[c].order[view[c].turn] = Current

=============================================================================
