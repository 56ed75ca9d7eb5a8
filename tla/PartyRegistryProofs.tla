------------------------- MODULE PartyRegistryProofs -------------------------
(***************************************************************************)
(* Proofs about PartyRegistry for any number of slots, players and codes   *)
(* and any largest sequence number and generation.                         *)
(***************************************************************************)
EXTENDS PartyRegistry, GameSessionProofs

-----------------------------------------------------------------------------
(* The inductive invariant *)

\* Generations and tokens in use were drawn from the counters.
Numbered ==
  /\ tokensDrawn = nextMemberGeneration - 1
  /\ \A s \in Slots : /\ generation[s] < nextPartyGeneration
                      /\ state[s] = "Active" => generation[s] >= 1
  /\ \A s \in Slots, p \in Players : members[s][p].occupied =>
       /\ members[s][p].generation \in 1..(nextMemberGeneration - 1)
       /\ members[s][p].token \in 1..tokensDrawn

\* Members sit in active parties only, and an active party has its leader.
Seated ==
  \A s \in Slots :
    /\ state[s] = "Active" <=> members[s][Host].occupied
    /\ state[s] # "Active" => \A p \in Players : ~members[s][p].occupied
    /\ state[s] = "Closed" => locked[s]

\* No two members share a generation or a token.
Distinct ==
  \A s, t \in Slots, p, q \in Players :
    /\ members[s][p].occupied /\ members[t][q].occupied
    /\ \/ members[s][p].generation = members[t][q].generation
       \/ members[s][p].token = members[t][q].token
    => s = t /\ p = q

\* No member holds the generation or the token of a membership that is over.
Spent ==
  \A c \in ended :
    /\ c.member < nextMemberGeneration
    /\ c.token <= tokensDrawn
    /\ \A s \in Slots, p \in Players : members[s][p].occupied =>
         members[s][p].generation # c.member /\ members[s][p].token # c.token

IInv == TypeOK /\ Numbered /\ Seated /\ Distinct /\ Spent

LEMMA HostIsPlayer == Host \in Players
  BY MaxPlayersAssumption DEF Host, Players

LEMMA NoMemberType == NoMember \in Member
  BY HostIsPlayer, MaxGenerationAssumption, MaxSessionGenerationAssumption
  DEF NoMember, Member, MaxTokens, Locations, SessionHandle, Host

LEMMA NewMemberType ==
  ASSUME NEW g \in 1..MaxGeneration, NEW t \in 1..MaxGeneration, NEW h \in SessionHandle
  PROVE  NewMember(g, t, h) \in Member
  BY DEF NewMember, Member, MaxTokens, Locations

LEMMA MembershipType ==
  ASSUME IInv, NEW s \in Slots, NEW p \in Players, members[s][p].occupied
  PROVE  Membership(s, p) \in Credential
<1>1. generation[s] \in 1..MaxGeneration
  BY DEF IInv, TypeOK, Numbered, Seated
<1>2. members[s][p].generation \in 1..MaxGeneration /\ members[s][p].token \in 1..MaxTokens
  BY MaxGenerationAssumption DEF IInv, TypeOK, Numbered, MaxTokens
<1> QED
  BY <1>1, <1>2 DEF Membership, Credential

\* Every credential a caller can present has the shape of one.
LEMMA IssuedType ==
  ASSUME IInv
  PROVE  Issued \subseteq Credential
  BY MembershipType DEF Issued, Current, Occupied, IInv, TypeOK

LEMMA VacantSlot ==
  ASSUME VacantSlots # {}
  PROVE  FirstOf(VacantSlots) \in Slots /\ state[FirstOf(VacantSlots)] # "Active"
<1>1. VacantSlots \subseteq Nat
  BY DEF VacantSlots, Slots
<1> QED
  BY <1>1, FirstOfExists DEF VacantSlots

LEMMA InitIInv == Init => IInv
<1> SUFFICES ASSUME Init PROVE IInv
  OBVIOUS
<1>1. \A s \in Slots, p \in Players : ~members[s][p].occupied
  BY DEF Init, Vacated, NoMember
<1>2. TypeOK
  BY ConstructedType, NoMemberType, MaxSequenceAssumption, MaxGenerationAssumption
  DEF Init, TypeOK, Vacated, Activities, MaxTokens, NoView
<1>3. Numbered
  BY <1>1 DEF Init, Numbered
<1> QED
  BY <1>1, <1>2, <1>3, HostIsPlayer DEF Init, IInv, Seated, Distinct, Spent

-----------------------------------------------------------------------------
(* Types *)

LEMMA ViewType ==
  ASSUME NEW v \in [present : SUBSET Players, online : SUBSET Players, open : BOOLEAN],
         NEW type, NEW p \in Players
  PROVE  ViewAfter(v, type, p) \in
           [present : SUBSET Players, online : SUBSET Players, open : BOOLEAN]
<1>1. CASE type = "PartyCreated"
  BY <1>1 DEF ViewAfter
<1>2. CASE type \in {"MemberJoined", "MemberReconnected"}
  BY <1>2 DEF ViewAfter
<1>3. CASE type = "MemberDisconnected"
  BY <1>3 DEF ViewAfter
<1>4. CASE type = "MemberLeft"
  BY <1>4 DEF ViewAfter
<1>5. CASE type = "PartyClosed"
  BY <1>5 DEF ViewAfter, NoView
<1>6. CASE type \notin {"PartyCreated", "MemberJoined", "MemberReconnected",
                       "MemberDisconnected", "MemberLeft", "PartyClosed"}
  BY <1>6 DEF ViewAfter
<1> QED
  BY <1>1, <1>2, <1>3, <1>4, <1>5, <1>6

LEMMA EmitType ==
  ASSUME TypeOK, NEW s \in Slots, NEW type, NEW p \in Players,
         CanEmit(s, 1), Emit(s, type, p)
  PROVE  /\ nextSequence' \in [Slots -> 1..MaxSequence]
         /\ view' \in [Slots -> [present : SUBSET Players, online : SUBSET Players,
                               open : BOOLEAN]]
<1>1. nextSequence[s] + 1 \in 1..MaxSequence
  BY MaxSequenceAssumption DEF TypeOK, CanEmit
<1>2. ViewAfter(view[s], type, p) \in
        [present : SUBSET Players, online : SUBSET Players, open : BOOLEAN]
  BY ViewType DEF TypeOK
<1> QED
  BY <1>1, <1>2 DEF TypeOK, Emit

LEMMA EmitBothType ==
  ASSUME TypeOK, NEW s \in Slots, NEW type1, NEW type2, NEW p \in Players,
         CanEmit(s, 2), EmitBoth(s, type1, type2, p)
  PROVE  /\ nextSequence' \in [Slots -> 1..MaxSequence]
         /\ view' \in [Slots -> [present : SUBSET Players, online : SUBSET Players,
                               open : BOOLEAN]]
<1>1. nextSequence[s] + 2 \in 1..MaxSequence
  BY MaxSequenceAssumption DEF TypeOK, CanEmit
<1>2. ViewAfter(ViewAfter(view[s], type1, p), type2, p) \in
        [present : SUBSET Players, online : SUBSET Players, open : BOOLEAN]
  BY ViewType DEF TypeOK
<1> QED
  BY <1>1, <1>2 DEF TypeOK, EmitBoth

\* Replacing one member slot, or all of one party's, by members.
LEMMA OneMemberType ==
  ASSUME TypeOK, NEW s \in Slots, NEW p \in Players, NEW m \in Member
  PROVE  [members EXCEPT ![s][p] = m] \in [Slots -> [Players -> Member]]
<1>1. [members[s] EXCEPT ![p] = m] \in [Players -> Member]
  BY DEF TypeOK
<1> QED
  BY <1>1 DEF TypeOK

LEMMA AllMembersType ==
  ASSUME TypeOK, NEW s \in Slots, NEW ms \in [Players -> Member]
  PROVE  [members EXCEPT ![s] = ms] \in [Slots -> [Players -> Member]]
  BY DEF TypeOK

LEMMA VacatedType == Vacated \in [Players -> Member]
  BY NoMemberType DEF Vacated

LEMMA SessionHandleType ==
  ASSUME TypeOK, NEW s \in Slots, NEW p \in Players
  PROVE  members[s][p] \in Member /\ members[s][p].sessionHandle \in SessionHandle
  BY DEF TypeOK, Member

LEMMA ResetSlotType ==
  ASSUME TypeOK, NEW s \in Slots, NEW c \in Codes \cup {NoCode}, ResetSlot(s, c),
         nextPartyGeneration < MaxGeneration
  PROVE  /\ joinCode' \in [Slots -> Codes \cup {NoCode}]
         /\ activity' \in [Slots -> Activities]
         /\ locked' \in [Slots -> BOOLEAN]
         /\ generation' \in [Slots -> 0..MaxGeneration]
         /\ nextPartyGeneration' \in 1..MaxGeneration
  BY MaxGenerationAssumption DEF TypeOK, ResetSlot, Activities

LEMMA CreatePartyType ==
  ASSUME IInv, NEW c \in Codes, CreateParty(c)
  PROVE  TypeOK'
<1> DEFINE s == FirstOf(VacantSlots)
           started == Initialized(session[s])
           host == NewMember(nextMemberGeneration, tokensDrawn + 1, SessionJoinHandle(started))
<1>1. s \in Slots
  BY VacantSlot DEF CreateParty, CanCreate
<1>2. started \in Session /\ SessionCanJoin(started)
  BY <1>1, InitializedType DEF IInv, TypeOK, CreateParty
<1>3. SessionJoined(started) \in Session /\ SessionJoinHandle(started) \in SessionHandle
  BY <1>2, JoinedType
<1>4. nextMemberGeneration \in 1..MaxGeneration /\ nextMemberGeneration < MaxGeneration
      /\ tokensDrawn + 1 = nextMemberGeneration
  BY DEF CreateParty, CanCreate, IInv, TypeOK, Numbered
<1>5. host \in Member
  BY <1>3, <1>4, NewMemberType
<1>6. [Vacated EXCEPT ![Host] = host] \in [Players -> Member]
  BY <1>5, VacatedType
<1>7. ViewAfter(NoView, "PartyCreated", Host) \in
        [present : SUBSET Players, online : SUBSET Players, open : BOOLEAN]
  BY ViewType, HostIsPlayer DEF NoView
<1>8. ResetSlot(s, c) /\ nextPartyGeneration < MaxGeneration
  BY DEF CreateParty, CanCreate
<1>9. /\ session' = [session EXCEPT ![s] = SessionJoined(started)]
      /\ members' = [members EXCEPT ![s] = [Vacated EXCEPT ![Host] = host]]
      /\ nextMemberGeneration' = nextMemberGeneration + 1
      /\ tokensDrawn' = tokensDrawn + 1
      /\ state' = [state EXCEPT ![s] = "Active"]
      /\ nextSequence' = [nextSequence EXCEPT ![s] = 2]
      /\ view' = [view EXCEPT ![s] = ViewAfter(NoView, "PartyCreated", Host)]
      /\ UNCHANGED ended
  BY DEF CreateParty
<1> HIDE DEF s, started, host
<1>10. members' \in [Slots -> [Players -> Member]]
  BY <1>1, <1>6, <1>9, AllMembersType DEF IInv
<1>11. nextSequence' \in [Slots -> 1..MaxSequence]
  <2>1. 2 \in 1..MaxSequence /\ nextSequence \in [Slots -> 1..MaxSequence]
    BY MaxSequenceAssumption DEF IInv, TypeOK
  <2> QED
    BY <2>1, <1>9
<1>12. view' \in [Slots -> [present : SUBSET Players, online : SUBSET Players, open : BOOLEAN]]
  BY <1>7, <1>9 DEF IInv, TypeOK
<1>13. session' \in [Slots -> Session] /\ state' \in [Slots -> {"Empty", "Active", "Closed"}]
  BY <1>3, <1>9 DEF IInv, TypeOK
<1>14. tokensDrawn' \in 0..MaxTokens /\ nextMemberGeneration' \in 1..MaxGeneration
  <2>1. tokensDrawn' = nextMemberGeneration
    BY <1>4, <1>9
  <2> QED
    BY <2>1, <1>4, <1>9, MaxGenerationAssumption DEF MaxTokens
<1> QED
  BY <1>1, <1>8, <1>9, <1>10, <1>11, <1>12, <1>13, <1>14, ResetSlotType DEF IInv, TypeOK

LEMMA CreatePartyFailsType ==
  ASSUME IInv, NEW c \in Codes, CreatePartyFails(c)
  PROVE  TypeOK'
<1> DEFINE s == FirstOf(VacantSlots)
           started == Initialized(session[s])
<1>1. s \in Slots
  BY VacantSlot DEF CreatePartyFails, CanCreate
<1>2. started \in Session
  BY <1>1, InitializedType DEF IInv, TypeOK
<1>3. ResetSlot(s, NoCode) /\ nextPartyGeneration < MaxGeneration
  BY DEF CreatePartyFails, CanCreate
<1>4. /\ session' = session \/ session' = [session EXCEPT ![s] = started]
      /\ members' = [members EXCEPT ![s] = Vacated]
      /\ state' = [state EXCEPT ![s] = "Empty"]
      /\ nextSequence' = [nextSequence EXCEPT ![s] = 1]
      /\ view' = [view EXCEPT ![s] = NoView]
      /\ UNCHANGED <<nextMemberGeneration, tokensDrawn, ended>>
  BY DEF CreatePartyFails
<1> HIDE DEF s, started
<1>5. members' \in [Slots -> [Players -> Member]]
  BY <1>1, <1>4, VacatedType, AllMembersType DEF IInv
<1>6. session' \in [Slots -> Session]
  BY <1>1, <1>2, <1>4 DEF IInv, TypeOK
<1>7. nextSequence' \in [Slots -> 1..MaxSequence]
  <2>1. 1 \in 1..MaxSequence /\ nextSequence \in [Slots -> 1..MaxSequence]
    BY MaxSequenceAssumption DEF IInv, TypeOK
  <2> QED
    BY <2>1, <1>4
<1>8. view' \in [Slots -> [present : SUBSET Players, online : SUBSET Players, open : BOOLEAN]]
  BY <1>4 DEF NoView, IInv, TypeOK
<1> QED
  BY <1>1, <1>3, <1>4, <1>5, <1>6, <1>7, <1>8, ResetSlotType DEF IInv, TypeOK

LEMMA JoinPartyType ==
  ASSUME IInv, NEW s \in Slots, JoinParty(s)
  PROVE  TypeOK'
<1> DEFINE p == FirstOf(Players \ Occupied(s))
           m == NewMember(nextMemberGeneration, tokensDrawn + 1, SessionJoinHandle(session[s]))
<1>1. p \in Players
  BY FirstOfExists, PlayersFinite DEF JoinParty
<1>2. SessionJoined(session[s]) \in Session /\ SessionJoinHandle(session[s]) \in SessionHandle
  BY JoinedType DEF IInv, TypeOK, JoinParty
<1>3. nextMemberGeneration \in 1..MaxGeneration /\ nextMemberGeneration < MaxGeneration
      /\ tokensDrawn + 1 = nextMemberGeneration
  BY DEF JoinParty, IInv, TypeOK, Numbered
<1>4. m \in Member
  BY <1>2, <1>3, NewMemberType
<1>5. CanEmit(s, 1) /\ Emit(s, "MemberJoined", p)
  BY DEF JoinParty
<1>6. /\ session' = [session EXCEPT ![s] = SessionJoined(@)]
      /\ members' = [members EXCEPT ![s][p] = m]
      /\ nextMemberGeneration' = nextMemberGeneration + 1
      /\ tokensDrawn' = tokensDrawn + 1
      /\ UNCHANGED <<state, generation, joinCode, activity, locked, nextPartyGeneration, ended>>
  BY DEF JoinParty
<1> HIDE DEF p, m
<1>7. members' \in [Slots -> [Players -> Member]]
  BY <1>1, <1>4, <1>6, OneMemberType DEF IInv
<1>8. tokensDrawn' \in 0..MaxTokens /\ nextMemberGeneration' \in 1..MaxGeneration
  <2>1. tokensDrawn' = nextMemberGeneration
    BY <1>3, <1>6
  <2> QED
    BY <2>1, <1>3, <1>6, MaxGenerationAssumption DEF MaxTokens
<1> QED
  BY <1>1, <1>2, <1>5, <1>6, <1>7, <1>8, EmitType DEF IInv, TypeOK

LEMMA DisconnectType ==
  ASSUME IInv, NEW c \in Credential, Disconnect(c)
  PROVE  TypeOK'
<1> DEFINE s == c.slot
           p == c.player
           m == members[s][p]
           gone == [m EXCEPT !.connected = FALSE, !.participating = FALSE,
                             !.location = "DISCONNECTED"]
<1>1. s \in Slots /\ p \in Players
  BY DEF Credential
<1>2. m \in Member /\ m.sessionHandle \in SessionHandle
  BY <1>1, SessionHandleType DEF IInv
<1>3. gone \in Member
  BY <1>2 DEF Member, Locations
<1>4. session[s] \in Session /\ SessionCanDisconnect(session[s], m.sessionHandle)
  BY <1>1 DEF IInv, TypeOK, Disconnect
<1>5. SessionDisconnected(session[s], m.sessionHandle) \in Session
  BY <1>2, <1>4, DisconnectedType
<1>6. /\ CanEmit(s, 1) /\ Emit(s, "MemberDisconnected", p)
      /\ session' = [session EXCEPT ![s] = SessionDisconnected(@, m.sessionHandle)]
      /\ members' = [members EXCEPT ![s][p] = gone]
      /\ UNCHANGED <<state, generation, joinCode, activity, locked, counters, ended>>
  BY DEF Disconnect
<1> HIDE DEF s, p, m, gone
<1>7. members' \in [Slots -> [Players -> Member]]
  BY <1>1, <1>3, <1>6, OneMemberType DEF IInv
<1> QED
  BY <1>1, <1>5, <1>6, <1>7, EmitType DEF IInv, TypeOK, counters

LEMMA ReconnectType ==
  ASSUME IInv, NEW c \in Credential, Reconnect(c)
  PROVE  TypeOK'
<1> DEFINE s == c.slot
           p == c.player
           m == members[s][p]
           back == Returned(m, activity[s])
<1>1. s \in Slots /\ p \in Players
  BY DEF Credential
<1>2. m \in Member /\ m.sessionHandle \in SessionHandle
  BY <1>1, SessionHandleType DEF IInv
<1>3. back \in Member
  BY <1>2 DEF Member, Locations, Returned
<1>4. session[s] \in Session /\ SessionCanReconnect(session[s], m.sessionHandle)
  BY <1>1 DEF IInv, TypeOK, Reconnect
<1>5. SessionReconnected(session[s], m.sessionHandle) \in Session
  BY <1>2, <1>4, ReconnectedType
<1>6. /\ CanEmit(s, 1) /\ Emit(s, "MemberReconnected", p)
      /\ session' = [session EXCEPT ![s] = SessionReconnected(@, m.sessionHandle)]
      /\ members' = [members EXCEPT ![s][p] = back]
      /\ UNCHANGED <<state, generation, joinCode, activity, locked, counters, ended>>
  BY DEF Reconnect
<1> HIDE DEF s, p, m, back
<1>7. members' \in [Slots -> [Players -> Member]]
  BY <1>1, <1>3, <1>6, OneMemberType DEF IInv
<1> QED
  BY <1>1, <1>5, <1>6, <1>7, EmitType DEF IInv, TypeOK, counters

\* What closeInternal does to everything but the history, whatever the
\* session's state before it.
LEMMA CloseInternalType ==
  ASSUME IInv, NEW s \in Slots, NEW before \in Session, NEW staying \in SUBSET Players,
         CloseInternal(s, before, staying), state[s] = "Active"
  PROVE  /\ session' \in [Slots -> Session]
         /\ members' \in [Slots -> [Players -> Member]]
         /\ state' \in [Slots -> {"Empty", "Active", "Closed"}]
         /\ locked' \in [Slots -> BOOLEAN]
         /\ ended' \subseteq Credential
         /\ UNCHANGED <<generation, joinCode, activity, nextPartyGeneration,
                        nextMemberGeneration, tokensDrawn>>
<1> DEFINE handles == {members[s][p].sessionHandle : p \in staying}
<1>1. IsFiniteSet(handles)
  <2>1. IsFiniteSet(staying)
    BY PlayersFinite, FS_Subset
  <2> DEFINE f == [p \in staying |-> members[s][p].sessionHandle]
  <2>2. f \in Surjection(staying, handles)
    BY DEF Surjection
  <2> QED
    BY <2>1, <2>2, FS_Surjection
<1>2. SessionAllLeft(before, handles) \in Session
  BY <1>1, AllLeftType
<1>3. session' = [session EXCEPT ![s] = SessionAllLeft(before, handles)]
  BY DEF CloseInternal
<1> HIDE DEF handles
<1>4. session' \in [Slots -> Session]
  BY <1>2, <1>3 DEF IInv, TypeOK
<1>5. members' \in [Slots -> [Players -> Member]]
  BY VacatedType, AllMembersType DEF CloseInternal, IInv
<1>6. \A p \in Occupied(s) : Membership(s, p) \in Credential
  BY MembershipType DEF Occupied
<1>7. ended' \subseteq Credential
  BY <1>6 DEF CloseInternal, IInv, TypeOK
<1> QED
  BY <1>4, <1>5, <1>7 DEF CloseInternal, IInv, TypeOK, counters

LEMMA LeaveType ==
  ASSUME IInv, NEW c \in Credential, Leave(c)
  PROVE  TypeOK'
<1> DEFINE s == c.slot
           p == c.player
           m == members[s][p]
           left == SessionLeft(session[s], m.sessionHandle)
<1>1. s \in Slots /\ p \in Players /\ state[s] = "Active" /\ m.occupied
  BY DEF Credential, Leave, ValidMember, ValidParty
<1>2. m.sessionHandle \in SessionHandle /\ session[s] \in Session
  BY <1>1, SessionHandleType DEF IInv, TypeOK
<1>3. left \in Session
  BY <1>2, LeftType DEF Leave
<1>4. \/ /\ CanEmit(s, 2)
         /\ EmitBoth(s, DepartureEvent, "PartyClosed", p)
         /\ CloseInternal(s, left, Occupied(s) \ {p})
      \/ /\ CanEmit(s, 1)
         /\ Emit(s, DepartureEvent, p)
         /\ session' = [session EXCEPT ![s] = left]
         /\ members' = [members EXCEPT ![s][p] = NoMember]
         /\ ended' = ended \cup {Membership(s, p)}
         /\ UNCHANGED <<state, generation, joinCode, activity, locked, counters>>
  BY DEF Leave
<1>5. Occupied(s) \ {p} \in SUBSET Players
  BY DEF Occupied
<1>6. Membership(s, p) \in Credential
  BY <1>1, MembershipType
<1> HIDE DEF s, p, m, left
<1>7. CASE CloseInternal(s, left, Occupied(s) \ {p}) /\ CanEmit(s, 2)
             /\ EmitBoth(s, DepartureEvent, "PartyClosed", p)
  BY <1>1, <1>3, <1>5, <1>7, EmitBothType, CloseInternalType DEF IInv, TypeOK
<1>8. CASE /\ CanEmit(s, 1)
           /\ Emit(s, DepartureEvent, p)
           /\ session' = [session EXCEPT ![s] = left]
           /\ members' = [members EXCEPT ![s][p] = NoMember]
           /\ ended' = ended \cup {Membership(s, p)}
           /\ UNCHANGED <<state, generation, joinCode, activity, locked, counters>>
  <2>1. members' \in [Slots -> [Players -> Member]]
    BY <1>1, <1>8, NoMemberType, OneMemberType DEF IInv
  <2> QED
    BY <1>1, <1>3, <1>6, <1>8, <2>1, EmitType DEF IInv, TypeOK, counters
<1> QED
  BY <1>4, <1>7, <1>8

LEMMA ClosePartyType ==
  ASSUME IInv, NEW c \in Credential, CloseParty(c)
  PROVE  TypeOK'
<1>1. c.slot \in Slots /\ c.player \in Players /\ state[c.slot] = "Active"
  BY DEF Credential, CloseParty, ValidMember, ValidParty
<1>2. session[c.slot] \in Session /\ Occupied(c.slot) \in SUBSET Players
  BY <1>1 DEF IInv, TypeOK, Occupied
<1>3. /\ CanEmit(c.slot, 1) /\ Emit(c.slot, "PartyClosed", c.player)
      /\ CloseInternal(c.slot, session[c.slot], Occupied(c.slot))
  BY DEF CloseParty
<1> QED
  BY <1>1, <1>2, <1>3, EmitType, CloseInternalType DEF IInv, TypeOK

LEMMA SetLockedType ==
  ASSUME IInv, NEW c \in Credential, SetLocked(c)
  PROVE  TypeOK'
<1>1. c.slot \in Slots /\ c.player \in Players
  BY DEF Credential
<1>2. CanEmit(c.slot, 1)
      /\ Emit(c.slot, IF locked[c.slot] THEN "PartyUnlocked" ELSE "PartyLocked", c.player)
  BY DEF SetLocked
<1>3. locked' \in [Slots -> BOOLEAN]
  BY <1>1 DEF SetLocked, IInv, TypeOK
<1> QED
  BY <1>1, <1>2, <1>3, EmitType DEF SetLocked, IInv, TypeOK, counters

LEMMA StartActivityType ==
  ASSUME IInv, NEW c \in Credential, NEW act \in {"Forest", "Dungeon"},
         StartActivity(c, act)
  PROVE  TypeOK'
<1> DEFINE Out(m) == [m EXCEPT !.participating = TRUE,
                               !.location = IF act = "Forest" THEN "FOREST" ELSE "DUNGEON"]
           ms == [p \in Players |-> IF p \in Connected(c.slot)
                                      THEN Out(members[c.slot][p]) ELSE members[c.slot][p]]
<1>1. c.slot \in Slots /\ c.player \in Players
  BY DEF Credential
<1>2. \A p \in Players : Out(members[c.slot][p]) \in Member /\ members[c.slot][p] \in Member
  <2>1. \A p \in Players : members[c.slot][p] \in Member
    BY <1>1 DEF IInv, TypeOK
  <2>2. \A m \in Member : Out(m) \in Member
    BY DEF Member, Locations
  <2> QED
    BY <2>1, <2>2
<1>3. ms \in [Players -> Member]
  BY <1>2
<1>4. members' = [members EXCEPT ![c.slot] = ms]
  BY DEF StartActivity
<1> HIDE DEF ms
<1>5. members' \in [Slots -> [Players -> Member]]
  BY <1>1, <1>3, <1>4, AllMembersType DEF IInv
<1>6. activity' \in [Slots -> Activities]
  BY DEF StartActivity, IInv, TypeOK, Activities
<1>7. CanEmit(c.slot, 2) /\ EmitBoth(c.slot, "ActivityStarting", "ActivityStarted", c.player)
  BY DEF StartActivity
<1> QED
  BY <1>1, <1>5, <1>6, <1>7, EmitBothType DEF StartActivity, IInv, TypeOK, counters

LEMMA UpdateMemberType ==
  ASSUME IInv, NEW c \in Credential, NEW location \in {"TOWN", "FOREST", "DUNGEON"},
         UpdateMember(c, location)
  PROVE  TypeOK'
<1> DEFINE m == [members[c.slot][c.player] EXCEPT !.location = location]
<1>1. c.slot \in Slots /\ c.player \in Players
  BY DEF Credential
<1>2. m \in Member
  <2>1. members[c.slot][c.player] \in Member
    BY <1>1 DEF IInv, TypeOK
  <2> QED
    BY <2>1 DEF Member, Locations
<1>3. members' = [members EXCEPT ![c.slot][c.player] = m]
  BY DEF UpdateMember
<1> HIDE DEF m
<1>4. members' \in [Slots -> [Players -> Member]]
  BY <1>1, <1>2, <1>3, OneMemberType DEF IInv
<1> QED
  BY <1>4 DEF UpdateMember, IInv, TypeOK, counters

LEMMA ReturnToTownType ==
  ASSUME IInv, NEW c \in Credential, ReturnToTown(c)
  PROVE  TypeOK'
<1> DEFINE ms == [p \in Players |-> Rested(members[c.slot][p])]
<1>1. c.slot \in Slots
  BY DEF Credential
<1>2. \A p \in Players : Rested(members[c.slot][p]) \in Member
  <2>1. \A p \in Players : members[c.slot][p] \in Member
    BY <1>1 DEF IInv, TypeOK
  <2> QED
    BY <2>1 DEF Member, Rested
<1>3. ms \in [Players -> Member]
  BY <1>2
<1>4. members' = [members EXCEPT ![c.slot] = ms]
  BY DEF ReturnToTown
<1> HIDE DEF ms
<1>5. members' \in [Slots -> [Players -> Member]]
  BY <1>1, <1>3, <1>4, AllMembersType DEF IInv
<1> QED
  BY <1>5 DEF ReturnToTown, IInv, TypeOK, counters, Activities

\* Every step keeps the types.
LEMMA NextType ==
  ASSUME IInv, Next
  PROVE  TypeOK'
<1>1. CASE \E code \in Codes : CreateParty(code) \/ CreatePartyFails(code)
  BY <1>1, CreatePartyType, CreatePartyFailsType
<1>2. CASE \E s \in Slots : JoinParty(s)
  BY <1>2, JoinPartyType
<1>3. ASSUME NEW c \in Issued,
             \/ Disconnect(c) \/ Reconnect(c) \/ Leave(c)
             \/ CloseParty(c) \/ SetLocked(c) \/ ReturnToTown(c)
             \/ \E act \in {"Forest", "Dungeon"} : StartActivity(c, act)
             \/ \E location \in {"TOWN", "FOREST", "DUNGEON"} : UpdateMember(c, location)
      PROVE  TypeOK'
  <2>1. c \in Credential
    BY IssuedType
  <2> QED
    BY <1>3, <2>1, DisconnectType, ReconnectType, LeaveType, ClosePartyType,
       SetLockedType, ReturnToTownType, StartActivityType, UpdateMemberType
<1> QED
  BY <1>1, <1>2, <1>3 DEF Next

-----------------------------------------------------------------------------
(* The rest of the inductive invariant *)

\* A step that neither starts nor ends a membership or a party.
SameRoster ==
  /\ \A s \in Slots, p \in Players :
       /\ members'[s][p].occupied = members[s][p].occupied
       /\ members'[s][p].generation = members[s][p].generation
       /\ members'[s][p].token = members[s][p].token
  /\ \A s \in Slots : state[s] # "Active" => locked'[s] = locked[s]
  /\ UNCHANGED <<state, generation, nextPartyGeneration, nextMemberGeneration,
                 tokensDrawn, ended>>

LEMMA SameRosterIInv ==
  ASSUME IInv, TypeOK', SameRoster
  PROVE  IInv'
<1>1. Numbered'
  BY DEF IInv, Numbered, SameRoster
<1>2. Seated'
  BY HostIsPlayer DEF IInv, Seated, SameRoster
<1>3. Distinct'
  BY DEF IInv, Distinct, SameRoster
<1>4. Spent'
  BY DEF IInv, Spent, SameRoster
<1> QED
  BY <1>1, <1>2, <1>3, <1>4 DEF IInv

\* Rewriting a member without touching what identifies it.
LEMMA OneMemberSameRoster ==
  ASSUME TypeOK, NEW s \in Slots, NEW p \in Players, NEW m,
         m.occupied = members[s][p].occupied,
         m.generation = members[s][p].generation,
         m.token = members[s][p].token,
         members' = [members EXCEPT ![s][p] = m]
  PROVE  \A t \in Slots, q \in Players :
           /\ members'[t][q].occupied = members[t][q].occupied
           /\ members'[t][q].generation = members[t][q].generation
           /\ members'[t][q].token = members[t][q].token
<1> SUFFICES ASSUME NEW t \in Slots, NEW q \in Players
             PROVE  members'[t][q] = IF t = s /\ q = p THEN m ELSE members[t][q]
  OBVIOUS
<1>1. members[s] \in [Players -> Member] /\ members \in [Slots -> [Players -> Member]]
  BY DEF TypeOK
<1> QED
  BY <1>1

LEMMA DisconnectIInv ==
  ASSUME IInv, NEW c \in Credential, Disconnect(c)
  PROVE  IInv'
<1> DEFINE m == members[c.slot][c.player]
           gone == [m EXCEPT !.connected = FALSE, !.participating = FALSE,
                             !.location = "DISCONNECTED"]
<1>1. c.slot \in Slots /\ c.player \in Players
  BY DEF Credential
<1>2. m \in Member
  BY <1>1 DEF IInv, TypeOK
<1>3. gone.occupied = m.occupied /\ gone.generation = m.generation /\ gone.token = m.token
  BY <1>2 DEF Member
<1>4. members' = [members EXCEPT ![c.slot][c.player] = gone]
  BY DEF Disconnect
<1> HIDE DEF gone
<1>5. SameRoster
  BY <1>1, <1>3, <1>4, OneMemberSameRoster DEF IInv, SameRoster, Disconnect, counters
<1> QED
  BY <1>5, DisconnectType, SameRosterIInv

LEMMA ReconnectIInv ==
  ASSUME IInv, NEW c \in Credential, Reconnect(c)
  PROVE  IInv'
<1> DEFINE m == members[c.slot][c.player]
           back == Returned(m, activity[c.slot])
<1>1. c.slot \in Slots /\ c.player \in Players
  BY DEF Credential
<1>2. m \in Member
  BY <1>1 DEF IInv, TypeOK
<1>3. back.occupied = m.occupied /\ back.generation = m.generation /\ back.token = m.token
  BY <1>2 DEF Member, Returned
<1>4. members' = [members EXCEPT ![c.slot][c.player] = back]
  BY DEF Reconnect
<1>5. UNCHANGED <<state, generation, locked, nextPartyGeneration, nextMemberGeneration,
                  tokensDrawn, ended>>
  BY DEF Reconnect, counters
<1> HIDE DEF back
<1>6. SameRoster
  BY <1>1, <1>3, <1>4, <1>5, OneMemberSameRoster DEF IInv, SameRoster
<1> QED
  BY <1>6, ReconnectType, SameRosterIInv

LEMMA UpdateMemberIInv ==
  ASSUME IInv, NEW c \in Credential, NEW location \in {"TOWN", "FOREST", "DUNGEON"},
         UpdateMember(c, location)
  PROVE  IInv'
<1> DEFINE m == members[c.slot][c.player]
           moved == [m EXCEPT !.location = location]
<1>1. c.slot \in Slots /\ c.player \in Players
  BY DEF Credential
<1>2. m \in Member
  BY <1>1 DEF IInv, TypeOK
<1>3. moved.occupied = m.occupied /\ moved.generation = m.generation /\ moved.token = m.token
  BY <1>2 DEF Member
<1>4. members' = [members EXCEPT ![c.slot][c.player] = moved]
  BY DEF UpdateMember
<1> HIDE DEF moved
<1>5. SameRoster
  BY <1>1, <1>3, <1>4, OneMemberSameRoster DEF IInv, SameRoster, UpdateMember, counters
<1> QED
  BY <1>5, UpdateMemberType, SameRosterIInv

LEMMA SetLockedIInv ==
  ASSUME IInv, NEW c \in Credential, SetLocked(c)
  PROVE  IInv'
<1>1. c.slot \in Slots /\ state[c.slot] = "Active"
  BY DEF Credential, SetLocked, ValidMember, ValidParty
<1>2. SameRoster
  BY <1>1 DEF SameRoster, SetLocked, counters, IInv, TypeOK
<1> QED
  BY <1>2, SetLockedType, SameRosterIInv

LEMMA StartActivityIInv ==
  ASSUME IInv, NEW c \in Credential, NEW act \in {"Forest", "Dungeon"},
         StartActivity(c, act)
  PROVE  IInv'
<1> DEFINE Out(m) == [m EXCEPT !.participating = TRUE,
                               !.location = IF act = "Forest" THEN "FOREST" ELSE "DUNGEON"]
<1>1. c.slot \in Slots
  BY DEF Credential
<1>2. \A m \in Member : /\ Out(m).occupied = m.occupied
                        /\ Out(m).generation = m.generation
                        /\ Out(m).token = m.token
  BY DEF Member
<1>3. members' = [members EXCEPT ![c.slot] = [p \in Players |->
        IF p \in Connected(c.slot) THEN Out(members[c.slot][p]) ELSE members[c.slot][p]]]
  BY DEF StartActivity
<1>4. \A s \in Slots, p \in Players :
        \/ members'[s][p] = members[s][p]
        \/ members'[s][p] = Out(members[s][p])
  BY <1>1, <1>3 DEF IInv, TypeOK
<1>5. \A s \in Slots, p \in Players : members[s][p] \in Member
  BY DEF IInv, TypeOK
<1> HIDE DEF Out
<1>6. SameRoster
  BY <1>2, <1>4, <1>5 DEF SameRoster, StartActivity, counters
<1> QED
  BY <1>6, StartActivityType, SameRosterIInv

LEMMA ReturnToTownIInv ==
  ASSUME IInv, NEW c \in Credential, ReturnToTown(c)
  PROVE  IInv'
<1>1. c.slot \in Slots /\ state[c.slot] = "Active"
  BY DEF Credential, ReturnToTown, ValidMember, ValidParty
<1>2. \A m \in Member : /\ Rested(m).occupied = m.occupied
                        /\ Rested(m).generation = m.generation
                        /\ Rested(m).token = m.token
  BY DEF Member, Rested
<1>3. \A s \in Slots, p \in Players :
        \/ members'[s][p] = members[s][p]
        \/ members'[s][p] = Rested(members[s][p])
  BY <1>1 DEF ReturnToTown, IInv, TypeOK
<1>4. \A s \in Slots, p \in Players : members[s][p] \in Member
  BY DEF IInv, TypeOK
<1>5. \A s \in Slots : state[s] # "Active" => locked'[s] = locked[s]
  BY <1>1 DEF ReturnToTown, IInv, TypeOK
<1>6. SameRoster
  BY <1>2, <1>3, <1>4, <1>5 DEF SameRoster, ReturnToTown, counters
<1> QED
  BY <1>6, ReturnToTownType, SameRosterIInv


\* Whoever is a member of slot s, player p after the step was that member before.
Stays(s, p) ==
  members'[s][p].occupied =>
    /\ members[s][p].occupied
    /\ members'[s][p].generation = members[s][p].generation
    /\ members'[s][p].token = members[s][p].token

\* What the invariant says of the members of all slots together.
Ranged ==
  \A s \in Slots, p \in Players : members[s][p].occupied =>
    /\ members[s][p].generation \in 1..(nextMemberGeneration - 1)
    /\ members[s][p].token \in 1..tokensDrawn

\* A step that adds no member, and records the end of those it removes.
LEMMA RemovalKeeps ==
  ASSUME IInv,
         \A s \in Slots, p \in Players : Stays(s, p),
         UNCHANGED <<nextMemberGeneration, tokensDrawn>>,
         \A c \in ended' : \/ c \in ended
                           \/ \E s \in Slots, p \in Players :
                                /\ members[s][p].occupied
                                /\ ~members'[s][p].occupied
                                /\ c = Membership(s, p)
  PROVE  Ranged' /\ Distinct' /\ Spent'
<1>1. Ranged'
  BY DEF IInv, Numbered, Ranged, Stays
<1>2. Distinct'
  BY DEF IInv, Distinct, Stays
<1>3. Spent'
  <2> SUFFICES ASSUME NEW c \in ended'
               PROVE  /\ c.member < nextMemberGeneration'
                      /\ c.token <= tokensDrawn'
                      /\ \A s \in Slots, p \in Players : members'[s][p].occupied =>
                           /\ members'[s][p].generation # c.member
                           /\ members'[s][p].token # c.token
    BY DEF Spent
  <2>1. CASE c \in ended
    BY <2>1 DEF IInv, Spent, Stays
  <2>2. CASE c \notin ended
    <3>1. PICK s \in Slots, p \in Players : /\ members[s][p].occupied
                                            /\ ~members'[s][p].occupied
                                            /\ c = Membership(s, p)
      BY <2>2
    <3>2. c.member = members[s][p].generation /\ c.token = members[s][p].token
      BY <3>1 DEF Membership
    <3>3. /\ members[s][p].generation \in 1..(nextMemberGeneration - 1)
          /\ members[s][p].token \in 1..tokensDrawn
      BY <3>1 DEF IInv, Numbered
    <3>4. c.member < nextMemberGeneration' /\ c.token <= tokensDrawn'
      BY <3>2, <3>3 DEF IInv, TypeOK
    <3>5. ASSUME NEW t \in Slots, NEW q \in Players, members'[t][q].occupied
          PROVE  members'[t][q].generation # c.member /\ members'[t][q].token # c.token
      BY <3>1, <3>2, <3>5 DEF IInv, Distinct, Stays
    <3> QED
      BY <3>4, <3>5
  <2> QED
    BY <2>1, <2>2
<1> QED
  BY <1>1, <1>2, <1>3

\* A step that adds one member, with the next generation and a new token.
LEMMA AdditionKeeps ==
  ASSUME IInv, NEW s \in Slots, NEW p \in Players,
         members'[s][p].generation = nextMemberGeneration,
         members'[s][p].token = tokensDrawn + 1,
         \A t \in Slots, q \in Players : (t = s /\ q = p) \/ Stays(t, q),
         nextMemberGeneration' = nextMemberGeneration + 1,
         tokensDrawn' = tokensDrawn + 1,
         UNCHANGED ended
  PROVE  Ranged' /\ Distinct' /\ Spent'
<1>1. nextMemberGeneration \in Nat \ {0} /\ tokensDrawn \in Nat
  BY MaxGenerationAssumption DEF IInv, TypeOK, MaxTokens
<1>2. \A t \in Slots, q \in Players : members[t][q].occupied =>
        /\ members[t][q].generation \in 1..(nextMemberGeneration - 1)
        /\ members[t][q].token \in 1..tokensDrawn
  BY DEF IInv, Numbered
<1>3. Ranged'
  BY <1>1, <1>2 DEF Ranged, Stays
<1>4. Distinct'
  <2> SUFFICES ASSUME NEW t \in Slots, NEW u \in Slots, NEW q \in Players, NEW r \in Players,
                      members'[t][q].occupied, members'[u][r].occupied,
                      \/ members'[t][q].generation = members'[u][r].generation
                      \/ members'[t][q].token = members'[u][r].token
               PROVE  t = u /\ q = r
    BY DEF Distinct
  <2>1. CASE Stays(t, q) /\ Stays(u, r)
    BY <2>1 DEF Stays, IInv, Distinct
  <2>2. CASE (t = s /\ q = p) /\ (u = s /\ r = p)
    BY <2>2
  <2>3. CASE (t = s /\ q = p) /\ Stays(u, r)
    BY <1>1, <1>2, <2>3 DEF Stays
  <2>4. CASE Stays(t, q) /\ (u = s /\ r = p)
    BY <1>1, <1>2, <2>4 DEF Stays
  <2> QED
    BY <2>1, <2>2, <2>3, <2>4
<1>5. Spent'
  <2> SUFFICES ASSUME NEW c \in ended
               PROVE  /\ c.member < nextMemberGeneration'
                      /\ c.token <= tokensDrawn'
                      /\ \A t \in Slots, q \in Players : members'[t][q].occupied =>
                           /\ members'[t][q].generation # c.member
                           /\ members'[t][q].token # c.token
    BY DEF Spent
  <2>1. c.member \in Nat /\ c.token \in Nat
    BY DEF IInv, TypeOK, Credential, MaxTokens
  <2>2. c.member < nextMemberGeneration /\ c.token <= tokensDrawn
    BY DEF IInv, Spent
  <2>3. c.member < nextMemberGeneration' /\ c.token <= tokensDrawn'
    BY <1>1, <2>1, <2>2
  <2>4. ASSUME NEW t \in Slots, NEW q \in Players, members'[t][q].occupied
        PROVE  members'[t][q].generation # c.member /\ members'[t][q].token # c.token
    <3>1. CASE t = s /\ q = p
      BY <1>1, <2>1, <2>2, <3>1
    <3>2. CASE Stays(t, q)
      BY <2>4, <3>2 DEF Stays, IInv, Spent
    <3> QED
      BY <3>1, <3>2
  <2> QED
    BY <2>3, <2>4
<1> QED
  BY <1>3, <1>4, <1>5

\* Numbered is Ranged and what it says of the parties.
LEMMA RangedNumbered ==
  ASSUME Ranged', tokensDrawn' = nextMemberGeneration' - 1,
         \A s \in Slots : /\ generation'[s] < nextPartyGeneration'
                          /\ state'[s] = "Active" => generation'[s] >= 1
  PROVE  Numbered'
  BY DEF Ranged, Numbered

\* members with one slot's roster replaced.
LEMMA SlotReplaced ==
  ASSUME TypeOK, NEW s \in Slots, NEW ms, members' = [members EXCEPT ![s] = ms]
  PROVE  \A t \in Slots : members'[t] = IF t = s THEN ms ELSE members[t]
  BY DEF TypeOK

\* resetSlot leaves the slot with a generation of its own.
LEMMA ResetSlotNumbered ==
  ASSUME IInv, NEW s \in Slots, NEW c, ResetSlot(s, c)
  PROVE  \A t \in Slots : /\ generation'[t] < nextPartyGeneration'
                          /\ generation'[t] >= generation[t]
                          /\ t = s => generation'[t] >= 1
<1>1. /\ generation' = [generation EXCEPT ![s] = nextPartyGeneration]
      /\ nextPartyGeneration' = nextPartyGeneration + 1
  BY DEF ResetSlot
<1>2. /\ generation \in [Slots -> 0..MaxGeneration]
      /\ nextPartyGeneration \in 1..MaxGeneration
      /\ \A t \in Slots : generation[t] < nextPartyGeneration
  BY DEF IInv, TypeOK, Numbered
<1>3. \A t \in Slots : generation'[t] = IF t = s THEN nextPartyGeneration ELSE generation[t]
  BY <1>1, <1>2
<1>4. \A t \in Slots : generation[t] \in Nat
  BY <1>2, MaxGenerationAssumption
<1>5. nextPartyGeneration \in Nat \ {0}
  BY <1>2, MaxGenerationAssumption
<1> QED
  BY <1>1, <1>2, <1>3, <1>4, <1>5


LEMMA CreatePartyIInv ==
  ASSUME IInv, NEW c \in Codes, CreateParty(c)
  PROVE  IInv'
<1> DEFINE s == FirstOf(VacantSlots)
           host == NewMember(nextMemberGeneration, tokensDrawn + 1,
                             SessionJoinHandle(Initialized(session[s])))
           ms == [Vacated EXCEPT ![Host] = host]
<1>1. s \in Slots /\ state[s] # "Active"
  BY VacantSlot DEF CreateParty, CanCreate
<1>2. /\ ResetSlot(s, c)
      /\ members' = [members EXCEPT ![s] = ms]
      /\ nextMemberGeneration' = nextMemberGeneration + 1
      /\ tokensDrawn' = tokensDrawn + 1
      /\ state' = [state EXCEPT ![s] = "Active"]
      /\ UNCHANGED ended
  BY DEF CreateParty
<1>3. /\ host.occupied
      /\ host.generation = nextMemberGeneration
      /\ host.token = tokensDrawn + 1
  BY DEF NewMember
<1>4. ms[Host] = host /\ \A p \in Players : p # Host => ~ms[p].occupied
  BY HostIsPlayer DEF Vacated, NoMember
<1> HIDE DEF s, host, ms
<1>5. \A t \in Slots : members'[t] = IF t = s THEN ms ELSE members[t]
  BY <1>1, <1>2, SlotReplaced DEF IInv
<1>6. \A t \in Slots, q \in Players : (t = s /\ q = Host) \/ Stays(t, q)
  BY <1>4, <1>5 DEF Stays
<1>7. members'[s][Host] = host
  BY <1>1, <1>4, <1>5
<1>8. Ranged' /\ Distinct' /\ Spent'
  BY <1>1, <1>2, <1>3, <1>6, <1>7, HostIsPlayer, AdditionKeeps
<1>9. \A t \in Slots : state'[t] = IF t = s THEN "Active" ELSE state[t]
  BY <1>2 DEF IInv, TypeOK
<1>10. Numbered'
  <2>1. \A t \in Slots : generation'[t] < nextPartyGeneration' /\ generation'[t] >= generation[t]
                         /\ (t = s => generation'[t] >= 1)
    BY <1>1, <1>2, ResetSlotNumbered
  <2>2. \A t \in Slots : state'[t] = "Active" => generation'[t] >= 1
    <3> SUFFICES ASSUME NEW t \in Slots, t # s, state[t] = "Active" PROVE generation'[t] >= 1
      BY <1>9, <2>1
    <3>1. generation[t] >= 1 /\ generation[t] \in Nat
      BY DEF IInv, Numbered, TypeOK
    <3>2. generation'[t] \in Nat
      BY CreatePartyType DEF TypeOK
    <3> QED
      BY <2>1, <3>1, <3>2
  <2>3. tokensDrawn' = nextMemberGeneration' - 1
    BY <1>2, MaxGenerationAssumption DEF IInv, Numbered, TypeOK
  <2> QED
    BY <1>8, <2>1, <2>2, <2>3, RangedNumbered
<1>11. Seated'
  <2>1. \A t \in Slots : locked'[t] = IF t = s THEN FALSE ELSE locked[t]
    BY <1>2 DEF ResetSlot, IInv, TypeOK
  <2>2. \A t \in Slots : t # s => members'[t] = members[t]
    BY <1>5
  <2> QED
    BY <1>3, <1>7, <1>9, <2>1, <2>2, HostIsPlayer DEF IInv, Seated
<1> QED
  BY <1>8, <1>10, <1>11, CreatePartyType DEF IInv

LEMMA CreatePartyFailsIInv ==
  ASSUME IInv, NEW c \in Codes, CreatePartyFails(c)
  PROVE  IInv'
<1> DEFINE s == FirstOf(VacantSlots)
<1>1. s \in Slots /\ state[s] # "Active"
  BY VacantSlot DEF CreatePartyFails, CanCreate
<1>2. /\ ResetSlot(s, NoCode)
      /\ members' = [members EXCEPT ![s] = Vacated]
      /\ state' = [state EXCEPT ![s] = "Empty"]
      /\ UNCHANGED <<nextMemberGeneration, tokensDrawn, ended>>
  BY DEF CreatePartyFails
<1>3. \A p \in Players : ~Vacated[p].occupied
  BY DEF Vacated, NoMember
<1> HIDE DEF s
<1>4. \A t \in Slots : members'[t] = IF t = s THEN Vacated ELSE members[t]
  BY <1>1, <1>2, SlotReplaced DEF IInv
<1>5. \A t \in Slots, q \in Players : Stays(t, q)
  BY <1>3, <1>4 DEF Stays
<1>6. Ranged' /\ Distinct' /\ Spent'
  BY <1>2, <1>5, RemovalKeeps
<1>7. \A t \in Slots : state'[t] = IF t = s THEN "Empty" ELSE state[t]
  BY <1>2 DEF IInv, TypeOK
<1>8. Numbered'
  <2>1. \A t \in Slots : generation'[t] < nextPartyGeneration' /\ generation'[t] >= generation[t]
    BY <1>1, <1>2, ResetSlotNumbered
  <2>2. \A t \in Slots : state'[t] = "Active" => generation'[t] >= 1
    <3> SUFFICES ASSUME NEW t \in Slots, state[t] = "Active" PROVE generation'[t] >= 1
      BY <1>7
    <3>1. generation[t] >= 1 /\ generation[t] \in Nat
      BY DEF IInv, Numbered, TypeOK
    <3>2. generation'[t] \in Nat
      BY CreatePartyFailsType DEF TypeOK
    <3> QED
      BY <2>1, <3>1, <3>2
  <2>3. tokensDrawn' = nextMemberGeneration' - 1
    BY <1>2 DEF IInv, Numbered
  <2> QED
    BY <1>6, <2>1, <2>2, <2>3, RangedNumbered
<1>9. Seated'
  <2>1. \A t \in Slots : locked'[t] = IF t = s THEN FALSE ELSE locked[t]
    BY <1>2 DEF ResetSlot, IInv, TypeOK
  <2> QED
    BY <1>3, <1>4, <1>7, <2>1, HostIsPlayer DEF IInv, Seated
<1> QED
  BY <1>6, <1>8, <1>9, CreatePartyFailsType DEF IInv

LEMMA JoinPartyIInv ==
  ASSUME IInv, NEW s \in Slots, JoinParty(s)
  PROVE  IInv'
<1> DEFINE p == FirstOf(Players \ Occupied(s))
           m == NewMember(nextMemberGeneration, tokensDrawn + 1,
                          SessionJoinHandle(session[s]))
<1>1. p \in Players /\ p \notin Occupied(s)
  BY FirstOfExists, PlayersFinite DEF JoinParty
<1>2. /\ members' = [members EXCEPT ![s][p] = m]
      /\ nextMemberGeneration' = nextMemberGeneration + 1
      /\ tokensDrawn' = tokensDrawn + 1
      /\ state[s] = "Active"
      /\ UNCHANGED <<state, generation, locked, nextPartyGeneration, ended>>
  BY DEF JoinParty
<1>3. /\ m.occupied
      /\ m.generation = nextMemberGeneration
      /\ m.token = tokensDrawn + 1
  BY DEF NewMember
<1>4. p # Host
  BY <1>1, <1>2 DEF IInv, Seated, Occupied
<1> HIDE DEF p, m
<1>5. \A t \in Slots, q \in Players :
        members'[t][q] = IF t = s /\ q = p THEN m ELSE members[t][q]
  <2>1. members[s] \in [Players -> Member] /\ members \in [Slots -> [Players -> Member]]
    BY DEF IInv, TypeOK
  <2>2. p \in Players /\ members' = [members EXCEPT ![s][p] = m]
    BY <1>1, <1>2
  <2> QED
    BY <2>1, <2>2
<1>6. \A t \in Slots, q \in Players : (t = s /\ q = p) \/ Stays(t, q)
  BY <1>5 DEF Stays
<1>7. members'[s][p] = m
  BY <1>1, <1>5
<1>8. Ranged' /\ Distinct' /\ Spent'
  BY <1>1, <1>2, <1>3, <1>6, <1>7, AdditionKeeps
<1>9. Numbered'
  <2>1. tokensDrawn' = nextMemberGeneration' - 1
    BY <1>2, MaxGenerationAssumption DEF IInv, Numbered, TypeOK
  <2>2. \A t \in Slots : /\ generation'[t] < nextPartyGeneration'
                         /\ state'[t] = "Active" => generation'[t] >= 1
    BY <1>2 DEF IInv, Numbered
  <2> QED
    BY <1>8, <2>1, <2>2, RangedNumbered
<1>10. Seated'
  <2>1. \A t \in Slots : members'[t][Host] = members[t][Host]
    BY <1>4, <1>5, HostIsPlayer
  <2>2. \A t \in Slots : state[t] # "Active" => \A q \in Players : members'[t][q] = members[t][q]
    BY <1>2, <1>5
  <2> QED
    BY <1>2, <2>1, <2>2 DEF IInv, Seated
<1> QED
  BY <1>8, <1>9, <1>10, JoinPartyType DEF IInv

\* closeInternal as the invariant sees it.
LEMMA CloseInternalIInv ==
  ASSUME IInv, TypeOK', NEW s \in Slots, NEW before, NEW staying,
         CloseInternal(s, before, staying)
  PROVE  IInv'
<1>1. /\ members' = [members EXCEPT ![s] = Vacated]
      /\ state' = [state EXCEPT ![s] = "Closed"]
      /\ locked' = [locked EXCEPT ![s] = TRUE]
      /\ ended' = ended \cup {Membership(s, p) : p \in Occupied(s)}
      /\ UNCHANGED <<generation, nextPartyGeneration, nextMemberGeneration, tokensDrawn>>
  BY DEF CloseInternal, counters
<1>2. \A p \in Players : ~Vacated[p].occupied
  BY DEF Vacated, NoMember
<1>3. \A t \in Slots : members'[t] = IF t = s THEN Vacated ELSE members[t]
  BY <1>1, SlotReplaced DEF IInv
<1>4. \A t \in Slots, q \in Players : Stays(t, q)
  BY <1>2, <1>3 DEF Stays
<1>5. \A c \in ended' : \/ c \in ended
                        \/ \E p \in Players : members[s][p].occupied /\ c = Membership(s, p)
  BY <1>1 DEF Occupied
<1>6. Ranged' /\ Distinct' /\ Spent'
  BY <1>1, <1>2, <1>3, <1>4, <1>5, RemovalKeeps
<1>7. \A t \in Slots : /\ state'[t] = IF t = s THEN "Closed" ELSE state[t]
                       /\ locked'[t] = IF t = s THEN TRUE ELSE locked[t]
  BY <1>1 DEF IInv, TypeOK
<1>8. Numbered'
  BY <1>1, <1>6, <1>7, RangedNumbered DEF IInv, Numbered
<1>9. Seated'
  BY <1>2, <1>3, <1>7, HostIsPlayer DEF IInv, Seated
<1> QED
  BY <1>6, <1>8, <1>9 DEF IInv

LEMMA ClosePartyIInv ==
  ASSUME IInv, NEW c \in Credential, CloseParty(c)
  PROVE  IInv'
<1>1. c.slot \in Slots
  BY DEF Credential
<1> QED
  BY <1>1, ClosePartyType, CloseInternalIInv DEF CloseParty

LEMMA LeaveIInv ==
  ASSUME IInv, NEW c \in Credential, Leave(c)
  PROVE  IInv'
<1>1. /\ c.slot \in Slots /\ c.player \in Players
      /\ members[c.slot][c.player].occupied /\ state[c.slot] = "Active"
  BY DEF Credential, Leave, ValidMember, ValidParty
<1>2. CASE IsLeader(c.player)
  <2>1. \E before, staying : CloseInternal(c.slot, before, staying)
    BY <1>2 DEF Leave
  <2> QED
    BY <1>1, <2>1, LeaveType, CloseInternalIInv
<1>3. CASE ~IsLeader(c.player)
  <2>1. /\ members' = [members EXCEPT ![c.slot][c.player] = NoMember]
        /\ ended' = ended \cup {Membership(c.slot, c.player)}
        /\ UNCHANGED <<state, generation, locked, nextPartyGeneration,
                       nextMemberGeneration, tokensDrawn>>
    BY <1>3 DEF Leave, counters
  <2>2. \A t \in Slots, q \in Players :
          members'[t][q] = IF t = c.slot /\ q = c.player THEN NoMember ELSE members[t][q]
    <3>1. /\ members[c.slot] \in [Players -> Member]
          /\ members \in [Slots -> [Players -> Member]]
      BY <1>1 DEF IInv, TypeOK
    <3>2. members' = [members EXCEPT ![c.slot][c.player] = NoMember]
      BY <2>1
    <3> QED
      BY <1>1, <3>1, <3>2
  <2>3. ~NoMember.occupied
    BY DEF NoMember
  <2>4. \A t \in Slots, q \in Players : Stays(t, q)
    BY <2>2, <2>3 DEF Stays
  <2>5. ~members'[c.slot][c.player].occupied
    BY <1>1, <2>2, <2>3
  <2>6. Ranged' /\ Distinct' /\ Spent'
    BY <1>1, <2>1, <2>4, <2>5, RemovalKeeps
  <2>7. Numbered'
    BY <2>1, <2>6, RangedNumbered DEF IInv, Numbered
  <2>8. Seated'
    <3>1. \A t \in Slots : members'[t][Host] = members[t][Host]
      BY <1>3, <2>2, HostIsPlayer DEF IsLeader
    <3>2. \A t \in Slots : state[t] # "Active" =>
            \A q \in Players : members'[t][q] = members[t][q]
      BY <1>1, <2>2
    <3> QED
      BY <2>1, <3>1, <3>2 DEF IInv, Seated
  <2> QED
    BY <2>6, <2>7, <2>8, LeaveType DEF IInv
<1> QED
  BY <1>2, <1>3

LEMMA NextIInv ==
  ASSUME IInv, Next
  PROVE  IInv'
<1>1. CASE \E code \in Codes : CreateParty(code) \/ CreatePartyFails(code)
  BY <1>1, CreatePartyIInv, CreatePartyFailsIInv
<1>2. CASE \E s \in Slots : JoinParty(s)
  BY <1>2, JoinPartyIInv
<1>3. ASSUME NEW c \in Issued,
             \/ Disconnect(c) \/ Reconnect(c) \/ Leave(c)
             \/ CloseParty(c) \/ SetLocked(c) \/ ReturnToTown(c)
             \/ \E act \in {"Forest", "Dungeon"} : StartActivity(c, act)
             \/ \E location \in {"TOWN", "FOREST", "DUNGEON"} : UpdateMember(c, location)
      PROVE  IInv'
  <2>1. c \in Credential
    BY IssuedType
  <2> QED
    BY <1>3, <2>1, DisconnectIInv, ReconnectIInv, LeaveIInv, ClosePartyIInv,
       SetLockedIInv, ReturnToTownIInv, StartActivityIInv, UpdateMemberIInv
<1> QED
  BY <1>1, <1>2, <1>3 DEF Next

LEMMA StutterIInv ==
  ASSUME IInv, UNCHANGED vars
  PROVE  IInv'
<1>1. TypeOK'
  BY DEF IInv, TypeOK, vars
<1>2. Numbered' /\ Seated'
  BY DEF IInv, Numbered, Seated, vars
<1>3. Distinct' /\ Spent'
  BY DEF IInv, Distinct, Spent, vars
<1> QED
  BY <1>1, <1>2, <1>3 DEF IInv

-----------------------------------------------------------------------------
(* Theorems *)

\* The inductive invariant holds in every reachable state.
THEOREM Invariance == Spec => []IInv
<1>1. Init => IInv
  BY InitIInv
<1>2. IInv /\ [Next]_vars => IInv'
  BY NextIInv, StutterIInv
<1> QED
  BY <1>1, <1>2, PTL DEF Spec

\* Every variable keeps its type: no sequence number, generation or session
\* counter is ever drawn past its end, for any capacity.
THEOREM TypeCorrect == Spec => []TypeOK
<1>1. IInv => TypeOK
  BY DEF IInv
<1> QED
  BY <1>1, Invariance, PTL

\* The handles and the token of a membership that is over are never accepted
\* again, however often its slots are reused (validateMember, reconnect).
THEOREM CredentialsExpire == Spec => []RevokedForever
<1>1. IInv => RevokedForever
  <2> SUFFICES ASSUME IInv, NEW c \in ended
               PROVE  /\ ~ValidMember(c)
                      /\ members[c.slot][c.player].occupied =>
                           members[c.slot][c.player].token # c.token
    BY DEF RevokedForever
  <2>1. c.slot \in Slots /\ c.player \in Players
    BY DEF IInv, TypeOK, Credential
  <2> QED
    BY <2>1 DEF IInv, Spent, ValidMember
<1> QED
  BY <1>1, Invariance, PTL

\* A party is active exactly while its leader is in it, and members are found
\* in active parties only (createParty's failure paths, leave, closeInternal).
THEOREM PartyHasItsLeader == Spec => []LeaderHoldsParty
<1>1. IInv => LeaderHoldsParty
  BY HostIsPlayer DEF IInv, Seated, LeaderHoldsParty, Occupied
<1> QED
  BY <1>1, Invariance, PTL

-----------------------------------------------------------------------------
(* What a party agrees on: the registry and its GameSession on the roster,    *)
(* the events on who is there, the members and the activity on who is out;    *)
(* and that no two parties share a code.                                      *)


\* SessionAgrees, of one party
Agrees(s) == state[s] = "Active" =>
  /\ session[s].initialized
  /\ \A p \in Players :
       /\ session[s].players[p].occupied = members[s][p].occupied
       /\ members[s][p].occupied =>
            /\ session[s].players[p].connected = members[s][p].connected
            /\ members[s][p].sessionHandle.id = p
            /\ session[s].players[p].generation = members[s][p].sessionHandle.generation

\* EventsTellRoster, of one party and player by player
Told(s) ==
  /\ view[s].open <=> state[s] = "Active"
  /\ \A p \in Players :
       /\ p \in view[s].present <=> members[s][p].occupied
       /\ p \in view[s].online <=> members[s][p].occupied /\ members[s][p].connected

\* ParticipantsAreOut, of one party
Out(s) ==
  \A p \in Players : members[s][p].participating =>
    members[s][p].occupied /\ members[s][p].connected /\ activity[s] # "Town"

SlotOK(s) == Agrees(s) /\ Told(s) /\ Out(s)

RInv == IInv /\ CodesDistinct /\ \A s \in Slots : SlotOK(s)

\* No step adds a traveller to a party that stays out.
ShrinksAt(s) ==
  activity[s] # "Town" /\ activity'[s] = activity[s] =>
    \A p \in Players : members'[s][p].participating => members[s][p].participating

SameSlot(s) ==
  /\ state'[s] = state[s] /\ members'[s] = members[s] /\ session'[s] = session[s]
  /\ activity'[s] = activity[s] /\ view'[s] = view[s]

\* What a call about one party has to show of that party.
Kept == (\A s \in Slots : SlotOK(s)') /\ (\A s \in Slots : ShrinksAt(s))

LEMMA SameSlotKept ==
  ASSUME NEW s \in Slots, SlotOK(s), SameSlot(s)
  PROVE  SlotOK(s)' /\ ShrinksAt(s)
  BY DEF SlotOK, Agrees, Told, Out, SameSlot, ShrinksAt

LEMMA OneSlotKept ==
  ASSUME RInv, NEW s \in Slots, \A t \in Slots \ {s} : SameSlot(t), SlotOK(s)', ShrinksAt(s)
  PROVE  Kept
  BY SameSlotKept DEF RInv, Kept

\* What one event, or two, do to the view of one party.
LEMMA EmitView ==
  ASSUME TypeOK, NEW s \in Slots, NEW type, NEW p, Emit(s, type, p)
  PROVE  /\ view'[s] = ViewAfter(view[s], type, p)
         /\ \A t \in Slots \ {s} : view'[t] = view[t]
  BY DEF TypeOK, Emit

LEMMA EmitBothView ==
  ASSUME TypeOK, NEW s \in Slots, NEW type1, NEW type2, NEW p, EmitBoth(s, type1, type2, p)
  PROVE  /\ view'[s] = ViewAfter(ViewAfter(view[s], type1, p), type2, p)
         /\ \A t \in Slots \ {s} : view'[t] = view[t]
  BY DEF TypeOK, EmitBoth

\* The events that say nothing about the roster
LEMMA SilentView ==
  ASSUME NEW v, NEW p,
         NEW type \in {"PartyLocked", "PartyUnlocked", "ActivityStarting", "ActivityStarted"}
  PROVE  ViewAfter(v, type, p) = v
  BY DEF ViewAfter

LEMMA OnlineView ==
  ASSUME NEW v \in [present : SUBSET Players, online : SUBSET Players, open : BOOLEAN],
         NEW p \in Players, NEW type \in {"MemberJoined", "MemberReconnected"}
  PROVE  ViewAfter(v, type, p) =
           [present |-> v.present \cup {p}, online |-> v.online \cup {p}, open |-> v.open]
  BY DEF ViewAfter

LEMMA OfflineView ==
  ASSUME NEW v \in [present : SUBSET Players, online : SUBSET Players, open : BOOLEAN],
         NEW p \in Players
  PROVE  /\ ViewAfter(v, "MemberDisconnected", p) =
              [present |-> v.present, online |-> v.online \ {p}, open |-> v.open]
         /\ ViewAfter(v, "MemberLeft", p) =
              [present |-> v.present \ {p}, online |-> v.online \ {p}, open |-> v.open]
         /\ ViewAfter(v, "PartyClosed", p) = NoView
  BY DEF ViewAfter

-----------------------------------------------------------------------------
(* One lemma per call *)

LEMMA DisconnectKept ==
  ASSUME RInv, NEW c \in Credential, Disconnect(c)
  PROVE  Kept
<1> DEFINE s == c.slot
           p == c.player
           m == members[s][p]
           gone == [m EXCEPT !.connected = FALSE, !.participating = FALSE,
                             !.location = "DISCONNECTED"]
<1>1. s \in Slots /\ p \in Players /\ state[s] = "Active" /\ m.occupied
  BY DEF Credential, Disconnect, ValidMember, ValidParty
<1>2. /\ TypeOK /\ SlotOK(s)
      /\ session[s] \in Session /\ m \in Member
  BY <1>1, SessionHandleType DEF RInv, IInv, TypeOK
<1>3. /\ Emit(s, "MemberDisconnected", p)
      /\ session' = [session EXCEPT ![s] = SessionDisconnected(session[s], m.sessionHandle)]
      /\ members' = [members EXCEPT ![s][p] = gone]
      /\ UNCHANGED <<state, activity>>
  BY DEF Disconnect
<1>4. gone.occupied /\ gone.connected = FALSE /\ ~gone.participating /\ gone.sessionHandle = m.sessionHandle
  BY <1>1, <1>2 DEF Member
<1>5. m.sessionHandle.id = p
  BY <1>1, <1>2 DEF SlotOK, Agrees
<1> HIDE DEF s, p, m, gone
<1>6. /\ members'[s][p] = gone
      /\ \A q \in Players \ {p} : members'[s][q] = members[s][q]
      /\ \A t \in Slots \ {s} : members'[t] = members[t] /\ session'[t] = session[t]
  BY <1>1, <1>2, <1>3 DEF TypeOK
<1>7. /\ session'[s].initialized = session[s].initialized
      /\ session'[s].players = [session[s].players EXCEPT ![p].connected = FALSE]
  BY <1>1, <1>2, <1>3, <1>5 DEF TypeOK, SessionDisconnected, Session
<1>8. /\ session'[s].players[p].occupied = session[s].players[p].occupied
      /\ session'[s].players[p].connected = FALSE
      /\ session'[s].players[p].generation = session[s].players[p].generation
      /\ \A q \in Players \ {p} : session'[s].players[q] = session[s].players[q]
  BY <1>1, <1>2, <1>7 DEF Session, SessionSlot
<1>9. /\ view'[s] = [present |-> view[s].present, online |-> view[s].online \ {p},
                     open |-> view[s].open]
      /\ \A t \in Slots \ {s} : view'[t] = view[t]
  <2>1. view[s] \in [present : SUBSET Players, online : SUBSET Players, open : BOOLEAN]
    BY <1>1, <1>2 DEF TypeOK
  <2>2. /\ view'[s] = ViewAfter(view[s], "MemberDisconnected", p)
        /\ \A t \in Slots \ {s} : view'[t] = view[t]
    BY <1>1, <1>2, <1>3, EmitView
  <2> QED
    BY <1>1, <2>1, <2>2, OfflineView
<1>10. Agrees(s)'
  <2>1. session'[s].initialized
    BY <1>1, <1>2, <1>7 DEF SlotOK, Agrees
  <2>2. /\ session[s].players[p].occupied = m.occupied
        /\ session[s].players[p].generation = m.sessionHandle.generation
        /\ \A q \in Players :
             /\ session[s].players[q].occupied = members[s][q].occupied
             /\ members[s][q].occupied =>
                  /\ session[s].players[q].connected = members[s][q].connected
                  /\ members[s][q].sessionHandle.id = q
                  /\ session[s].players[q].generation = members[s][q].sessionHandle.generation
    BY <1>1, <1>2 DEF SlotOK, Agrees, m
  <2>3. /\ session'[s].players[p].occupied = members'[s][p].occupied
        /\ session'[s].players[p].connected = members'[s][p].connected
        /\ members'[s][p].sessionHandle.id = p
        /\ session'[s].players[p].generation = members'[s][p].sessionHandle.generation
    BY <1>1, <1>2, <1>4, <1>5, <1>6, <1>8, <2>2 DEF Member
  <2>4. ASSUME NEW q \in Players
        PROVE  /\ session'[s].players[q].occupied = members'[s][q].occupied
               /\ members'[s][q].occupied =>
                    /\ session'[s].players[q].connected = members'[s][q].connected
                    /\ members'[s][q].sessionHandle.id = q
                    /\ session'[s].players[q].generation = members'[s][q].sessionHandle.generation
    <3>1. CASE q = p
      BY <2>3, <3>1
    <3>2. CASE q # p
      BY <1>6, <1>8, <2>2, <3>2
    <3> QED
      BY <3>1, <3>2
  <2> QED
    BY <2>1, <2>4 DEF Agrees
<1>11. Told(s)'
  BY <1>1, <1>2, <1>3, <1>4, <1>6, <1>9 DEF SlotOK, Told, m
<1>12. Out(s)' /\ ShrinksAt(s)
  BY <1>2, <1>3, <1>4, <1>6 DEF SlotOK, Out, ShrinksAt
<1> QED
  BY <1>1, <1>3, <1>6, <1>9, <1>10, <1>11, <1>12, OneSlotKept DEF SlotOK, SameSlot

LEMMA ReconnectKept ==
  ASSUME RInv, NEW c \in Credential, Reconnect(c)
  PROVE  Kept
<1> DEFINE s == c.slot
           p == c.player
           m == members[s][p]
           back == Returned(m, activity[s])
<1>1. s \in Slots /\ p \in Players /\ state[s] = "Active" /\ m.occupied
  BY DEF Credential, Reconnect, ValidParty
<1>2. /\ TypeOK /\ SlotOK(s)
      /\ session[s] \in Session /\ m \in Member
  BY <1>1, SessionHandleType DEF RInv, IInv, TypeOK
<1>3. /\ Emit(s, "MemberReconnected", p)
      /\ session' = [session EXCEPT ![s] = SessionReconnected(session[s], m.sessionHandle)]
      /\ members' = [members EXCEPT ![s][p] = back]
      /\ UNCHANGED <<state, activity>>
  BY DEF Reconnect
<1>4. back.occupied /\ back.connected = TRUE /\ ~back.participating /\ back.sessionHandle = m.sessionHandle
  BY <1>1, <1>2 DEF Member, Returned
<1>5. m.sessionHandle.id = p
  BY <1>1, <1>2 DEF SlotOK, Agrees
<1> HIDE DEF s, p, m, back
<1>6. /\ members'[s][p] = back
      /\ \A q \in Players \ {p} : members'[s][q] = members[s][q]
      /\ \A t \in Slots \ {s} : members'[t] = members[t] /\ session'[t] = session[t]
  BY <1>1, <1>2, <1>3 DEF TypeOK
<1>7. /\ session'[s].initialized = session[s].initialized
      /\ session'[s].players = [session[s].players EXCEPT ![p].connected = TRUE]
  BY <1>1, <1>2, <1>3, <1>5 DEF TypeOK, SessionReconnected, Session
<1>8. /\ session'[s].players[p].occupied = session[s].players[p].occupied
      /\ session'[s].players[p].connected = TRUE
      /\ session'[s].players[p].generation = session[s].players[p].generation
      /\ \A q \in Players \ {p} : session'[s].players[q] = session[s].players[q]
  BY <1>1, <1>2, <1>7 DEF Session, SessionSlot
<1>9. /\ view'[s] = [present |-> view[s].present \cup {p}, online |-> view[s].online \cup {p},
                     open |-> view[s].open]
      /\ \A t \in Slots \ {s} : view'[t] = view[t]
  <2>1. view[s] \in [present : SUBSET Players, online : SUBSET Players, open : BOOLEAN]
    BY <1>1, <1>2 DEF TypeOK
  <2>2. /\ view'[s] = ViewAfter(view[s], "MemberReconnected", p)
        /\ \A t \in Slots \ {s} : view'[t] = view[t]
    BY <1>1, <1>2, <1>3, EmitView
  <2> QED
    BY <1>1, <2>1, <2>2, OnlineView
<1>10. Agrees(s)'
  <2>1. session'[s].initialized
    BY <1>1, <1>2, <1>7 DEF SlotOK, Agrees
  <2>2. /\ session[s].players[p].occupied = m.occupied
        /\ session[s].players[p].generation = m.sessionHandle.generation
        /\ \A q \in Players :
             /\ session[s].players[q].occupied = members[s][q].occupied
             /\ members[s][q].occupied =>
                  /\ session[s].players[q].connected = members[s][q].connected
                  /\ members[s][q].sessionHandle.id = q
                  /\ session[s].players[q].generation = members[s][q].sessionHandle.generation
    BY <1>1, <1>2 DEF SlotOK, Agrees, m
  <2>3. /\ session'[s].players[p].occupied = members'[s][p].occupied
        /\ session'[s].players[p].connected = members'[s][p].connected
        /\ members'[s][p].sessionHandle.id = p
        /\ session'[s].players[p].generation = members'[s][p].sessionHandle.generation
    BY <1>1, <1>2, <1>4, <1>5, <1>6, <1>8, <2>2 DEF Member
  <2> QED
    BY <1>6, <1>8, <2>1, <2>2, <2>3 DEF Agrees
<1>11. Told(s)'
  BY <1>1, <1>2, <1>3, <1>4, <1>6, <1>9 DEF SlotOK, Told, m
<1>12. Out(s)' /\ ShrinksAt(s)
  BY <1>2, <1>3, <1>4, <1>6 DEF SlotOK, Out, ShrinksAt
<1> QED
  BY <1>1, <1>3, <1>6, <1>9, <1>10, <1>11, <1>12, OneSlotKept DEF SlotOK, SameSlot

LEMMA JoinPartyKept ==
  ASSUME RInv, NEW s \in Slots, JoinParty(s)
  PROVE  Kept
<1> DEFINE h == SessionJoinHandle(session[s])
           p == FirstOf(Players \ Occupied(s))
           m == NewMember(nextMemberGeneration, tokensDrawn + 1, h)
<1>1. p \in Players /\ ~members[s][p].occupied
  <2>1. p \in Players \ Occupied(s)
    BY FirstOfExists, PlayersFinite DEF JoinParty
  <2> QED
    BY <2>1 DEF Occupied
<1>2. /\ TypeOK /\ SlotOK(s)
      /\ session[s] \in Session /\ state[s] = "Active" /\ activity[s] = "Town"
  BY DEF RInv, IInv, TypeOK, JoinParty
<1>3. /\ Emit(s, "MemberJoined", p)
      /\ session' = [session EXCEPT ![s] = SessionJoined(session[s])]
      /\ members' = [members EXCEPT ![s][p] = m]
      /\ UNCHANGED <<state, activity>>
  BY DEF JoinParty
<1>4. m.occupied = TRUE /\ m.connected = TRUE /\ m.participating = FALSE /\ m.sessionHandle = h
  BY DEF NewMember
<1>5. /\ h.id = p /\ FirstOf(OpenSlots(session[s])) = p
      /\ h.generation = session[s].nextGeneration
  BY DEF SessionJoinHandle, JoinParty
<1>6. session'[s] = SessionJoined(session[s])
  BY <1>2, <1>3 DEF TypeOK
<1> HIDE DEF p, m, h
<1>7. /\ session'[s].initialized = session[s].initialized
      /\ session'[s].players = [session[s].players EXCEPT ![p] =
           [occupied |-> TRUE, connected |-> TRUE, generation |-> session[s].nextGeneration]]
  BY <1>2, <1>5, <1>6 DEF SessionJoined, Session
<1>8. /\ session'[s].players[p].occupied = TRUE
      /\ session'[s].players[p].connected = TRUE
      /\ session'[s].players[p].generation = session[s].nextGeneration
      /\ \A q \in Players \ {p} : session'[s].players[q] = session[s].players[q]
  BY <1>1, <1>2, <1>7 DEF Session
<1>9. /\ members'[s][p] = m
      /\ \A q \in Players \ {p} : members'[s][q] = members[s][q]
      /\ \A t \in Slots \ {s} : members'[t] = members[t] /\ session'[t] = session[t]
  BY <1>1, <1>2, <1>3 DEF TypeOK
<1>10. /\ view'[s] = [present |-> view[s].present \cup {p}, online |-> view[s].online \cup {p},
                      open |-> view[s].open]
       /\ \A t \in Slots \ {s} : view'[t] = view[t]
  <2>1. view[s] \in [present : SUBSET Players, online : SUBSET Players, open : BOOLEAN]
    BY <1>2 DEF TypeOK
  <2>2. /\ view'[s] = ViewAfter(view[s], "MemberJoined", p)
        /\ \A t \in Slots \ {s} : view'[t] = view[t]
    BY <1>2, <1>3, EmitView
  <2> QED
    BY <1>1, <2>1, <2>2, OnlineView
<1>11. Agrees(s)'
  <2>1. session'[s].initialized
    BY <1>2, <1>7 DEF SlotOK, Agrees
  <2>2. \A q \in Players \ {p} :
          /\ session[s].players[q].occupied = members[s][q].occupied
          /\ members[s][q].occupied =>
               /\ session[s].players[q].connected = members[s][q].connected
               /\ members[s][q].sessionHandle.id = q
               /\ session[s].players[q].generation = members[s][q].sessionHandle.generation
    BY <1>2 DEF SlotOK, Agrees
  <2>3. /\ session'[s].players[p].occupied = members'[s][p].occupied
        /\ session'[s].players[p].connected = members'[s][p].connected
        /\ members'[s][p].sessionHandle.id = p
        /\ session'[s].players[p].generation = members'[s][p].sessionHandle.generation
    BY <1>4, <1>5, <1>8, <1>9
  <2> QED
    BY <1>8, <1>9, <2>1, <2>2, <2>3 DEF Agrees
<1>12. Told(s)'
  BY <1>1, <1>2, <1>3, <1>4, <1>9, <1>10 DEF SlotOK, Told
<1>13. Out(s)' /\ ShrinksAt(s)
  BY <1>2, <1>3, <1>4, <1>9 DEF SlotOK, Out, ShrinksAt
<1> QED
  BY <1>3, <1>9, <1>10, <1>11, <1>12, <1>13, OneSlotKept DEF SlotOK, SameSlot

\* A party that is closed, or an attempt that failed, leaves nothing to agree on.
LEMMA VacatedKept ==
  ASSUME RInv, NEW s \in Slots, state'[s] # "Active", members'[s] = Vacated, view'[s] = NoView,
         \A t \in Slots \ {s} : SameSlot(t)
  PROVE  Kept
<1>1. \A p \in Players : ~members'[s][p].occupied /\ ~members'[s][p].participating
  BY DEF Vacated, NoMember
<1>2. Agrees(s)' /\ Told(s)' /\ Out(s)' /\ ShrinksAt(s)
  BY <1>1 DEF Agrees, Told, Out, ShrinksAt, NoView
<1> QED
  BY <1>2, OneSlotKept DEF SlotOK

LEMMA CloseInternalKept ==
  ASSUME RInv, NEW s \in Slots, NEW before, NEW staying, CloseInternal(s, before, staying),
         view'[s] = NoView, \A t \in Slots \ {s} : view'[t] = view[t]
  PROVE  Kept
<1>1. /\ session' = [session EXCEPT ![s] =
                       SessionAllLeft(before, {members[s][p].sessionHandle : p \in staying})]
      /\ members' = [members EXCEPT ![s] = Vacated]
      /\ state' = [state EXCEPT ![s] = "Closed"]
      /\ activity' = activity
  BY DEF CloseInternal
<1>2. TypeOK
  BY DEF RInv, IInv
<1>3. /\ state'[s] = "Closed" /\ members'[s] = Vacated
      /\ \A t \in Slots \ {s} : /\ session'[t] = session[t] /\ members'[t] = members[t]
                                /\ state'[t] = state[t]
  BY <1>1, <1>2 DEF TypeOK
<1> QED
  BY <1>1, <1>3, VacatedKept DEF SameSlot

LEMMA ClosePartyKept ==
  ASSUME RInv, NEW c \in Credential, CloseParty(c)
  PROVE  Kept
<1> DEFINE s == c.slot
           p == c.player
<1>1. s \in Slots /\ p \in Players /\ TypeOK
  BY DEF Credential, RInv, IInv
<1>2. Emit(s, "PartyClosed", p) /\ CloseInternal(s, session[s], Occupied(s))
  BY DEF CloseParty
<1> HIDE DEF s, p
<1>3. /\ view'[s] = ViewAfter(view[s], "PartyClosed", p)
      /\ \A t \in Slots \ {s} : view'[t] = view[t]
  BY <1>1, <1>2, EmitView
<1>4. view'[s] = NoView
  BY <1>3 DEF ViewAfter
<1> QED
  BY <1>1, <1>2, <1>3, <1>4, CloseInternalKept

LEMMA LeaveKept ==
  ASSUME RInv, NEW c \in Credential, Leave(c)
  PROVE  Kept
<1> DEFINE s == c.slot
           p == c.player
           m == members[s][p]
           left == SessionLeft(session[s], m.sessionHandle)
<1>1. s \in Slots /\ p \in Players /\ state[s] = "Active" /\ m.occupied
  BY DEF Credential, Leave, ValidMember, ValidParty
<1>2. /\ TypeOK /\ SlotOK(s)
      /\ session[s] \in Session /\ m \in Member
  BY <1>1, SessionHandleType DEF RInv, IInv, TypeOK
<1>3. CASE /\ EmitBoth(s, DepartureEvent, "PartyClosed", p)
           /\ CloseInternal(s, left, Occupied(s) \ {p})
  <2> HIDE DEF s, p, m, left
  <2>1. /\ view'[s] = ViewAfter(ViewAfter(view[s], DepartureEvent, p), "PartyClosed", p)
        /\ \A t \in Slots \ {s} : view'[t] = view[t]
    BY <1>1, <1>2, <1>3, EmitBothView
  <2>2. view'[s] = NoView
    BY <2>1 DEF ViewAfter
  <2> QED
    BY <1>1, <1>3, <2>1, <2>2, CloseInternalKept
<1>4. CASE /\ Emit(s, DepartureEvent, p)
           /\ session' = [session EXCEPT ![s] = left]
           /\ members' = [members EXCEPT ![s][p] = NoMember]
           /\ UNCHANGED <<state, activity>>
  <2>1. NoMember.occupied = FALSE /\ NoMember.connected = FALSE /\ NoMember.participating = FALSE
    BY DEF NoMember
  <2>2. m.sessionHandle.id = p
    BY <1>1, <1>2 DEF SlotOK, Agrees
  <2>3. /\ members'[s][p] = NoMember
        /\ \A q \in Players \ {p} : members'[s][q] = members[s][q]
        /\ \A t \in Slots \ {s} : members'[t] = members[t] /\ session'[t] = session[t]
        /\ session'[s] = left
    BY <1>1, <1>2, <1>4 DEF TypeOK
  <2> HIDE DEF s, p, m
  <2>4. /\ session'[s].initialized = session[s].initialized
        /\ session'[s].players = [session[s].players EXCEPT ![p] = FreeSlot]
    BY <1>1, <1>2, <2>2, <2>3 DEF SessionLeft, Session
  <2>5. /\ session'[s].players[p].occupied = FALSE
        /\ \A q \in Players \ {p} : session'[s].players[q] = session[s].players[q]
    BY <1>1, <1>2, <2>4 DEF Session, FreeSlot
  <2>6. /\ view'[s] = [present |-> view[s].present \ {p}, online |-> view[s].online \ {p},
                       open |-> view[s].open]
        /\ \A t \in Slots \ {s} : view'[t] = view[t]
    <3>1. view[s] \in [present : SUBSET Players, online : SUBSET Players, open : BOOLEAN]
      BY <1>1, <1>2 DEF TypeOK
    <3>2. /\ view'[s] = ViewAfter(view[s], "MemberLeft", p)
          /\ \A t \in Slots \ {s} : view'[t] = view[t]
      BY <1>1, <1>2, <1>4, EmitView DEF DepartureEvent
    <3>3. ViewAfter(view[s], "MemberLeft", p) =
            [present |-> view[s].present \ {p}, online |-> view[s].online \ {p},
             open |-> view[s].open]
      BY <1>1, <3>1, OfflineView
    <3> QED
      BY <3>2, <3>3
  <2>7. Agrees(s)'
    <3>1. session'[s].initialized
      BY <1>1, <1>2, <2>4 DEF SlotOK, Agrees
    <3>2. \A q \in Players \ {p} :
            /\ session[s].players[q].occupied = members[s][q].occupied
            /\ members[s][q].occupied =>
                 /\ session[s].players[q].connected = members[s][q].connected
                 /\ members[s][q].sessionHandle.id = q
                 /\ session[s].players[q].generation = members[s][q].sessionHandle.generation
      BY <1>1, <1>2 DEF SlotOK, Agrees
    <3>3. session'[s].players[p].occupied = members'[s][p].occupied /\ ~members'[s][p].occupied
      BY <2>1, <2>3, <2>5
    <3> QED
      BY <2>3, <2>5, <3>1, <3>2, <3>3 DEF Agrees
  <2>8. Told(s)'
    BY <1>1, <1>2, <1>4, <2>1, <2>3, <2>6 DEF SlotOK, Told
  <2>9. Out(s)' /\ ShrinksAt(s)
    BY <1>2, <1>4, <2>1, <2>3 DEF SlotOK, Out, ShrinksAt
  <2> QED
    BY <1>1, <1>4, <2>3, <2>6, <2>7, <2>8, <2>9, OneSlotKept DEF SlotOK, SameSlot
<1> QED
  BY <1>3, <1>4 DEF Leave

LEMMA SetLockedKept ==
  ASSUME RInv, NEW c \in Credential, SetLocked(c)
  PROVE  Kept
<1> DEFINE s == c.slot
           type == IF locked[s] THEN "PartyUnlocked" ELSE "PartyLocked"
<1>1. s \in Slots /\ TypeOK
  BY DEF Credential, RInv, IInv
<1>2. Emit(s, type, c.player) /\ UNCHANGED <<state, members, activity, session>>
  BY DEF SetLocked
<1>3. type \in {"PartyLocked", "PartyUnlocked", "ActivityStarting", "ActivityStarted"}
  OBVIOUS
<1> HIDE DEF s, type
<1>4. \A t \in Slots : view'[t] = view[t]
  BY <1>1, <1>2, <1>3, EmitView, SilentView
<1>5. \A t \in Slots : SameSlot(t)
  BY <1>2, <1>4 DEF SameSlot
<1> QED
  BY <1>5, SameSlotKept DEF RInv, Kept

LEMMA StartActivityKept ==
  ASSUME RInv, NEW c \in Credential, NEW act \in {"Forest", "Dungeon"}, StartActivity(c, act)
  PROVE  Kept
<1> DEFINE s == c.slot
           leaving == [p \in Players |->
             IF p \in Connected(s)
               THEN [members[s][p] EXCEPT !.participating = TRUE,
                                          !.location = IF act = "Forest" THEN "FOREST" ELSE "DUNGEON"]
               ELSE members[s][p]]
<1>1. s \in Slots /\ TypeOK /\ SlotOK(s) /\ activity[s] = "Town"
  BY DEF Credential, RInv, IInv, StartActivity
<1>2. /\ EmitBoth(s, "ActivityStarting", "ActivityStarted", c.player)
      /\ activity' = [activity EXCEPT ![s] = act]
      /\ members' = [members EXCEPT ![s] = leaving]
      /\ UNCHANGED <<state, session>>
  BY DEF StartActivity
<1>3. \A p \in Players :
        /\ leaving[p].occupied = members[s][p].occupied
        /\ leaving[p].connected = members[s][p].connected
        /\ leaving[p].sessionHandle = members[s][p].sessionHandle
        /\ leaving[p].participating =>
             \/ members[s][p].participating
             \/ members[s][p].occupied /\ members[s][p].connected
  <2> SUFFICES ASSUME NEW p \in Players
               PROVE  /\ leaving[p].occupied = members[s][p].occupied
                      /\ leaving[p].connected = members[s][p].connected
                      /\ leaving[p].sessionHandle = members[s][p].sessionHandle
                      /\ leaving[p].participating =>
                           \/ members[s][p].participating
                           \/ members[s][p].occupied /\ members[s][p].connected
    OBVIOUS
  <2>1. members[s][p] \in Member
    BY <1>1, SessionHandleType
  <2>2. CASE p \in Connected(s)
    BY <2>1, <2>2 DEF Member, Connected, Occupied
  <2>3. CASE p \notin Connected(s)
    BY <2>3
  <2> QED
    BY <2>2, <2>3
<1> HIDE DEF s, leaving
<1>4. /\ members'[s] = leaving /\ activity'[s] = act
      /\ \A t \in Slots \ {s} : members'[t] = members[t] /\ activity'[t] = activity[t]
  BY <1>1, <1>2 DEF TypeOK
<1>5. \A t \in Slots : view'[t] = view[t]
  <2>1. /\ view'[s] = ViewAfter(ViewAfter(view[s], "ActivityStarting", c.player),
                                "ActivityStarted", c.player)
        /\ \A t \in Slots \ {s} : view'[t] = view[t]
    BY <1>1, <1>2, EmitBothView
  <2> QED
    BY <2>1, SilentView
<1>6. Agrees(s)'
  BY <1>1, <1>2, <1>3, <1>4 DEF SlotOK, Agrees
<1>7. Told(s)'
  BY <1>1, <1>2, <1>3, <1>4, <1>5 DEF SlotOK, Told
<1>8. Out(s)' /\ ShrinksAt(s)
  BY <1>1, <1>3, <1>4 DEF SlotOK, Out, ShrinksAt
<1> QED
  BY <1>1, <1>2, <1>4, <1>5, <1>6, <1>7, <1>8, OneSlotKept DEF SlotOK, SameSlot

LEMMA UpdateMemberKept ==
  ASSUME RInv, NEW c \in Credential, NEW location \in {"TOWN", "FOREST", "DUNGEON"},
         UpdateMember(c, location)
  PROVE  Kept
<1> DEFINE s == c.slot
           p == c.player
<1>1. s \in Slots /\ p \in Players /\ TypeOK /\ SlotOK(s)
  BY DEF Credential, RInv, IInv
<1>2. /\ members' = [members EXCEPT ![s][p].location = location]
      /\ UNCHANGED <<state, session, activity, view>>
  BY DEF UpdateMember
<1> HIDE DEF s, p
<1>3. \A t \in Slots \ {s} : members'[t] = members[t]
  BY <1>1, <1>2 DEF TypeOK
<1>4. \A q \in Players :
        /\ members'[s][q].occupied = members[s][q].occupied
        /\ members'[s][q].connected = members[s][q].connected
        /\ members'[s][q].participating = members[s][q].participating
        /\ members'[s][q].sessionHandle = members[s][q].sessionHandle
  <2>1. \A q \in Players : members[s][q] \in Member
    BY <1>1, SessionHandleType
  <2>2. members \in [Slots -> [Players -> Member]]
    BY <1>1 DEF TypeOK
  <2> QED
    BY <1>1, <1>2, <2>1, <2>2 DEF Member
<1>5. SlotOK(s)' /\ ShrinksAt(s)
  BY <1>1, <1>2, <1>4 DEF SlotOK, Agrees, Told, Out, ShrinksAt
<1> QED
  BY <1>1, <1>2, <1>3, <1>5, OneSlotKept DEF SameSlot

LEMMA ReturnToTownKept ==
  ASSUME RInv, NEW c \in Credential, ReturnToTown(c)
  PROVE  Kept
<1> DEFINE s == c.slot
           home == [p \in Players |-> Rested(members[s][p])]
<1>1. s \in Slots /\ TypeOK /\ SlotOK(s)
  BY DEF Credential, RInv, IInv
<1>2. /\ activity' = [activity EXCEPT ![s] = "Town"]
      /\ members' = [members EXCEPT ![s] = home]
      /\ UNCHANGED <<state, session, view>>
  BY DEF ReturnToTown
<1>3. \A p \in Players :
        /\ home[p].occupied = members[s][p].occupied
        /\ home[p].connected = members[s][p].connected
        /\ home[p].sessionHandle = members[s][p].sessionHandle
        /\ home[p].participating = FALSE
  <2>1. \A p \in Players : members[s][p] \in Member
    BY <1>1, SessionHandleType
  <2> QED
    BY <2>1 DEF Member, Rested
<1> HIDE DEF s, home
<1>4. /\ members'[s] = home
      /\ \A t \in Slots \ {s} : members'[t] = members[t] /\ activity'[t] = activity[t]
  BY <1>1, <1>2 DEF TypeOK
<1>5. SlotOK(s)' /\ ShrinksAt(s)
  BY <1>1, <1>2, <1>3, <1>4 DEF SlotOK, Agrees, Told, Out, ShrinksAt
<1> QED
  BY <1>1, <1>2, <1>4, <1>5, OneSlotKept DEF SameSlot

LEMMA CreatePartyFailsKept ==
  ASSUME RInv, NEW c \in Codes, CreatePartyFails(c)
  PROVE  Kept
<1> DEFINE s == FirstOf(VacantSlots)
           started == Initialized(session[s])
<1>1. s \in Slots /\ TypeOK
  BY VacantSlot DEF CreatePartyFails, CanCreate, RInv, IInv
<1>2. /\ session' = session \/ session' = [session EXCEPT ![s] = started]
      /\ ResetSlot(s, NoCode)
      /\ members' = [members EXCEPT ![s] = Vacated]
      /\ state' = [state EXCEPT ![s] = "Empty"]
      /\ view' = [view EXCEPT ![s] = NoView]
  BY DEF CreatePartyFails
<1> HIDE DEF s, started
<1>3. activity' = [activity EXCEPT ![s] = "Town"]
  BY <1>2 DEF ResetSlot
<1>4. /\ state'[s] = "Empty" /\ members'[s] = Vacated /\ view'[s] = NoView
      /\ \A t \in Slots \ {s} : SameSlot(t)
  BY <1>1, <1>2, <1>3 DEF TypeOK, SameSlot
<1> QED
  BY <1>1, <1>4, VacatedKept

LEMMA CreatePartyKept ==
  ASSUME RInv, NEW c \in Codes, CreateParty(c)
  PROVE  Kept
<1>0. PICK s \in Slots : s = FirstOf(VacantSlots)
  BY VacantSlot DEF CreateParty, CanCreate
<1> DEFINE started == Initialized(session[s])
           h == SessionJoinHandle(started)
           m == NewMember(nextMemberGeneration, tokensDrawn + 1, h)
           ms == [Vacated EXCEPT ![Host] = m]
<1>1. s \in Slots /\ TypeOK
  BY DEF RInv, IInv
<1>2. started \in Session
  BY <1>1, InitializedType DEF TypeOK
<1>3. /\ h.id = Host
      /\ ResetSlot(s, c)
      /\ session' = [session EXCEPT ![s] = SessionJoined(started)]
      /\ members' = [members EXCEPT ![s] = ms]
      /\ state' = [state EXCEPT ![s] = "Active"]
      /\ view' = [view EXCEPT ![s] = ViewAfter(NoView, "PartyCreated", Host)]
  BY <1>0 DEF CreateParty
<1>4. m.occupied = TRUE /\ m.connected = TRUE /\ m.participating = FALSE /\ m.sessionHandle = h
  BY DEF NewMember
<1>5. h.generation = started.nextGeneration /\ FirstOf(OpenSlots(started)) = Host
  BY <1>3 DEF SessionJoinHandle
<1>6. ms[Host] = m /\ \A q \in Players \ {Host} : ms[q] = NoMember
  BY HostIsPlayer DEF Vacated
<1>7. /\ started.initialized = TRUE
      /\ \A q \in Players : started.players[q].occupied = FALSE
  BY <1>1 DEF Initialized, TypeOK, Session, FreeSlot
<1> HIDE DEF started, h, m, ms
<1>8. activity' = [activity EXCEPT ![s] = "Town"]
  BY <1>3 DEF ResetSlot
<1>9. /\ session'[s] = SessionJoined(started) /\ members'[s] = ms /\ state'[s] = "Active"
      /\ view'[s] = ViewAfter(NoView, "PartyCreated", Host) /\ activity'[s] = "Town"
      /\ \A t \in Slots \ {s} : SameSlot(t)
  BY <1>1, <1>3, <1>8 DEF TypeOK, SameSlot
<1>10. /\ session'[s].initialized = TRUE
       /\ session'[s].players = [started.players EXCEPT ![Host] =
            [occupied |-> TRUE, connected |-> TRUE, generation |-> started.nextGeneration]]
  BY <1>2, <1>5, <1>7, <1>9 DEF SessionJoined, Session
<1>11. /\ session'[s].players[Host].occupied = TRUE
       /\ session'[s].players[Host].connected = TRUE
       /\ session'[s].players[Host].generation = started.nextGeneration
       /\ \A q \in Players \ {Host} : session'[s].players[q].occupied = FALSE
  BY <1>2, <1>7, <1>10, HostIsPlayer DEF Session
<1>12. /\ members'[s][Host] = m
       /\ \A q \in Players \ {Host} : /\ members'[s][q].occupied = FALSE
                                      /\ members'[s][q].participating = FALSE
  BY <1>6, <1>9 DEF NoMember
<1>13. view'[s] = [present |-> {Host}, online |-> {Host}, open |-> TRUE]
  BY <1>9 DEF ViewAfter
<1>14. Agrees(s)'
  <2>1. /\ session'[s].initialized
        /\ \A q \in Players \ {Host} :
             session'[s].players[q].occupied = members'[s][q].occupied /\ ~members'[s][q].occupied
    BY <1>10, <1>11, <1>12
  <2>2. /\ session'[s].players[Host].occupied = members'[s][Host].occupied
        /\ session'[s].players[Host].connected = members'[s][Host].connected
        /\ members'[s][Host].sessionHandle.id = Host
        /\ session'[s].players[Host].generation = members'[s][Host].sessionHandle.generation
    BY <1>3, <1>4, <1>5, <1>11, <1>12
  <2> QED
    BY <2>1, <2>2 DEF Agrees
<1>15. Told(s)'
  BY <1>4, <1>9, <1>12, <1>13 DEF Told
<1>16. Out(s)' /\ ShrinksAt(s)
  BY <1>4, <1>12 DEF Out, ShrinksAt
<1> QED
  BY <1>1, <1>9, <1>14, <1>15, <1>16, OneSlotKept DEF SlotOK

-----------------------------------------------------------------------------
(* Join codes *)

LEMMA CodesKept ==
  ASSUME CodesDistinct,
         \A t \in Slots : state'[t] = "Active" => state[t] = "Active" /\ joinCode'[t] = joinCode[t]
  PROVE  CodesDistinct'
  BY DEF CodesDistinct

LEMMA CreatePartyCodes ==
  ASSUME IInv, CodesDistinct, NEW c \in Codes, CreateParty(c)
  PROVE  CodesDistinct'
<1>0. PICK s \in Slots : s = FirstOf(VacantSlots)
  BY VacantSlot DEF CreateParty, CanCreate
<1>1. /\ ~CodeInUse(c)
      /\ joinCode' = [joinCode EXCEPT ![s] = c]
      /\ state' = [state EXCEPT ![s] = "Active"]
  BY <1>0 DEF CreateParty, CanCreate, ResetSlot
<1>2. /\ joinCode'[s] = c
      /\ \A t \in Slots \ {s} : joinCode'[t] = joinCode[t] /\ state'[t] = state[t]
  BY <1>1 DEF IInv, TypeOK
<1>3. \A t \in Slots : state[t] = "Active" => joinCode[t] # c
  BY <1>1 DEF CodeInUse
<1> QED
  BY <1>2, <1>3 DEF CodesDistinct

LEMMA CreatePartyFailsCodes ==
  ASSUME IInv, CodesDistinct, NEW c \in Codes, CreatePartyFails(c)
  PROVE  CodesDistinct'
<1>0. PICK s \in Slots : s = FirstOf(VacantSlots)
  BY VacantSlot DEF CreatePartyFails, CanCreate
<1>1. /\ joinCode' = [joinCode EXCEPT ![s] = NoCode]
      /\ state' = [state EXCEPT ![s] = "Empty"]
  BY <1>0 DEF CreatePartyFails, ResetSlot
<1>2. /\ state'[s] = "Empty"
      /\ \A t \in Slots \ {s} : joinCode'[t] = joinCode[t] /\ state'[t] = state[t]
  BY <1>1 DEF IInv, TypeOK
<1> QED
  BY <1>2, CodesKept

\* The calls of members close a party at most.
LEMMA MemberCodes ==
  ASSUME IInv, CodesDistinct, NEW c \in Credential, UNCHANGED joinCode,
         UNCHANGED state \/ state' = [state EXCEPT ![c.slot] = "Closed"]
  PROVE  CodesDistinct'
<1>1. c.slot \in Slots
  BY DEF Credential
<1>2. \A t \in Slots : state'[t] = "Active" => state[t] = "Active"
  BY <1>1 DEF IInv, TypeOK
<1> QED
  BY <1>2, CodesKept

-----------------------------------------------------------------------------

LEMMA InitRInv == Init => RInv
<1> SUFFICES ASSUME Init PROVE RInv
  OBVIOUS
<1>1. \A s \in Slots : /\ state[s] = "Empty" /\ view[s] = NoView
                       /\ \A p \in Players : members[s][p] = NoMember
  BY DEF Init, Vacated
<1>2. ASSUME NEW s \in Slots PROVE SlotOK(s)
  BY <1>1 DEF SlotOK, Agrees, Told, Out, NoView, NoMember
<1> QED
  BY <1>1, <1>2, InitIInv DEF RInv, CodesDistinct

LEMMA NextKept ==
  ASSUME RInv, Next
  PROVE  Kept /\ CodesDistinct'
<1>1. IInv /\ CodesDistinct
  BY DEF RInv
<1>2. CASE \E code \in Codes : CreateParty(code) \/ CreatePartyFails(code)
  BY <1>1, <1>2, CreatePartyKept, CreatePartyFailsKept, CreatePartyCodes, CreatePartyFailsCodes
<1>3. CASE \E s \in Slots : JoinParty(s)
  <2>1. PICK s \in Slots : JoinParty(s)
    BY <1>3
  <2>2. UNCHANGED <<state, joinCode>>
    BY <2>1 DEF JoinParty
  <2> QED
    BY <1>1, <2>1, <2>2, JoinPartyKept, CodesKept
<1>4. ASSUME NEW c \in Issued,
             \/ Disconnect(c) \/ Reconnect(c) \/ Leave(c)
             \/ CloseParty(c) \/ SetLocked(c) \/ ReturnToTown(c)
             \/ \E act \in {"Forest", "Dungeon"} : StartActivity(c, act)
             \/ \E location \in {"TOWN", "FOREST", "DUNGEON"} : UpdateMember(c, location)
      PROVE  Kept /\ CodesDistinct'
  <2>1. c \in Credential
    BY <1>1, IssuedType
  <2>2. Kept
    BY <1>4, <2>1, DisconnectKept, ReconnectKept, LeaveKept, ClosePartyKept, SetLockedKept,
       ReturnToTownKept, StartActivityKept, UpdateMemberKept
  <2>3. /\ UNCHANGED joinCode
        /\ UNCHANGED state \/ state' = [state EXCEPT ![c.slot] = "Closed"]
    BY <1>4 DEF Disconnect, Reconnect, Leave, CloseParty, SetLocked, ReturnToTown,
                StartActivity, UpdateMember, CloseInternal
  <2> QED
    BY <1>1, <2>1, <2>2, <2>3, MemberCodes
<1> QED
  BY <1>2, <1>3, <1>4 DEF Next

LEMMA StutterKept ==
  ASSUME RInv, UNCHANGED vars
  PROVE  Kept /\ CodesDistinct'
<1>1. \A s \in Slots : SameSlot(s)
  BY DEF vars, SameSlot
<1> QED
  BY <1>1, SameSlotKept, CodesKept DEF RInv, Kept, vars

-----------------------------------------------------------------------------
(* Theorems *)

\* The invariant of the parties holds in every reachable state.
THEOREM RosterInvariance == Spec => []RInv
<1>1. Init => RInv
  BY InitRInv
<1>2. RInv /\ [Next]_vars => RInv'
  <2> SUFFICES ASSUME RInv, [Next]_vars PROVE RInv'
    OBVIOUS
  <2>1. Kept /\ CodesDistinct'
    BY NextKept, StutterKept
  <2>2. IInv'
    BY NextIInv, StutterIInv DEF RInv
  <2> QED
    BY <2>1, <2>2 DEF RInv, Kept
<1> QED
  BY <1>1, <1>2, PTL DEF Spec

\* The registry and the GameSession of an active party keep the same roster.
THEOREM RostersNeverDiffer == Spec => []SessionAgrees
<1>1. RInv => SessionAgrees
  BY DEF RInv, SlotOK, Agrees, SessionAgrees, SessionValid
<1> QED
  BY <1>1, RosterInvariance, PTL

\* Whatever is called in whatever order, registry and GameSession mean the same
\* members and the party lives as long as its leader belongs to it.
THEOREM RosterIsKept == Spec => []RosterKept
<1>1. SessionAgrees /\ LeaderHoldsParty => RosterKept
  BY DEF RosterKept
<1> QED
  BY <1>1, RostersNeverDiffer, PartyHasItsLeader, PTL

\* Whoever follows the events of a party knows its members and who is online.
THEOREM EventsAreEnough == Spec => []EventsTellRoster
<1>1. RInv => EventsTellRoster
  <2> SUFFICES ASSUME RInv, NEW s \in Slots
               PROVE  /\ view[s].present = Occupied(s)
                      /\ view[s].online = Connected(s)
                      /\ view[s].open = (state[s] = "Active")
    BY DEF EventsTellRoster
  <2>1. /\ view[s].present \subseteq Players /\ view[s].online \subseteq Players
        /\ view[s].open \in BOOLEAN
    BY DEF RInv, IInv, TypeOK
  <2>2. Told(s)
    BY DEF RInv, SlotOK
  <2> QED
    BY <2>1, <2>2 DEF Told, Occupied, Connected
<1> QED
  BY <1>1, RosterInvariance, PTL

\* Who takes part in an activity is connected, and the party is not in Town.
THEOREM TravellersAreOut == Spec => []ParticipantsAreOut
<1>1. RInv => ParticipantsAreOut
  BY DEF RInv, SlotOK, Out, ParticipantsAreOut, Connected, Occupied
<1> QED
  BY <1>1, RosterInvariance, PTL

\* A join code leads to one party at most.
THEOREM CodesNeverCollide == Spec => []CodesDistinct
<1>1. RInv => CodesDistinct
  BY DEF RInv
<1> QED
  BY <1>1, RosterInvariance, PTL

\* No join, reconnection or reuse of a slot adds a traveller to a party that
\* stays out (joinParty, reconnect, updateMember).
THEOREM NobodyJoinsTheCompany == Spec => CompanyOnlyShrinks
<1>1. RInv /\ [Next]_vars =>
        [\A s \in Slots : activity[s] # "Town" /\ activity'[s] = activity[s] =>
           Participants(s)' \subseteq Participants(s)]_vars
  <2> SUFFICES ASSUME RInv, Next, NEW s \in Slots, activity[s] # "Town",
                      activity'[s] = activity[s]
               PROVE  Participants(s)' \subseteq Participants(s)
    OBVIOUS
  <2>1. ShrinksAt(s)
    BY NextKept DEF Kept
  <2> QED
    BY <2>1 DEF ShrinksAt, Participants
<1> QED
  BY <1>1, RosterInvariance, PTL DEF Spec, CompanyOnlyShrinks

-----------------------------------------------------------------------------
(* PartyRegistry implements PartyLedger: every call of the registry is a step *)
(* of the ledger or changes nothing the ledger speaks of.  A seat is a place  *)
(* for a member: the entries of the ledger are what sits there.               *)


\* No two parties that are active share a generation.
PartiesDistinct ==
  \A s, t \in Slots : s # t /\ state[s] = "Active" /\ state[t] = "Active" =>
    generation[s] # generation[t]

LInv == RInv /\ PartiesDistinct

Entries(S) == {EntryOf(x[1], x[2]) : x \in S}
EntriesNext(S) == {EntryOf(x[1], x[2])' : x \in S}

LEMMA LedgerSeats ==
  /\ Roster = Entries(OccupiedSeats) /\ Roster' = EntriesNext(OccupiedSeats')
  /\ Online = Entries(ConnectedSeats) /\ Online' = EntriesNext(ConnectedSeats')
  /\ Company = Entries(TravellingSeats) /\ Company' = EntriesNext(TravellingSeats')
BY DEF Roster, Online, Company, Entries, EntriesNext

\* Travellers are connected members.
LEMMA SeatsNested ==
  ASSUME RInv
  PROVE  /\ TravellingSeats \subseteq ConnectedSeats
         /\ ConnectedSeats \subseteq OccupiedSeats
         /\ OccupiedSeats \subseteq Seats
<1>1. \A s \in Slots, p \in Players : members[s][p].participating =>
        members[s][p].occupied /\ members[s][p].connected
  BY DEF RInv, SlotOK, Out
<1> QED
  BY <1>1 DEF TravellingSeats, ConnectedSeats, OccupiedSeats, Seats

\* Members of different seats have different entries.
LEMMA EntriesDiffer ==
  ASSUME RInv, NEW x \in OccupiedSeats, NEW y \in OccupiedSeats,
         EntryOf(x[1], x[2]) = EntryOf(y[1], y[2])
  PROVE  x = y
<1>1. /\ x \in Seats /\ y \in Seats
      /\ members[x[1]][x[2]].occupied /\ members[y[1]][y[2]].occupied
      /\ members[x[1]][x[2]].generation = members[y[1]][y[2]].generation
  BY DEF OccupiedSeats, EntryOf
<1>2. x[1] = y[1] /\ x[2] = y[2]
  BY <1>1 DEF RInv, IInv, Distinct, Seats
<1> QED
  BY <1>1, <1>2 DEF Seats

LEMMA EntriesWithout ==
  ASSUME RInv, NEW S \in SUBSET OccupiedSeats, NEW x \in OccupiedSeats
  PROVE  Entries(S \ {x}) = Entries(S) \ {EntryOf(x[1], x[2])}
BY EntriesDiffer DEF Entries

\* Members of a party other than the one in slot s sit in another slot.
LEMMA EntriesElsewhere ==
  ASSUME LInv, NEW S \in SUBSET OccupiedSeats, NEW s \in Slots, state[s] = "Active"
  PROVE  /\ Entries({x \in S : x[1] # s}) = {f \in Entries(S) : f.party # generation[s]}
         /\ Entries({x \in S : x[1] = s}) = {f \in Entries(S) : f.party = generation[s]}
<1>1. ASSUME NEW x \in S
      PROVE  EntryOf(x[1], x[2]).party # generation[s] <=> x[1] # s
  <2>1. x[1] \in Slots /\ x[2] \in Players /\ members[x[1]][x[2]].occupied
    BY DEF OccupiedSeats, Seats
  <2>2. state[x[1]] = "Active"
    BY <2>1 DEF LInv, RInv, IInv, Seated
  <2> QED
    BY <2>1, <2>2 DEF LInv, PartiesDistinct, EntryOf
<1> QED
  BY <1>1 DEF Entries

\* A seat whose entry the step leaves alone.
SameEntry(x) ==
  /\ generation'[x[1]] = generation[x[1]]
  /\ members'[x[1]][x[2]].generation = members[x[1]][x[2]].generation

LEMMA EntriesStay ==
  ASSUME NEW S, \A x \in S : SameEntry(x)
  PROVE  EntriesNext(S) = Entries(S)
<1>1. \A x \in S : EntryOf(x[1], x[2])' = EntryOf(x[1], x[2])
  BY DEF SameEntry, EntryOf
<1> QED
  BY <1>1 DEF EntriesNext, Entries

\* What the step does to seats other than x, and what it leaves of the parties.
OnlySeat(x) ==
  /\ \A y \in Seats \ {x} :
       /\ members'[y[1]][y[2]].occupied = members[y[1]][y[2]].occupied
       /\ members'[y[1]][y[2]].connected = members[y[1]][y[2]].connected
       /\ members'[y[1]][y[2]].participating = members[y[1]][y[2]].participating
       /\ members'[y[1]][y[2]].generation = members[y[1]][y[2]].generation
  /\ UNCHANGED <<state, generation, activity, nextPartyGeneration>>

LEMMA OnlySeatChanges ==
  ASSUME NEW x \in Seats, OnlySeat(x)
  PROVE  /\ OccupiedSeats' \ {x} = OccupiedSeats \ {x}
         /\ ConnectedSeats' \ {x} = ConnectedSeats \ {x}
         /\ TravellingSeats' \ {x} = TravellingSeats \ {x}
         /\ \A y \in Seats \ {x} : SameEntry(y)
         /\ Away' = Away
<1>1. OccupiedSeats' \ {x} = OccupiedSeats \ {x}
  BY DEF OnlySeat, OccupiedSeats
<1>2. ConnectedSeats' \ {x} = ConnectedSeats \ {x}
  BY DEF OnlySeat, OccupiedSeats, ConnectedSeats
<1>3. TravellingSeats' \ {x} = TravellingSeats \ {x}
  BY DEF OnlySeat, TravellingSeats
<1>4. \A y \in Seats \ {x} : SameEntry(y)
  BY DEF OnlySeat, SameEntry, Seats
<1>5. Away' = Away
  BY DEF OnlySeat, Away, ActiveSlots
<1> QED
  BY <1>1, <1>2, <1>3, <1>4, <1>5

-----------------------------------------------------------------------------
(* The steps of the ledger *)

LEMMA OfflineStep ==
  ASSUME RInv, NEW x \in ConnectedSeats, OnlySeat(x), SameEntry(x),
         members'[x[1]][x[2]].occupied,
         members'[x[1]][x[2]].connected = FALSE,
         members'[x[1]][x[2]].participating = FALSE,
         UNCHANGED nextMemberGeneration
  PROVE  Ledger!GoOffline(EntryOf(x[1], x[2]))
<1> DEFINE e == EntryOf(x[1], x[2])
<1>1. x \in OccupiedSeats /\ x \in Seats /\ TravellingSeats \subseteq OccupiedSeats
  BY SeatsNested
<1>2. OccupiedSeats' = OccupiedSeats
  BY <1>1, OnlySeatChanges DEF OccupiedSeats
<1>3. ConnectedSeats' = ConnectedSeats \ {x}
  BY <1>1, OnlySeatChanges DEF ConnectedSeats
<1>4. TravellingSeats' = TravellingSeats \ {x}
  BY <1>1, OnlySeatChanges DEF TravellingSeats
<1>5. \A y \in Seats : SameEntry(y)
  BY <1>1, OnlySeatChanges
<1>6. Roster' = Roster
  BY <1>2, <1>5, SeatsNested, EntriesStay, LedgerSeats
<1>7. Online' = Online \ {e}
  <2>1. EntriesNext(ConnectedSeats \ {x}) = Entries(ConnectedSeats \ {x})
    BY <1>5, SeatsNested, EntriesStay
  <2> QED
    BY <1>1, <1>3, <2>1, SeatsNested, EntriesWithout, LedgerSeats
<1>8. Company' = Company \ {e}
  <2>1. EntriesNext(TravellingSeats \ {x}) = Entries(TravellingSeats \ {x})
    BY <1>5, SeatsNested, EntriesStay
  <2> QED
    BY <1>1, <1>4, <2>1, SeatsNested, EntriesWithout, LedgerSeats
<1>9. e \in Online
  BY DEF Online
<1>10. UNCHANGED <<Away, 1..(nextPartyGeneration - 1), 1..(nextMemberGeneration - 1)>>
  BY <1>1, OnlySeatChanges DEF OnlySeat
<1> QED
  BY <1>6, <1>7, <1>8, <1>9, <1>10 DEF Ledger!GoOffline

LEMMA ComeBackStep ==
  ASSUME RInv, NEW x \in OccupiedSeats, x \notin ConnectedSeats, OnlySeat(x), SameEntry(x),
         members'[x[1]][x[2]].occupied,
         members'[x[1]][x[2]].connected,
         members'[x[1]][x[2]].participating = FALSE,
         UNCHANGED nextMemberGeneration
  PROVE  Ledger!ComeBack(EntryOf(x[1], x[2]))
<1> DEFINE e == EntryOf(x[1], x[2])
<1>1. /\ x \in Seats /\ x \notin TravellingSeats
      /\ ConnectedSeats \subseteq OccupiedSeats /\ TravellingSeats \subseteq Seats
  BY SeatsNested
<1>2. OccupiedSeats' = OccupiedSeats
  BY <1>1, OnlySeatChanges DEF OccupiedSeats
<1>3. ConnectedSeats' = ConnectedSeats \cup {x}
  BY <1>1, <1>2, OnlySeatChanges DEF ConnectedSeats
<1>4. TravellingSeats' = TravellingSeats
  BY <1>1, OnlySeatChanges DEF TravellingSeats
<1>5. \A y \in Seats : SameEntry(y)
  BY <1>1, OnlySeatChanges
<1>6. Roster' = Roster
  BY <1>2, <1>5, SeatsNested, EntriesStay, LedgerSeats
<1>7. Company' = Company
  BY <1>4, <1>5, SeatsNested, EntriesStay, LedgerSeats
<1>8. Online' = Online \cup {e}
  <2>1. EntriesNext(ConnectedSeats \cup {x}) = Entries(ConnectedSeats \cup {x})
    BY <1>1, <1>5, SeatsNested, EntriesStay
  <2>2. Entries(ConnectedSeats \cup {x}) = Entries(ConnectedSeats) \cup {e}
    BY DEF Entries
  <2> QED
    BY <1>3, <2>1, <2>2, LedgerSeats
<1>9. e \in Roster /\ e \notin Online
  <2>1. Entries(ConnectedSeats \ {x}) = Entries(ConnectedSeats) \ {e}
    BY <1>1, EntriesWithout
  <2>2. ConnectedSeats \ {x} = ConnectedSeats
    OBVIOUS
  <2> QED
    BY <2>1, <2>2, LedgerSeats DEF Roster
<1>10. UNCHANGED <<Away, 1..(nextPartyGeneration - 1), 1..(nextMemberGeneration - 1)>>
  BY <1>1, OnlySeatChanges DEF OnlySeat
<1> QED
  BY <1>6, <1>7, <1>8, <1>9, <1>10 DEF Ledger!ComeBack

LEMMA DepartStep ==
  ASSUME RInv, NEW x \in OccupiedSeats, x[2] # Host, OnlySeat(x),
         members'[x[1]][x[2]].occupied = FALSE,
         members'[x[1]][x[2]].participating = FALSE,
         UNCHANGED nextMemberGeneration
  PROVE  Ledger!Depart(EntryOf(x[1], x[2]))
<1> DEFINE e == EntryOf(x[1], x[2])
<1>1. /\ x \in Seats /\ TravellingSeats \subseteq OccupiedSeats
      /\ ConnectedSeats \subseteq OccupiedSeats /\ OccupiedSeats \subseteq Seats
  BY SeatsNested
<1>2. OccupiedSeats' = OccupiedSeats \ {x}
  BY <1>1, OnlySeatChanges DEF OccupiedSeats
<1>3. ConnectedSeats' = ConnectedSeats \ {x}
  <2>1. x \notin ConnectedSeats'
    BY <1>2 DEF ConnectedSeats
  <2> QED
    BY <1>1, <2>1, OnlySeatChanges
<1>4. TravellingSeats' = TravellingSeats \ {x}
  BY <1>1, OnlySeatChanges DEF TravellingSeats
<1>5. \A S \in SUBSET OccupiedSeats : EntriesNext(S \ {x}) = Entries(S) \ {e}
  <2> SUFFICES ASSUME NEW S \in SUBSET OccupiedSeats
               PROVE  EntriesNext(S \ {x}) = Entries(S) \ {e}
    OBVIOUS
  <2>1. EntriesNext(S \ {x}) = Entries(S \ {x})
    BY <1>1, OnlySeatChanges, EntriesStay
  <2> QED
    BY <2>1, EntriesWithout
<1>6. Roster' = Roster \ {e} /\ Online' = Online \ {e} /\ Company' = Company \ {e}
  BY <1>1, <1>2, <1>3, <1>4, <1>5, LedgerSeats
<1>7. e \in Roster /\ ~e.leader
  BY DEF Roster, EntryOf
<1>8. UNCHANGED <<Away, 1..(nextPartyGeneration - 1), 1..(nextMemberGeneration - 1)>>
  BY <1>1, OnlySeatChanges DEF OnlySeat
<1> QED
  BY <1>6, <1>7, <1>8 DEF Ledger!Depart

\* A party's entry in the ledger, whoever's it is, shows the party of the slot.
LEMMA EnterStep ==
  ASSUME LInv, NEW x \in Seats, x \notin OccupiedSeats, x[2] # Host, OnlySeat(x),
         state[x[1]] = "Active", activity[x[1]] = "Town",
         members'[x[1]][x[2]].occupied,
         members'[x[1]][x[2]].connected,
         members'[x[1]][x[2]].participating = FALSE,
         members'[x[1]][x[2]].generation = nextMemberGeneration,
         nextMemberGeneration' = nextMemberGeneration + 1
  PROVE  Ledger!Enter(generation[x[1]], nextMemberGeneration)
<1> DEFINE g == generation[x[1]]
           e == [party |-> g, member |-> nextMemberGeneration, leader |-> FALSE]
<1>1. /\ x \notin TravellingSeats /\ x \notin ConnectedSeats
      /\ TravellingSeats \subseteq Seats
      /\ ConnectedSeats \subseteq Seats /\ OccupiedSeats \subseteq Seats
      /\ x[1] \in Slots
  BY SeatsNested DEF LInv, Seats
<1>2. OccupiedSeats' = OccupiedSeats \cup {x}
  BY <1>1, OnlySeatChanges DEF OccupiedSeats
<1>3. ConnectedSeats' = ConnectedSeats \cup {x}
  BY <1>1, <1>2, OnlySeatChanges DEF ConnectedSeats
<1>4. TravellingSeats' = TravellingSeats
  BY <1>1, OnlySeatChanges DEF TravellingSeats
<1>5. EntryOf(x[1], x[2])' = e
  BY <1>1 DEF EntryOf, OnlySeat
<1>6. \A S \in SUBSET Seats : x \notin S =>
        EntriesNext(S) = Entries(S) /\ EntriesNext(S \cup {x}) = Entries(S) \cup {e}
  <2> SUFFICES ASSUME NEW S \in SUBSET Seats, x \notin S
               PROVE  EntriesNext(S) = Entries(S) /\ EntriesNext(S \cup {x}) = Entries(S) \cup {e}
    OBVIOUS
  <2>1. EntriesNext(S) = Entries(S)
    BY <1>1, OnlySeatChanges, EntriesStay
  <2>2. EntriesNext(S \cup {x}) = EntriesNext(S) \cup {e}
    BY <1>5 DEF EntriesNext
  <2> QED
    BY <2>1, <2>2
<1>7. Roster' = Roster \cup {e} /\ Online' = Online \cup {e} /\ Company' = Company
  BY <1>1, <1>2, <1>3, <1>4, <1>6, LedgerSeats
<1>8. g \in Ledger!OpenParties
  <2>1. <<x[1], Host>> \in OccupiedSeats
    BY <1>1, HostIsPlayer DEF LInv, RInv, IInv, Seated, OccupiedSeats, Seats
  <2>2. EntryOf(x[1], Host) \in Roster /\ EntryOf(x[1], Host).party = g
    BY <2>1 DEF Roster, EntryOf
  <2> QED
    BY <2>2 DEF Ledger!OpenParties
<1>9. g \notin Away
  BY <1>1 DEF Away, ActiveSlots, LInv, PartiesDistinct
<1>10. nextMemberGeneration \in Nat /\ nextMemberGeneration >= 1
  BY DEF LInv, RInv, IInv, TypeOK
<1>11. /\ nextMemberGeneration \notin 1..(nextMemberGeneration - 1)
       /\ (1..(nextMemberGeneration - 1))' = (1..(nextMemberGeneration - 1)) \cup {nextMemberGeneration}
  BY <1>10
<1>12. UNCHANGED <<Away, 1..(nextPartyGeneration - 1)>>
  BY <1>1, OnlySeatChanges DEF OnlySeat
<1> QED
  BY <1>7, <1>8, <1>9, <1>11, <1>12 DEF Ledger!Enter

\* What the step does to parties other than the one in slot s.
OnlySlot(s) ==
  /\ \A t \in Slots \ {s} :
       /\ state'[t] = state[t] /\ generation'[t] = generation[t] /\ activity'[t] = activity[t]
       /\ members'[t] = members[t]

LEMMA OnlySlotChanges ==
  ASSUME NEW s \in Slots, OnlySlot(s)
  PROVE  /\ {x \in OccupiedSeats' : x[1] # s} = {x \in OccupiedSeats : x[1] # s}
         /\ {x \in ConnectedSeats' : x[1] # s} = {x \in ConnectedSeats : x[1] # s}
         /\ {x \in TravellingSeats' : x[1] # s} = {x \in TravellingSeats : x[1] # s}
         /\ \A x \in Seats : x[1] # s => SameEntry(x)
<1>1. \A x \in Seats : x[1] # s => members'[x[1]] = members[x[1]] /\ generation'[x[1]] = generation[x[1]]
  BY DEF OnlySlot, Seats
<1>2. {x \in OccupiedSeats' : x[1] # s} = {x \in OccupiedSeats : x[1] # s}
  BY <1>1 DEF OccupiedSeats
<1>3. {x \in ConnectedSeats' : x[1] # s} = {x \in ConnectedSeats : x[1] # s}
  BY <1>1 DEF OccupiedSeats, ConnectedSeats
<1>4. {x \in TravellingSeats' : x[1] # s} = {x \in TravellingSeats : x[1] # s}
  BY <1>1 DEF TravellingSeats
<1>5. \A x \in Seats : x[1] # s => SameEntry(x)
  BY <1>1 DEF SameEntry
<1> QED
  BY <1>2, <1>3, <1>4, <1>5

LEMMA DissolveStep ==
  ASSUME LInv, NEW s \in Slots, state[s] = "Active", OnlySlot(s),
         generation'[s] = generation[s], state'[s] = "Closed",
         \A p \in Players : /\ members'[s][p].occupied = FALSE
                            /\ members'[s][p].participating = FALSE,
         UNCHANGED <<nextPartyGeneration, nextMemberGeneration>>
  PROVE  Ledger!Dissolve(EntryOf(s, Host))
<1> DEFINE g == generation[s]
<1>1. /\ TravellingSeats \subseteq OccupiedSeats /\ ConnectedSeats \subseteq OccupiedSeats
      /\ OccupiedSeats \subseteq Seats
  BY SeatsNested DEF LInv
<1>2. \A x \in Seats : x[1] = s =>
        members'[x[1]][x[2]].occupied = FALSE /\ members'[x[1]][x[2]].participating = FALSE
  BY DEF Seats
<1>3. OccupiedSeats' = {x \in OccupiedSeats : x[1] # s}
  BY <1>2, OnlySlotChanges DEF OccupiedSeats
<1>4. ConnectedSeats' = {x \in ConnectedSeats : x[1] # s}
  <2>1. \A x \in ConnectedSeats' : x[1] # s
    BY <1>3 DEF ConnectedSeats
  <2> QED
    BY <2>1, OnlySlotChanges
<1>5. TravellingSeats' = {x \in TravellingSeats : x[1] # s}
  BY <1>2, OnlySlotChanges DEF TravellingSeats
<1>6. \A S \in SUBSET OccupiedSeats :
        EntriesNext({x \in S : x[1] # s}) = {f \in Entries(S) : f.party # g}
  <2> SUFFICES ASSUME NEW S \in SUBSET OccupiedSeats
               PROVE  EntriesNext({x \in S : x[1] # s}) = {f \in Entries(S) : f.party # g}
    OBVIOUS
  <2>1. \A x \in {x \in S : x[1] # s} : SameEntry(x)
    BY <1>1, OnlySlotChanges
  <2> QED
    BY <2>1, EntriesStay, EntriesElsewhere
<1>7. /\ Roster' = {f \in Roster : f.party # g}
      /\ Online' = {f \in Online : f.party # g}
      /\ Company' = {f \in Company : f.party # g}
  BY <1>1, <1>3, <1>4, <1>5, <1>6, LedgerSeats
<1>8. EntryOf(s, Host) \in Roster /\ EntryOf(s, Host).party = g /\ EntryOf(s, Host).leader
  <2>1. <<s, Host>> \in OccupiedSeats
    BY HostIsPlayer DEF LInv, RInv, IInv, Seated, OccupiedSeats, Seats
  <2>2. EntryOf(s, Host) \in Roster
    BY <2>1 DEF Roster, EntryOf
  <2> QED
    BY <2>2 DEF EntryOf
<1>9. Away' = Away \ {g}
  <2>1. ActiveSlots' = ActiveSlots \ {s}
    BY DEF ActiveSlots, OnlySlot
  <2>2. \A t \in ActiveSlots \ {s} : /\ activity'[t] = activity[t] /\ generation'[t] = generation[t]
                                     /\ generation[t] # g
    BY DEF ActiveSlots, OnlySlot, LInv, PartiesDistinct
  <2> QED
    BY <2>1, <2>2 DEF Away
<1> QED
  BY <1>7, <1>8, <1>9 DEF Ledger!Dissolve

LEMMA SetOutStep ==
  ASSUME LInv, NEW s \in Slots, state[s] = "Active", activity[s] = "Town", OnlySlot(s),
         members[s][Host].connected,
         activity'[s] # "Town", UNCHANGED <<generation, state>>,
         \A p \in Players : /\ members'[s][p].occupied = members[s][p].occupied
                            /\ members'[s][p].connected = members[s][p].connected
                            /\ members'[s][p].generation = members[s][p].generation
                            /\ members'[s][p].participating <=>
                                 members[s][p].occupied /\ members[s][p].connected,
         UNCHANGED <<nextPartyGeneration, nextMemberGeneration>>
  PROVE  Ledger!SetOut(EntryOf(s, Host))
<1> DEFINE g == generation[s]
<1>1. /\ TravellingSeats \subseteq OccupiedSeats /\ ConnectedSeats \subseteq OccupiedSeats
      /\ OccupiedSeats \subseteq Seats
  BY SeatsNested DEF LInv
<1>2. \A x \in Seats : x[1] = s =>
        /\ members'[x[1]][x[2]].occupied = members[x[1]][x[2]].occupied
        /\ members'[x[1]][x[2]].connected = members[x[1]][x[2]].connected
        /\ members'[x[1]][x[2]].participating <=> x \in ConnectedSeats
        /\ SameEntry(x)
  BY DEF Seats, SameEntry, ConnectedSeats, OccupiedSeats
<1>3. \A x \in Seats : SameEntry(x)
  BY <1>2, OnlySlotChanges
<1>4. OccupiedSeats' = OccupiedSeats
  BY <1>2, OnlySlotChanges DEF OccupiedSeats
<1>5. ConnectedSeats' = ConnectedSeats
  BY <1>1, <1>2, <1>4, OnlySlotChanges DEF ConnectedSeats
<1>6. TravellingSeats' = TravellingSeats \cup {x \in ConnectedSeats : x[1] = s}
  <2>1. \A x \in TravellingSeats : x[1] # s
    BY DEF TravellingSeats, Seats, LInv, RInv, SlotOK, Out
  <2>2. \A x \in Seats : x[1] = s => (x \in TravellingSeats' <=> x \in ConnectedSeats)
    BY <1>2 DEF TravellingSeats
  <2> QED
    BY <1>1, <2>1, <2>2, OnlySlotChanges DEF TravellingSeats
<1>7. Roster' = Roster /\ Online' = Online
  BY <1>1, <1>3, <1>4, <1>5, EntriesStay, LedgerSeats
<1>8. Company' = Company \cup {f \in Online : f.party = g}
  <2> DEFINE S == {x \in ConnectedSeats : x[1] = s}
  <2>1. EntriesNext(TravellingSeats \cup S) = Entries(TravellingSeats \cup S)
    BY <1>1, <1>3, EntriesStay
  <2>2. Entries(TravellingSeats \cup S) = Entries(TravellingSeats) \cup Entries(S)
    BY DEF Entries
  <2>3. Entries(S) = {f \in Entries(ConnectedSeats) : f.party = g}
    BY <1>1, EntriesElsewhere
  <2> QED
    BY <1>6, <2>1, <2>2, <2>3, LedgerSeats
<1>9. EntryOf(s, Host) \in Online /\ EntryOf(s, Host).party = g /\ EntryOf(s, Host).leader
  <2>1. <<s, Host>> \in ConnectedSeats
    BY HostIsPlayer DEF LInv, RInv, IInv, Seated, OccupiedSeats, ConnectedSeats, Seats
  <2>2. EntryOf(s, Host) \in Online
    BY <2>1 DEF Online, EntryOf
  <2> QED
    BY <2>2 DEF EntryOf
<1>10. g \notin Away /\ Away' = Away \cup {g}
  <2>1. ActiveSlots' = ActiveSlots /\ s \in ActiveSlots
    BY DEF ActiveSlots
  <2>2. \A t \in ActiveSlots \ {s} : activity'[t] = activity[t] /\ generation[t] # g
    BY DEF ActiveSlots, OnlySlot, LInv, PartiesDistinct
  <2> QED
    BY <2>1, <2>2 DEF Away
<1> QED
  BY <1>7, <1>8, <1>9, <1>10 DEF Ledger!SetOut

LEMMA ComeHomeStep ==
  ASSUME LInv, NEW s \in Slots, state[s] = "Active", activity[s] # "Town", OnlySlot(s),
         activity'[s] = "Town", UNCHANGED <<generation, state>>,
         \A p \in Players : /\ members'[s][p].occupied = members[s][p].occupied
                            /\ members'[s][p].connected = members[s][p].connected
                            /\ members'[s][p].generation = members[s][p].generation
                            /\ members'[s][p].participating = FALSE,
         UNCHANGED <<nextPartyGeneration, nextMemberGeneration>>
  PROVE  generation[s] \in Away /\ Ledger!ComeHome(generation[s])
<1> DEFINE g == generation[s]
<1>1. /\ TravellingSeats \subseteq OccupiedSeats /\ ConnectedSeats \subseteq OccupiedSeats
      /\ OccupiedSeats \subseteq Seats
  BY SeatsNested DEF LInv
<1>2. \A x \in Seats : x[1] = s =>
        /\ members'[x[1]][x[2]].occupied = members[x[1]][x[2]].occupied
        /\ members'[x[1]][x[2]].connected = members[x[1]][x[2]].connected
        /\ members'[x[1]][x[2]].participating = FALSE
        /\ SameEntry(x)
  BY DEF Seats, SameEntry
<1>3. \A x \in Seats : SameEntry(x)
  BY <1>2, OnlySlotChanges
<1>4. OccupiedSeats' = OccupiedSeats
  BY <1>2, OnlySlotChanges DEF OccupiedSeats
<1>5. ConnectedSeats' = ConnectedSeats
  BY <1>1, <1>2, <1>4, OnlySlotChanges DEF ConnectedSeats
<1>6. TravellingSeats' = {x \in TravellingSeats : x[1] # s}
  BY <1>2, OnlySlotChanges DEF TravellingSeats
<1>7. Roster' = Roster /\ Online' = Online
  BY <1>1, <1>3, <1>4, <1>5, EntriesStay, LedgerSeats
<1>8. Company' = {f \in Company : f.party # g}
  <2> DEFINE S == {x \in TravellingSeats : x[1] # s}
  <2>1. EntriesNext(S) = Entries(S)
    BY <1>1, <1>3, EntriesStay
  <2>2. Entries(S) = {f \in Entries(TravellingSeats) : f.party # g}
    BY <1>1, EntriesElsewhere
  <2> QED
    BY <1>6, <2>1, <2>2, LedgerSeats
<1>9. g \in Away /\ Away' = Away \ {g}
  <2>1. ActiveSlots' = ActiveSlots /\ s \in ActiveSlots
    BY DEF ActiveSlots
  <2>2. \A t \in ActiveSlots \ {s} : activity'[t] = activity[t] /\ generation[t] # g
    BY DEF ActiveSlots, OnlySlot, LInv, PartiesDistinct
  <2> QED
    BY <2>1, <2>2 DEF Away
<1> QED
  BY <1>7, <1>8, <1>9 DEF Ledger!ComeHome

\* The identity createParty takes is the next one.
LEMMA NextIdentity ==
  ASSUME NEW n \in Nat, n >= 1
  PROVE  n \notin 1..(n - 1) /\ 1..((n + 1) - 1) = (1..(n - 1)) \cup {n}
  OBVIOUS

LEMMA FoundStep ==
  ASSUME LInv, NEW s \in Slots, state[s] # "Active", OnlySlot(s),
         generation'[s] = nextPartyGeneration, activity'[s] = "Town",
         \A p \in Players : /\ members'[s][p].occupied <=> p = Host
                            /\ members'[s][p].connected <=> p = Host
                            /\ members'[s][p].participating = FALSE,
         members'[s][Host].generation = nextMemberGeneration,
         nextPartyGeneration' = nextPartyGeneration + 1,
         nextMemberGeneration' = nextMemberGeneration + 1
  PROVE  Ledger!Found(nextPartyGeneration, nextMemberGeneration)
<1> DEFINE x == <<s, Host>>
           e == [party |-> nextPartyGeneration, member |-> nextMemberGeneration, leader |-> TRUE]
<1>1. /\ TravellingSeats \subseteq OccupiedSeats /\ ConnectedSeats \subseteq OccupiedSeats
      /\ OccupiedSeats \subseteq Seats /\ x \in Seats /\ x[1] = s /\ x[2] = Host
  BY SeatsNested, HostIsPlayer DEF LInv, Seats
<1>2. \A y \in OccupiedSeats : y[1] # s
  BY DEF OccupiedSeats, Seats, LInv, RInv, IInv, Seated
<1>3. \A y \in Seats : y[1] = s =>
        /\ members'[y[1]][y[2]].occupied <=> y = x
        /\ members'[y[1]][y[2]].connected <=> y = x
        /\ members'[y[1]][y[2]].participating = FALSE
  BY DEF Seats
<1> HIDE DEF x
<1>4. OccupiedSeats' = OccupiedSeats \cup {x}
  <2>1. \A y \in Seats : y[1] = s => (y \in OccupiedSeats' <=> y = x)
    BY <1>3 DEF OccupiedSeats
  <2> QED
    BY <1>1, <1>2, <2>1, OnlySlotChanges DEF OccupiedSeats
<1>5. ConnectedSeats' = ConnectedSeats \cup {x}
  <2>1. \A y \in Seats : y[1] = s => (y \in ConnectedSeats' <=> y = x)
    BY <1>3 DEF OccupiedSeats, ConnectedSeats
  <2>2. ConnectedSeats' \subseteq Seats
    BY DEF OccupiedSeats, ConnectedSeats
  <2> QED
    BY <1>1, <1>2, <2>1, <2>2, OnlySlotChanges
<1>6. TravellingSeats' = TravellingSeats
  <2>1. \A y \in TravellingSeats' : y \in Seats /\ y[1] # s
    BY <1>3 DEF TravellingSeats
  <2>2. \A y \in TravellingSeats : y[1] # s
    BY <1>1, <1>2
  <2>3. {y \in TravellingSeats' : y[1] # s} = {y \in TravellingSeats : y[1] # s}
    BY OnlySlotChanges
  <2> QED
    BY <2>1, <2>2, <2>3
<1>7. EntryOf(x[1], x[2])' = e
  BY <1>1 DEF EntryOf
<1>8. \A S \in SUBSET OccupiedSeats :
        EntriesNext(S) = Entries(S) /\ EntriesNext(S \cup {x}) = Entries(S) \cup {e}
  <2> SUFFICES ASSUME NEW S \in SUBSET OccupiedSeats
               PROVE  EntriesNext(S) = Entries(S) /\ EntriesNext(S \cup {x}) = Entries(S) \cup {e}
    OBVIOUS
  <2>1. EntriesNext(S) = Entries(S)
    BY <1>1, <1>2, OnlySlotChanges, EntriesStay
  <2>2. EntriesNext(S \cup {x}) = EntriesNext(S) \cup {e}
    BY <1>7 DEF EntriesNext
  <2> QED
    BY <2>1, <2>2
<1>9. Roster' = Roster \cup {e} /\ Online' = Online \cup {e} /\ Company' = Company
  BY <1>1, <1>4, <1>5, <1>6, <1>8, LedgerSeats
<1>10. Away' = Away
  <2>1. \A t \in ActiveSlots : t # s /\ activity'[t] = activity[t] /\ generation'[t] = generation[t]
    BY DEF ActiveSlots, OnlySlot
  <2>2. \A t \in ActiveSlots' : t # s => t \in ActiveSlots
    BY DEF ActiveSlots, OnlySlot
  <2>3. \A t \in ActiveSlots : t \in ActiveSlots'
    BY DEF ActiveSlots, OnlySlot
  <2> QED
    BY <2>1, <2>2, <2>3 DEF Away
<1>11. /\ nextPartyGeneration \in Nat /\ nextPartyGeneration >= 1
       /\ nextMemberGeneration \in Nat /\ nextMemberGeneration >= 1
  BY DEF LInv, RInv, IInv, TypeOK
<1> QED
  BY <1>9, <1>10, <1>11, NextIdentity DEF Ledger!Found

\* Two sets that are the same apart from a slot neither of them reaches.
LEMMA SameElsewhere ==
  ASSUME NEW A, NEW B, NEW s,
         {x \in B : x[1] # s} = {x \in A : x[1] # s},
         \A x \in A : x[1] # s,
         \A x \in B : x[1] # s
  PROVE  B = A
<1>1. {x \in A : x[1] # s} = A
  OBVIOUS
<1>2. {x \in B : x[1] # s} = B
  OBVIOUS
<1> QED
  BY <1>1, <1>2

LEMMA FoundNothingStep ==
  ASSUME LInv, NEW s \in Slots, state[s] # "Active", state'[s] # "Active", OnlySlot(s),
         \A p \in Players : /\ members'[s][p].occupied = FALSE
                            /\ members'[s][p].participating = FALSE,
         nextPartyGeneration' = nextPartyGeneration + 1,
         UNCHANGED nextMemberGeneration
  PROVE  Ledger!FoundNothing(nextPartyGeneration)
<1>1. /\ TravellingSeats \subseteq OccupiedSeats /\ ConnectedSeats \subseteq OccupiedSeats
      /\ OccupiedSeats \subseteq Seats
  BY SeatsNested DEF LInv
<1>2. \A y \in OccupiedSeats : y[1] # s
  BY DEF OccupiedSeats, Seats, LInv, RInv, IInv, Seated
<1>3. \A y \in Seats : y[1] = s =>
        members'[y[1]][y[2]].occupied = FALSE /\ members'[y[1]][y[2]].participating = FALSE
  BY DEF Seats
<1>4. OccupiedSeats' = OccupiedSeats
  BY <1>2, <1>3, OnlySlotChanges DEF OccupiedSeats
<1>5. ConnectedSeats' = ConnectedSeats
  <2>1. \A y \in ConnectedSeats' : y[1] # s
    BY <1>2, <1>4 DEF ConnectedSeats
  <2>2. \A y \in ConnectedSeats : y[1] # s
    BY <1>1, <1>2
  <2>3. {x \in ConnectedSeats' : x[1] # s} = {x \in ConnectedSeats : x[1] # s}
    BY OnlySlotChanges
  <2> QED
    BY <2>1, <2>2, <2>3, SameElsewhere
<1>6. TravellingSeats' = TravellingSeats
  <2>1. \A y \in TravellingSeats' : y[1] # s
    BY <1>3 DEF TravellingSeats
  <2>2. \A y \in TravellingSeats : y[1] # s
    BY <1>1, <1>2
  <2>3. {x \in TravellingSeats' : x[1] # s} = {x \in TravellingSeats : x[1] # s}
    BY OnlySlotChanges
  <2> QED
    BY <2>1, <2>2, <2>3, SameElsewhere
<1>7. \A S \in SUBSET OccupiedSeats : EntriesNext(S) = Entries(S)
  BY <1>1, <1>2, OnlySlotChanges, EntriesStay
<1>8. Roster' = Roster /\ Online' = Online /\ Company' = Company
  BY <1>1, <1>4, <1>5, <1>6, <1>7, LedgerSeats
<1>9. Away' = Away
  <2>1. ActiveSlots' = ActiveSlots
    BY DEF ActiveSlots, OnlySlot
  <2>2. \A t \in ActiveSlots : activity'[t] = activity[t] /\ generation'[t] = generation[t]
    BY DEF ActiveSlots, OnlySlot
  <2> QED
    BY <2>1, <2>2 DEF Away
<1>10. nextPartyGeneration \in Nat /\ nextPartyGeneration >= 1
  BY DEF LInv, RInv, IInv, TypeOK
<1> QED
  BY <1>8, <1>9, <1>10, NextIdentity DEF Ledger!FoundNothing

\* A step that moves nobody: locking, or a member's location.
LEMMA LedgerStutters ==
  ASSUME RInv,
         \A s \in Slots, p \in Players :
           /\ members'[s][p].occupied = members[s][p].occupied
           /\ members'[s][p].connected = members[s][p].connected
           /\ members'[s][p].participating = members[s][p].participating
           /\ members'[s][p].generation = members[s][p].generation,
         UNCHANGED <<state, generation, activity, nextPartyGeneration, nextMemberGeneration>>
  PROVE  UNCHANGED Ledger!ledger
<1>1. \A x \in Seats :
        /\ members'[x[1]][x[2]].occupied = members[x[1]][x[2]].occupied
        /\ members'[x[1]][x[2]].connected = members[x[1]][x[2]].connected
        /\ members'[x[1]][x[2]].participating = members[x[1]][x[2]].participating
        /\ SameEntry(x)
  BY DEF Seats, SameEntry
<1>2. /\ OccupiedSeats' = OccupiedSeats /\ ConnectedSeats' = ConnectedSeats
      /\ TravellingSeats' = TravellingSeats
  BY <1>1 DEF OccupiedSeats, ConnectedSeats, TravellingSeats
<1>3. Roster' = Roster /\ Online' = Online /\ Company' = Company
  BY <1>1, <1>2, SeatsNested, EntriesStay, LedgerSeats
<1>4. Away' = Away
  BY DEF Away, ActiveSlots
<1> QED
  BY <1>3, <1>4 DEF Ledger!ledger

-----------------------------------------------------------------------------
(* Every call is a step of the ledger *)

LedgerStep == Ledger!Next \/ UNCHANGED Ledger!ledger

\* members with one member rewritten
LEMMA SeatRewritten ==
  ASSUME TypeOK, NEW s \in Slots, NEW p \in Players, NEW m,
         members' = [members EXCEPT ![s][p] = m],
         UNCHANGED <<state, generation, activity, nextPartyGeneration>>
  PROVE  OnlySeat(<<s, p>>) /\ members'[s][p] = m
<1>1. \A t \in Slots, q \in Players :
        members'[t][q] = IF t = s /\ q = p THEN m ELSE members[t][q]
  <2>1. members[s] \in [Players -> Member] /\ members \in [Slots -> [Players -> Member]]
    BY DEF TypeOK
  <2> QED
    BY <2>1
<1>2. \A y \in Seats \ {<<s, p>>} : members'[y[1]][y[2]] = members[y[1]][y[2]]
  BY <1>1 DEF Seats
<1> QED
  BY <1>1, <1>2 DEF OnlySeat

LEMMA DisconnectLedger ==
  ASSUME LInv, NEW c \in Credential, Disconnect(c)
  PROVE  LedgerStep
<1> DEFINE s == c.slot
           p == c.player
           x == <<s, p>>
           m == members[s][p]
           gone == [m EXCEPT !.connected = FALSE, !.participating = FALSE,
                             !.location = "DISCONNECTED"]
<1>1. s \in Slots /\ p \in Players /\ m.occupied /\ m.connected
  BY DEF Credential, Disconnect, ValidMember
<1>2. TypeOK /\ m \in Member
  BY <1>1 DEF LInv, RInv, IInv, TypeOK
<1>3. /\ gone.occupied /\ gone.connected = FALSE /\ gone.participating = FALSE
      /\ gone.generation = m.generation
  BY <1>1, <1>2 DEF Member
<1>4. /\ members' = [members EXCEPT ![s][p] = gone]
      /\ UNCHANGED <<state, generation, activity, nextPartyGeneration, nextMemberGeneration>>
  BY DEF Disconnect, counters
<1> HIDE DEF gone
<1>5. OnlySeat(x) /\ members'[s][p] = gone
  BY <1>1, <1>2, <1>4, SeatRewritten
<1>6. x \in ConnectedSeats /\ x[1] = s /\ x[2] = p
  BY <1>1 DEF ConnectedSeats, OccupiedSeats, Seats
<1>7. SameEntry(x)
  BY <1>3, <1>4, <1>5, <1>6 DEF SameEntry
<1>8. Ledger!GoOffline(EntryOf(x[1], x[2]))
  BY <1>3, <1>4, <1>5, <1>6, <1>7, OfflineStep DEF LInv
<1>9. EntryOf(x[1], x[2]) \in Roster
  BY <1>6 DEF Roster, ConnectedSeats
<1> QED
  BY <1>8, <1>9 DEF LedgerStep, Ledger!Next

LEMMA ReconnectLedger ==
  ASSUME LInv, NEW c \in Credential, Reconnect(c)
  PROVE  LedgerStep
<1> DEFINE s == c.slot
           p == c.player
           x == <<s, p>>
           m == members[s][p]
           back == Returned(m, activity[s])
<1>1. s \in Slots /\ p \in Players /\ m.occupied /\ ~m.connected
  BY DEF Credential, Reconnect
<1>2. TypeOK /\ m \in Member
  BY <1>1 DEF LInv, RInv, IInv, TypeOK
<1>3. /\ back.occupied /\ back.connected /\ back.participating = FALSE
      /\ back.generation = m.generation
  BY <1>1, <1>2 DEF Member, Returned
<1>4. /\ members' = [members EXCEPT ![s][p] = back]
      /\ UNCHANGED <<state, generation, activity, nextPartyGeneration, nextMemberGeneration>>
  BY DEF Reconnect, counters
<1> HIDE DEF back
<1>5. OnlySeat(x) /\ members'[s][p] = back
  BY <1>1, <1>2, <1>4, SeatRewritten
<1>6. x \in OccupiedSeats /\ x \notin ConnectedSeats /\ x[1] = s /\ x[2] = p
  BY <1>1 DEF ConnectedSeats, OccupiedSeats, Seats
<1>7. SameEntry(x)
  BY <1>3, <1>4, <1>5, <1>6 DEF SameEntry
<1>8. Ledger!ComeBack(EntryOf(x[1], x[2]))
  BY <1>3, <1>4, <1>5, <1>6, <1>7, ComeBackStep DEF LInv
<1>9. EntryOf(x[1], x[2]) \in Roster
  BY <1>6 DEF Roster
<1> QED
  BY <1>8, <1>9 DEF LedgerStep, Ledger!Next

LEMMA JoinPartyLedger ==
  ASSUME LInv, NEW s \in Slots, JoinParty(s)
  PROVE  LedgerStep
<1> DEFINE p == FirstOf(Players \ Occupied(s))
           x == <<s, p>>
           m == NewMember(nextMemberGeneration, tokensDrawn + 1,
                          SessionJoinHandle(session[s]))
<1>1. p \in Players /\ p \notin Occupied(s)
  BY FirstOfExists, PlayersFinite DEF JoinParty
<1>2. /\ members' = [members EXCEPT ![s][p] = m]
      /\ nextMemberGeneration' = nextMemberGeneration + 1
      /\ nextMemberGeneration < MaxGeneration
      /\ state[s] = "Active" /\ activity[s] = "Town"
      /\ UNCHANGED <<state, generation, activity, nextPartyGeneration>>
  BY DEF JoinParty
<1>3. m.occupied /\ m.connected /\ m.participating = FALSE /\ m.generation = nextMemberGeneration
  BY DEF NewMember
<1>4. p # Host
  BY <1>1, <1>2 DEF LInv, RInv, IInv, Seated, Occupied
<1> HIDE DEF p, m
<1>5. OnlySeat(x) /\ members'[s][p] = m
  BY <1>1, <1>2, SeatRewritten DEF LInv, RInv, IInv
<1>6. x \in Seats /\ x \notin OccupiedSeats /\ x[1] = s /\ x[2] = p
  BY <1>1 DEF OccupiedSeats, Occupied, Seats
<1>7. Ledger!Enter(generation[x[1]], nextMemberGeneration)
  BY <1>2, <1>3, <1>4, <1>5, <1>6, EnterStep
<1>8. generation[x[1]] \in 1..MaxGeneration /\ nextMemberGeneration \in 1..MaxGeneration
  BY <1>2, <1>6 DEF LInv, RInv, IInv, TypeOK, Numbered
<1> QED
  BY <1>7, <1>8 DEF LedgerStep, Ledger!Next

\* closeInternal as the ledger sees it
LEMMA CloseInternalLedger ==
  ASSUME LInv, NEW s \in Slots, state[s] = "Active", NEW before, NEW staying,
         CloseInternal(s, before, staying)
  PROVE  LedgerStep
<1>1. /\ members' = [members EXCEPT ![s] = Vacated]
      /\ state' = [state EXCEPT ![s] = "Closed"]
      /\ UNCHANGED <<generation, activity, nextPartyGeneration, nextMemberGeneration>>
  BY DEF CloseInternal, counters
<1>2. \A p \in Players : Vacated[p].occupied = FALSE /\ Vacated[p].participating = FALSE
  BY DEF Vacated, NoMember
<1>3. \A t \in Slots : members'[t] = IF t = s THEN Vacated ELSE members[t]
  BY <1>1, SlotReplaced DEF LInv, RInv, IInv
<1>4. \A t \in Slots : state'[t] = IF t = s THEN "Closed" ELSE state[t]
  BY <1>1 DEF LInv, RInv, IInv, TypeOK
<1>5. OnlySlot(s)
  BY <1>1, <1>3, <1>4 DEF OnlySlot
<1>6. Ledger!Dissolve(EntryOf(s, Host))
  BY <1>1, <1>2, <1>3, <1>4, <1>5, DissolveStep
<1>7. EntryOf(s, Host) \in Roster
  BY <1>6 DEF Ledger!Dissolve
<1> QED
  BY <1>6, <1>7 DEF LedgerStep, Ledger!Next

LEMMA ClosePartyLedger ==
  ASSUME LInv, NEW c \in Credential, CloseParty(c)
  PROVE  LedgerStep
<1>1. c.slot \in Slots /\ state[c.slot] = "Active"
  BY DEF Credential, CloseParty, ValidMember, ValidParty
<1> QED
  BY <1>1, CloseInternalLedger DEF CloseParty

LEMMA LeaveLedger ==
  ASSUME LInv, NEW c \in Credential, Leave(c)
  PROVE  LedgerStep
<1> DEFINE x == <<c.slot, c.player>>
<1>1. /\ c.slot \in Slots /\ c.player \in Players
      /\ members[c.slot][c.player].occupied /\ state[c.slot] = "Active"
  BY DEF Credential, Leave, ValidMember, ValidParty
<1>2. CASE IsLeader(c.player)
  <2>1. \E before, staying : CloseInternal(c.slot, before, staying)
    BY <1>2 DEF Leave
  <2> QED
    BY <1>1, <2>1, CloseInternalLedger
<1>3. CASE ~IsLeader(c.player)
  <2>1. /\ members' = [members EXCEPT ![c.slot][c.player] = NoMember]
        /\ UNCHANGED <<state, generation, activity, nextPartyGeneration, nextMemberGeneration>>
    BY <1>3 DEF Leave, counters
  <2>2. OnlySeat(x) /\ members'[c.slot][c.player] = NoMember
    BY <1>1, <2>1, SeatRewritten DEF LInv, RInv, IInv
  <2>3. x \in OccupiedSeats /\ x[1] = c.slot /\ x[2] = c.player
    BY <1>1 DEF OccupiedSeats, Seats
  <2>4. x[2] # Host
    BY <1>3, <2>3 DEF IsLeader
  <2>5. NoMember.occupied = FALSE /\ NoMember.participating = FALSE
    BY DEF NoMember
  <2>6. Ledger!Depart(EntryOf(x[1], x[2]))
    BY <2>1, <2>2, <2>3, <2>4, <2>5, DepartStep DEF LInv
  <2>7. EntryOf(x[1], x[2]) \in Roster
    BY <2>3 DEF Roster
  <2> QED
    BY <2>6, <2>7 DEF LedgerStep, Ledger!Next
<1> QED
  BY <1>2, <1>3

LEMMA SetLockedLedger ==
  ASSUME LInv, NEW c \in Credential, SetLocked(c)
  PROVE  LedgerStep
<1>1. UNCHANGED <<members, state, generation, activity, nextPartyGeneration, nextMemberGeneration>>
  BY DEF SetLocked, counters
<1> QED
  BY <1>1, LedgerStutters DEF LInv, LedgerStep

LEMMA UpdateMemberLedger ==
  ASSUME LInv, NEW c \in Credential, NEW location, UpdateMember(c, location)
  PROVE  LedgerStep
<1> DEFINE m == members[c.slot][c.player]
           moved == [m EXCEPT !.location = location]
<1>1. c.slot \in Slots /\ c.player \in Players
  BY DEF Credential
<1>2. TypeOK /\ m \in Member
  BY <1>1 DEF LInv, RInv, IInv, TypeOK
<1>3. /\ moved.occupied = m.occupied /\ moved.connected = m.connected
      /\ moved.participating = m.participating /\ moved.generation = m.generation
  BY <1>2 DEF Member
<1>4. /\ members' = [members EXCEPT ![c.slot][c.player] = moved]
      /\ UNCHANGED <<state, generation, activity, nextPartyGeneration, nextMemberGeneration>>
  BY DEF UpdateMember, counters
<1> HIDE DEF moved
<1>5. \A t \in Slots, q \in Players :
        members'[t][q] = IF t = c.slot /\ q = c.player THEN moved ELSE members[t][q]
  <2>1. members[c.slot] \in [Players -> Member] /\ members \in [Slots -> [Players -> Member]]
    BY <1>1, <1>2 DEF TypeOK
  <2> QED
    BY <1>1, <1>4, <2>1
<1> QED
  BY <1>3, <1>4, <1>5, LedgerStutters DEF LInv, LedgerStep

LEMMA StartActivityLedger ==
  ASSUME LInv, NEW c \in Credential, NEW act \in {"Forest", "Dungeon"}, StartActivity(c, act)
  PROVE  LedgerStep
<1> DEFINE s == c.slot
           Gone(m) == [m EXCEPT !.participating = TRUE,
                                !.location = IF act = "Forest" THEN "FOREST" ELSE "DUNGEON"]
<1>1. /\ s \in Slots /\ state[s] = "Active" /\ activity[s] = "Town" /\ members[s][Host].connected
  BY DEF Credential, StartActivity, ValidMember, ValidParty, IsLeader
<1>2. /\ members' = [members EXCEPT ![s] = [p \in Players |->
           IF p \in Connected(s) THEN Gone(members[s][p]) ELSE members[s][p]]]
      /\ activity' = [activity EXCEPT ![s] = act]
      /\ UNCHANGED <<state, generation, nextPartyGeneration, nextMemberGeneration>>
  BY DEF StartActivity, counters
<1>3. \A m \in Member : /\ Gone(m).occupied = m.occupied
                        /\ Gone(m).connected = m.connected
                        /\ Gone(m).generation = m.generation
                        /\ Gone(m).participating = TRUE
  BY DEF Member
<1>4. \A p \in Players : members[s][p] \in Member /\ ~members[s][p].participating
  BY <1>1 DEF LInv, RInv, IInv, TypeOK, SlotOK, Out
<1> HIDE DEF s, Gone
<1>5. /\ \A p \in Players : members'[s][p] = IF p \in Connected(s) THEN Gone(members[s][p])
                                                             ELSE members[s][p]
      /\ \A t \in Slots \ {s} : members'[t] = members[t]
  BY <1>1, <1>2 DEF LInv, RInv, IInv, TypeOK
<1>6. activity'[s] = act /\ \A t \in Slots \ {s} : activity'[t] = activity[t]
  BY <1>1, <1>2 DEF LInv, RInv, IInv, TypeOK
<1>7. OnlySlot(s)
  BY <1>2, <1>5, <1>6 DEF OnlySlot
<1>8. \A p \in Players : /\ members'[s][p].occupied = members[s][p].occupied
                         /\ members'[s][p].connected = members[s][p].connected
                         /\ members'[s][p].generation = members[s][p].generation
                         /\ members'[s][p].participating <=>
                              members[s][p].occupied /\ members[s][p].connected
  BY <1>3, <1>4, <1>5 DEF Connected, Occupied
<1>9. Ledger!SetOut(EntryOf(s, Host))
  BY <1>1, <1>2, <1>6, <1>7, <1>8, SetOutStep
<1>10. EntryOf(s, Host) \in Roster
  <2>1. EntryOf(s, Host) \in Online
    BY <1>9 DEF Ledger!SetOut
  <2> QED
    BY <2>1 DEF Online, Roster, ConnectedSeats
<1> QED
  BY <1>9, <1>10 DEF LedgerStep, Ledger!Next

LEMMA ReturnToTownLedger ==
  ASSUME LInv, NEW c \in Credential, ReturnToTown(c)
  PROVE  LedgerStep
<1> DEFINE s == c.slot
<1>1. s \in Slots /\ state[s] = "Active"
  BY DEF Credential, ReturnToTown, ValidMember, ValidParty
<1>2. /\ members' = [members EXCEPT ![s] = [p \in Players |-> Rested(members[s][p])]]
      /\ activity' = [activity EXCEPT ![s] = "Town"]
      /\ UNCHANGED <<state, generation, nextPartyGeneration, nextMemberGeneration>>
  BY DEF ReturnToTown, counters
<1>3. \A m \in Member : /\ Rested(m).occupied = m.occupied
                        /\ Rested(m).connected = m.connected
                        /\ Rested(m).generation = m.generation
                        /\ Rested(m).participating = FALSE
  BY DEF Member, Rested
<1>4. \A p \in Players : members[s][p] \in Member
  BY <1>1 DEF LInv, RInv, IInv, TypeOK
<1> HIDE DEF s
<1>5. /\ \A p \in Players : members'[s][p] = Rested(members[s][p])
      /\ \A t \in Slots \ {s} : members'[t] = members[t]
  BY <1>1, <1>2 DEF LInv, RInv, IInv, TypeOK
<1>6. activity'[s] = "Town" /\ \A t \in Slots \ {s} : activity'[t] = activity[t]
  BY <1>1, <1>2 DEF LInv, RInv, IInv, TypeOK
<1>7. \A p \in Players : /\ members'[s][p].occupied = members[s][p].occupied
                         /\ members'[s][p].connected = members[s][p].connected
                         /\ members'[s][p].generation = members[s][p].generation
                         /\ members'[s][p].participating = FALSE
  BY <1>3, <1>4, <1>5
<1>8. CASE activity[s] # "Town"
  <2>1. OnlySlot(s)
    BY <1>2, <1>5, <1>6 DEF OnlySlot
  <2>2. generation[s] \in Away /\ Ledger!ComeHome(generation[s])
    BY <1>1, <1>2, <1>6, <1>7, <1>8, <2>1, ComeHomeStep
  <2> QED
    BY <2>2 DEF LedgerStep, Ledger!Next
<1>9. CASE activity[s] = "Town"
  <2>1. activity' = activity
    BY <1>2, <1>9 DEF LInv, RInv, IInv, TypeOK
  <2>2. \A p \in Players : members[s][p].participating = FALSE
    BY <1>1, <1>4, <1>9 DEF LInv, RInv, SlotOK, Out, Member
  <2>3. \A t \in Slots, p \in Players :
          /\ members'[t][p].occupied = members[t][p].occupied
          /\ members'[t][p].connected = members[t][p].connected
          /\ members'[t][p].participating = members[t][p].participating
          /\ members'[t][p].generation = members[t][p].generation
    BY <1>5, <1>7, <2>2
  <2> QED
    BY <1>2, <2>1, <2>3, LedgerStutters DEF LInv, LedgerStep
<1> QED
  BY <1>8, <1>9

LEMMA CreatePartyLedger ==
  ASSUME LInv, NEW c \in Codes, CreateParty(c)
  PROVE  LedgerStep
<1> DEFINE s == FirstOf(VacantSlots)
           host == NewMember(nextMemberGeneration, tokensDrawn + 1,
                             SessionJoinHandle(Initialized(session[s])))
           ms == [Vacated EXCEPT ![Host] = host]
<1>1. s \in Slots /\ state[s] # "Active"
  BY VacantSlot DEF CreateParty, CanCreate
<1>2. /\ ResetSlot(s, c)
      /\ members' = [members EXCEPT ![s] = ms]
      /\ nextMemberGeneration' = nextMemberGeneration + 1
      /\ state' = [state EXCEPT ![s] = "Active"]
      /\ nextPartyGeneration < MaxGeneration /\ nextMemberGeneration < MaxGeneration
  BY DEF CreateParty, CanCreate
<1>3. host.occupied /\ host.connected /\ host.participating = FALSE /\ host.generation = nextMemberGeneration
  BY DEF NewMember
<1>4. ms[Host] = host /\ \A p \in Players : p # Host => ms[p] = NoMember
  BY HostIsPlayer DEF Vacated
<1>5. NoMember.occupied = FALSE /\ NoMember.connected = FALSE /\ NoMember.participating = FALSE
  BY DEF NoMember
<1> HIDE DEF s, host, ms
<1>6. \A t \in Slots : members'[t] = IF t = s THEN ms ELSE members[t]
  BY <1>1, <1>2, SlotReplaced DEF LInv, RInv, IInv
<1>7. \A p \in Players : /\ members'[s][p].occupied <=> p = Host
                         /\ members'[s][p].connected <=> p = Host
                         /\ members'[s][p].participating = FALSE
  BY <1>1, <1>3, <1>4, <1>5, <1>6
<1>8. members'[s][Host].generation = nextMemberGeneration
  BY <1>1, <1>3, <1>4, <1>6
<1>9. /\ generation'[s] = nextPartyGeneration /\ activity'[s] = "Town"
      /\ nextPartyGeneration' = nextPartyGeneration + 1
      /\ \A t \in Slots \ {s} : /\ state'[t] = state[t] /\ generation'[t] = generation[t]
                                /\ activity'[t] = activity[t]
  BY <1>1, <1>2 DEF ResetSlot, LInv, RInv, IInv, TypeOK
<1>10. OnlySlot(s)
  BY <1>6, <1>9 DEF OnlySlot
<1>11. Ledger!Found(nextPartyGeneration, nextMemberGeneration)
  BY <1>1, <1>2, <1>7, <1>8, <1>9, <1>10, FoundStep
<1>12. nextPartyGeneration \in 1..MaxGeneration /\ nextMemberGeneration \in 1..MaxGeneration
  BY DEF LInv, RInv, IInv, TypeOK
<1> QED
  BY <1>11, <1>12 DEF LedgerStep, Ledger!Next

LEMMA CreatePartyFailsLedger ==
  ASSUME LInv, NEW c \in Codes, CreatePartyFails(c)
  PROVE  LedgerStep
<1> DEFINE s == FirstOf(VacantSlots)
<1>1. s \in Slots /\ state[s] # "Active"
  BY VacantSlot DEF CreatePartyFails, CanCreate
<1>2. /\ ResetSlot(s, NoCode)
      /\ members' = [members EXCEPT ![s] = Vacated]
      /\ state' = [state EXCEPT ![s] = "Empty"]
      /\ UNCHANGED nextMemberGeneration
  BY DEF CreatePartyFails
<1>3. \A p \in Players : Vacated[p].occupied = FALSE /\ Vacated[p].participating = FALSE
  BY DEF Vacated, NoMember
<1> HIDE DEF s
<1>4. \A t \in Slots : members'[t] = IF t = s THEN Vacated ELSE members[t]
  BY <1>1, <1>2, SlotReplaced DEF LInv, RInv, IInv
<1>5. /\ nextPartyGeneration' = nextPartyGeneration + 1 /\ state'[s] # "Active"
      /\ \A t \in Slots \ {s} : /\ state'[t] = state[t] /\ generation'[t] = generation[t]
                                /\ activity'[t] = activity[t]
  BY <1>1, <1>2 DEF ResetSlot, LInv, RInv, IInv, TypeOK
<1>6. OnlySlot(s)
  BY <1>4, <1>5 DEF OnlySlot
<1>7. Ledger!FoundNothing(nextPartyGeneration)
  <2>1. \A p \in Players : members'[s][p].occupied = FALSE /\ members'[s][p].participating = FALSE
    BY <1>1, <1>3, <1>4
  <2> QED
    BY <1>1, <1>2, <1>5, <1>6, <2>1, FoundNothingStep
<1>8. nextPartyGeneration \in 1..MaxGeneration
  BY DEF LInv, RInv, IInv, TypeOK
<1> QED
  BY <1>7, <1>8 DEF LedgerStep, Ledger!Next

-----------------------------------------------------------------------------
(* Parties keep generations of their own *)

LEMMA PartiesStay ==
  ASSUME LInv, UNCHANGED generation,
         \A t \in Slots : state'[t] = "Active" => state[t] = "Active"
  PROVE  PartiesDistinct'
  BY DEF LInv, PartiesDistinct

LEMMA CreatePartyParties ==
  ASSUME LInv, NEW c \in Codes, CreateParty(c) \/ CreatePartyFails(c)
  PROVE  PartiesDistinct'
<1>0. PICK s \in Slots : s = FirstOf(VacantSlots)
  BY VacantSlot DEF CreateParty, CreatePartyFails, CanCreate
<1>1. /\ generation' = [generation EXCEPT ![s] = nextPartyGeneration]
      /\ \E st \in {"Active", "Empty"} : state' = [state EXCEPT ![s] = st]
  BY <1>0 DEF CreateParty, CreatePartyFails, ResetSlot
<1>2. /\ generation'[s] = nextPartyGeneration
      /\ \A t \in Slots \ {s} : generation'[t] = generation[t] /\ state'[t] = state[t]
  BY <1>1 DEF LInv, RInv, IInv, TypeOK
<1>3. \A t \in Slots : generation[t] # nextPartyGeneration
  BY DEF LInv, RInv, IInv, TypeOK, Numbered
<1> QED
  BY <1>2, <1>3 DEF LInv, PartiesDistinct

\* Each step of the registry is one of the ledger or none, and the parties stay distinct.
LEMMA NextLedger ==
  ASSUME LInv, Next
  PROVE  LedgerStep /\ PartiesDistinct'
<1>1. IInv
  BY DEF LInv, RInv
<1>2. CASE \E code \in Codes : CreateParty(code) \/ CreatePartyFails(code)
  BY <1>2, CreatePartyLedger, CreatePartyFailsLedger, CreatePartyParties
<1>3. CASE \E s \in Slots : JoinParty(s)
  <2>1. PICK s \in Slots : JoinParty(s)
    BY <1>3
  <2>2. UNCHANGED <<state, generation>>
    BY <2>1 DEF JoinParty
  <2> QED
    BY <2>1, <2>2, JoinPartyLedger, PartiesStay
<1>4. ASSUME NEW c \in Issued,
             \/ Disconnect(c) \/ Reconnect(c) \/ Leave(c)
             \/ CloseParty(c) \/ SetLocked(c) \/ ReturnToTown(c)
             \/ \E act \in {"Forest", "Dungeon"} : StartActivity(c, act)
             \/ \E location \in {"TOWN", "FOREST", "DUNGEON"} : UpdateMember(c, location)
      PROVE  LedgerStep /\ PartiesDistinct'
  <2>1. c \in Credential
    BY <1>1, IssuedType
  <2>2. LedgerStep
    BY <1>4, <2>1, DisconnectLedger, ReconnectLedger, LeaveLedger, ClosePartyLedger,
       SetLockedLedger, ReturnToTownLedger, StartActivityLedger, UpdateMemberLedger
  <2>3. /\ UNCHANGED generation
        /\ UNCHANGED state \/ state' = [state EXCEPT ![c.slot] = "Closed"]
    BY <1>4 DEF Disconnect, Reconnect, Leave, CloseParty, SetLocked, ReturnToTown,
                StartActivity, UpdateMember, CloseInternal
  <2>4. \A t \in Slots : state'[t] = "Active" => state[t] = "Active"
    BY <1>1, <2>1, <2>3 DEF IInv, TypeOK, Credential
  <2> QED
    BY <2>2, <2>3, <2>4, PartiesStay
<1> QED
  BY <1>2, <1>3, <1>4 DEF Next

LEMMA StutterLedger ==
  ASSUME LInv, UNCHANGED vars
  PROVE  LedgerStep /\ PartiesDistinct'
<1>1. LedgerStep
  BY LedgerStutters DEF LInv, LedgerStep, vars
<1>2. PartiesDistinct'
  BY PartiesStay DEF vars
<1> QED
  BY <1>1, <1>2

\* At first the ledger is empty.
LEMMA InitLedger == Init => Ledger!Init /\ PartiesDistinct
<1> SUFFICES ASSUME Init PROVE Ledger!Init /\ PartiesDistinct
  OBVIOUS
<1>1. \A x \in Seats : ~members[x[1]][x[2]].occupied /\ ~members[x[1]][x[2]].participating
  BY DEF Init, Vacated, NoMember, Seats
<1>2. OccupiedSeats = {} /\ ConnectedSeats = {} /\ TravellingSeats = {}
  BY <1>1 DEF OccupiedSeats, ConnectedSeats, TravellingSeats
<1>3. \A s \in Slots : state[s] # "Active"
  BY DEF Init
<1>4. Roster = {} /\ Online = {} /\ Company = {} /\ Away = {}
  BY <1>2, <1>3 DEF Roster, Online, Company, Away, ActiveSlots
<1>5. 1..(nextPartyGeneration - 1) = {} /\ 1..(nextMemberGeneration - 1) = {}
  BY DEF Init
<1> QED
  BY <1>3, <1>4, <1>5 DEF Ledger!Init, PartiesDistinct

-----------------------------------------------------------------------------
(* Theorems *)

\* The roster's invariant, with parties that keep generations of their own.
THEOREM LedgerInvariance == Spec => []LInv
<1>1. Init => PartiesDistinct
  BY InitLedger
<1>2. RInv /\ PartiesDistinct /\ [Next]_vars => PartiesDistinct'
  BY NextLedger, StutterLedger DEF LInv
<1>3. RInv /\ PartiesDistinct => LInv
  BY DEF LInv
<1> QED
  BY <1>1, <1>2, <1>3, RosterInvariance, PTL DEF Spec

\* The registry implements the ledger: whatever it does with its slots, handles
\* and counters, seen from outside parties and memberships are founded, entered,
\* left and over as PartyLedger says.
THEOREM RegistryKeepsTheLedger == Spec => ImplementsLedger
<1>1. Init => Ledger!Init
  BY InitLedger
<1>2. LInv /\ [Next]_vars => [Ledger!Next]_(Ledger!ledger)
  BY NextLedger, StutterLedger DEF LedgerStep
<1> QED
  BY <1>1, <1>2, LedgerInvariance, PTL DEF Spec, ImplementsLedger, Ledger!Spec

=============================================================================
