--------------------------- MODULE NativePartyProofs ---------------------------
(***************************************************************************)
(* Proofs about NativeParty for any number of controllers.  The two        *)
(* rosters, the worlds, the adventures and the trade offers are parts of   *)
(* one inductive invariant: why nobody is out in a world that is reset     *)
(* rests on who lives there, and that on who is a member.                  *)
(*                                                                         *)
(* The parts are written for states given by their values, so that they    *)
(* can speak of the state between the founding of a party and the journey  *)
(* that one call of startNativePartyAdventure makes of both.               *)
(***************************************************************************)
EXTENDS NativeParty, FiniteSetTheorems, WellFoundedInduction, TLAPS

-----------------------------------------------------------------------------
(* The inductive invariant *)

TypeOK ==
  /\ scene \in [Controllers -> Scenes]
  /\ connected \subseteq Controllers
  /\ social \in [Controllers -> Social]
  /\ ownership \in [Controllers -> Worlds]
  /\ registry \in [PartySlots -> Party]
  /\ run \in [Worlds -> Runs]
  /\ combat \subseteq Worlds
  /\ trades \subseteq Controllers \X Controllers
  /\ thrown \in BOOLEAN

\* A member sits in the registry, online exactly when it is connected, and
\* plays in its party's world.
SeatedIn(c, soc, own, reg, scn, con) ==
  /\ soc[c].player \in Members(reg[soc[c].party])
  /\ scn[c] \notin {"Absent", "Creating"}
  /\ IsOnline(reg[soc[c].party], soc[c].player) <=> c \in con
  /\ own[c] = soc[c].world
  /\ soc[c].player = 0 => own[c] = c

\* Nobody shares a seat, and a party shares its world.
Apart(c, d, soc, own) ==
  soc[c].member /\ soc[d].member /\ soc[c].party = soc[d].party =>
    /\ own[c] = own[d]
    /\ soc[c].player = soc[d].player => c = d

\* Every seat that is taken is some controller's, and the leader's is taken.
Filled(k, soc, reg) ==
  /\ \A p \in Members(reg[k]) :
       \E c \in Controllers : soc[c].member /\ soc[c].party = k /\ soc[c].player = p
  /\ Members(reg[k]) # {} => 0 \in Members(reg[k])

RosterOf(soc, own, reg, scn, con) ==
  /\ \A c \in Controllers : IF soc[c].member THEN SeatedIn(c, soc, own, reg, scn, con)
                                             ELSE own[c] = c
  /\ \A c, d \in Controllers : Apart(c, d, soc, own)
  /\ \A k \in PartySlots : Filled(k, soc, reg)

\* Whoever is out is in the adventure its party is on.
OutOf(soc, reg, scn) ==
  \A c \in Controllers : scn[c] \in Away =>
    /\ soc[c].member
    /\ reg[soc[c].party].activity = scn[c]
    /\ reg[soc[c].party].locked

\* Where there is a fight there is somebody.
FoughtBy(own, scn, com) == \A w \in com : \E c \in Controllers : scn[c] \in Away /\ own[c] = w

NPInv ==
  /\ TypeOK
  /\ RosterOf(social, ownership, registry, scene, connected)
  /\ OutOf(social, registry, scene)
  /\ FoughtBy(ownership, scene, combat)
  /\ TradesBindPartners
  /\ ~thrown

-----------------------------------------------------------------------------
(* Numbers *)

LEMMA MinExists ==
  ASSUME NEW S, S \subseteq Nat, S # {}
  PROVE  Min(S) \in S
<1>1. \E p \in S : \A q \in S : ~(<<q, p>> \in OpToRel(<, Nat))
  BY WFMin, NatLessThanWellFounded
<1>2. PICK p \in S : \A q \in S : ~(<<q, p>> \in OpToRel(<, Nat))
  BY <1>1
<1>3. \A q \in S : p <= q
  <2> SUFFICES ASSUME NEW q \in S PROVE p <= q
    OBVIOUS
  <2>1. p \in Nat /\ q \in Nat
    OBVIOUS
  <2>2. <<q, p>> \in Nat \X Nat
    BY <2>1
  <2>3. ~(q < p)
    BY <1>2, <2>2 DEF OpToRel
  <2> QED
    BY <2>1, <2>3
<1> QED
  BY <1>3 DEF Min

LEMMA ControllersNumbers ==
  /\ Controllers \subseteq Nat /\ 0 \in Controllers
  /\ Seats = Controllers /\ PartySlots = Controllers /\ Worlds = Controllers
  /\ IsFiniteSet(Controllers)
  BY ControllersAssumption, FS_Interval DEF Controllers, Seats, PartySlots, Worlds

-----------------------------------------------------------------------------
(* What the calls of the registry keep *)

\* The same seats are taken by the same people in the same state.
SameSeats(party, other) ==
  /\ other \in Party
  /\ Members(other) = Members(party)
  /\ \A p \in Seats : IsOnline(other, p) <=> IsOnline(party, p)

LEMMA LocatedSeats ==
  ASSUME NEW party \in Party, NEW ps, NEW location \in {"TOWN", "FOREST", "DUNGEON"}
  PROVE  /\ SameSeats(party, Located(party, ps, location))
         /\ Located(party, ps, location).activity = party.activity
         /\ Located(party, ps, location).locked = party.locked
<1> DEFINE seat == [p \in Seats |-> IF p \in ps /\ IsOnline(party, p) THEN location ELSE party.seat[p]]
           other == [party EXCEPT !.seat = seat]
<1>1. Located(party, ps, location) = other
  BY DEF Located
<1>2. seat \in [Seats -> Locations \cup {Vacant}]
  BY DEF Party, Locations
<1>3. other \in Party /\ other.seat = seat /\ other.activity = party.activity
      /\ other.locked = party.locked
  BY <1>2 DEF Party
<1>4. \A p \in Seats : /\ seat[p] = Vacant <=> party.seat[p] = Vacant
                       /\ seat[p] = "DISCONNECTED" <=> party.seat[p] = "DISCONNECTED"
  BY DEF IsOnline, Vacant
<1> HIDE DEF seat, other
<1> QED
  BY <1>1, <1>3, <1>4 DEF SameSeats, Members, IsOnline

LEMMA StartedSeats ==
  ASSUME NEW party \in Party, NEW act \in Away
  PROVE  /\ SameSeats(party, Started(party, act, LocationIn(act)))
         /\ Started(party, act, LocationIn(act)).activity = act
         /\ Started(party, act, LocationIn(act)).locked
<1> DEFINE moved == Located(party, Seats, LocationIn(act))
<1>1. LocationIn(act) \in {"TOWN", "FOREST", "DUNGEON"}
  BY DEF LocationIn, Away
<1>2. SameSeats(party, moved)
  BY <1>1, LocatedSeats
<1>3. Started(party, act, LocationIn(act)) = [moved EXCEPT !.activity = act, !.locked = TRUE]
  BY DEF Started
<1> HIDE DEF moved
<1> QED
  BY <1>2, <1>3 DEF SameSeats, Party, Members, IsOnline

LEMMA ReturnedSeats ==
  ASSUME NEW party \in Party
  PROVE  SameSeats(party, ReturnedToTown(party))
  BY DEF ReturnedToTown, SameSeats, Party, Members, IsOnline

LEMMA DisconnectedSeats ==
  ASSUME NEW party \in Party, NEW p \in Members(party)
  PROVE  /\ Disconnected(party, p) \in Party
         /\ Members(Disconnected(party, p)) = Members(party)
         /\ \A q \in Seats : IsOnline(Disconnected(party, p), q) <=> q # p /\ IsOnline(party, q)
         /\ Disconnected(party, p).activity = party.activity
         /\ Disconnected(party, p).locked = party.locked
<1> DEFINE other == Disconnected(party, p)
<1>1. /\ other \in Party /\ other.activity = party.activity /\ other.locked = party.locked
      /\ \A q \in Seats : other.seat[q] = IF q = p THEN "DISCONNECTED" ELSE party.seat[q]
  BY DEF Disconnected, Party, Locations, Members
<1>2. p \in Seats /\ party.seat[p] # Vacant /\ "DISCONNECTED" # Vacant
  BY DEF Members, Vacant
<1> HIDE DEF other
<1>3. Members(other) = Members(party)
  BY <1>1, <1>2 DEF Members
<1>4. \A q \in Seats : IsOnline(other, q) <=> q # p /\ IsOnline(party, q)
  BY <1>1, <1>2 DEF IsOnline
<1> QED
  BY <1>1, <1>3, <1>4 DEF other

LEMMA ReconnectedSeats ==
  ASSUME NEW party \in Party, NEW p \in Members(party)
  PROVE  /\ Reconnected(party, p) \in Party
         /\ Members(Reconnected(party, p)) = Members(party)
         /\ \A q \in Seats : IsOnline(Reconnected(party, p), q) <=> q = p \/ IsOnline(party, q)
         /\ Reconnected(party, p).activity = party.activity
         /\ Reconnected(party, p).locked = party.locked
<1> DEFINE other == Reconnected(party, p)
           place == IF party.activity = "Town" THEN "TOWN" ELSE "CONNECTING"
<1>1. p \in Seats /\ party.seat[p] # Vacant /\ place # Vacant /\ place # "DISCONNECTED"
      /\ place \in Locations
  BY DEF Members, Vacant, Locations
<1>2. CASE IsOnline(party, p)
  BY <1>2 DEF Reconnected
<1>3. CASE ~IsOnline(party, p)
  <2>1. other = [party EXCEPT !.seat[p] = place]
    BY <1>3 DEF Reconnected
  <2> HIDE DEF place
  <2>2. /\ other \in Party /\ other.activity = party.activity /\ other.locked = party.locked
        /\ \A q \in Seats : other.seat[q] = IF q = p THEN place ELSE party.seat[q]
    BY <1>1, <2>1 DEF Party
  <2> HIDE DEF other
  <2>3. Members(other) = Members(party)
    BY <1>1, <2>2 DEF Members
  <2>4. \A q \in Seats : IsOnline(other, q) <=> q = p \/ IsOnline(party, q)
    BY <1>1, <2>2 DEF IsOnline
  <2> QED
    BY <2>2, <2>3, <2>4 DEF other
<1> QED
  BY <1>2, <1>3

-----------------------------------------------------------------------------
(* What the roster says *)

\* A roster of well-formed parts.
GoodRoster(soc, own, reg, scn, con) ==
  /\ soc \in [Controllers -> Social]
  /\ own \in [Controllers -> Worlds]
  /\ reg \in [PartySlots -> Party]
  /\ RosterOf(soc, own, reg, scn, con)

\* A party plays in the world of its leader's number.
LEMMA Landlord ==
  ASSUME NEW soc, NEW own, NEW reg, NEW scn, NEW con, GoodRoster(soc, own, reg, scn, con),
         NEW c \in Controllers, soc[c].member
  PROVE  /\ own[c] \in Controllers
         /\ soc[own[c]].member /\ soc[own[c]].party = soc[c].party
         /\ soc[own[c]].player = 0
<1> DEFINE k == soc[c].party
<1>1. k \in PartySlots
  BY DEF GoodRoster, Social
<1>2. Members(reg[k]) # {}
  BY DEF GoodRoster, RosterOf, SeatedIn
<1>3. PICK d \in Controllers : soc[d].member /\ soc[d].party = k /\ soc[d].player = 0
  BY <1>1, <1>2 DEF GoodRoster, RosterOf, Filled
<1>4. own[d] = d
  BY <1>3 DEF GoodRoster, RosterOf, SeatedIn
<1>5. own[c] = own[d]
  BY <1>3 DEF GoodRoster, RosterOf, Apart
<1> QED
  BY <1>3, <1>4, <1>5

\* Whoever shares a world shares a party.
LEMMA Neighbours ==
  ASSUME NEW soc, NEW own, NEW reg, NEW scn, NEW con, GoodRoster(soc, own, reg, scn, con),
         NEW c \in Controllers, NEW d \in Controllers, own[c] = own[d], c # d
  PROVE  soc[c].member /\ soc[d].member /\ soc[c].party = soc[d].party
<1>1. \A e \in Controllers : ~soc[e].member => own[e] = e
  BY DEF GoodRoster, RosterOf
<1>2. soc[c].member
  <2> SUFFICES ASSUME ~soc[c].member PROVE FALSE
    OBVIOUS
  <2>1. own[d] = c /\ soc[d].member
    BY <1>1
  <2> QED
    BY <2>1, Landlord
<1>3. soc[d].member
  <2> SUFFICES ASSUME ~soc[d].member PROVE FALSE
    OBVIOUS
  <2>1. own[c] = d
    BY <1>1
  <2> QED
    BY <1>2, <2>1, Landlord
<1>4. soc[own[c]].party = soc[c].party
  BY <1>2, Landlord
<1>5. soc[own[d]].party = soc[d].party
  BY <1>3, Landlord
<1> QED
  BY <1>2, <1>3, <1>4, <1>5

\* As long as nobody joins or leaves, only connections and scenes matter.
LEMMA KeepsRoster ==
  ASSUME NEW soc, NEW own, NEW reg, NEW scn, NEW con, GoodRoster(soc, own, reg, scn, con),
         NEW reg2 \in [PartySlots -> Party], NEW scn2, NEW con2,
         \A k \in PartySlots : Members(reg2[k]) = Members(reg[k]),
         \A c \in Controllers : soc[c].member =>
           /\ scn2[c] \notin {"Absent", "Creating"}
           /\ IsOnline(reg2[soc[c].party], soc[c].player) <=> c \in con2
  PROVE  RosterOf(soc, own, reg2, scn2, con2)
<1>1. \A c \in Controllers : soc[c].member => soc[c].party \in PartySlots
  BY DEF GoodRoster, Social
<1>2. ASSUME NEW c \in Controllers, soc[c].member
      PROVE  SeatedIn(c, soc, own, reg2, scn2, con2)
  BY <1>1, <1>2 DEF GoodRoster, RosterOf, SeatedIn
<1>3. \A k \in PartySlots : Filled(k, soc, reg2)
  BY DEF GoodRoster, RosterOf, Filled
<1> QED
  BY <1>2, <1>3 DEF GoodRoster, RosterOf

LEMMA TheRoster == NPInv => GoodRoster(social, ownership, registry, scene, connected)
  BY DEF NPInv, TypeOK, GoodRoster

LEMMA RostersFollow == NPInv => RostersAgree
<1> SUFFICES ASSUME NPInv PROVE RostersAgree
  OBVIOUS
<1>1. RosterOf(social, ownership, registry, scene, connected) /\ social \in [Controllers -> Social]
  BY DEF NPInv, TypeOK
<1>2. ASSUME NEW k \in PartySlots
      PROVE  LET mine == {c \in Controllers : IsMember(c) /\ social[c].party = k}
             IN  /\ Members(registry[k]) = {social[c].player : c \in mine}
                 /\ Cardinality(mine) = Cardinality(Members(registry[k]))
                 /\ mine # {} => 0 \in Members(registry[k])
  <2> DEFINE mine == {c \in Controllers : IsMember(c) /\ social[c].party = k}
             seatOf == [c \in mine |-> social[c].player]
  <2>1. \A c \in mine : social[c].player \in Members(registry[k])
    BY <1>1 DEF RosterOf, SeatedIn, IsMember
  <2>2. \A p \in Members(registry[k]) : \E c \in mine : social[c].player = p
    BY <1>1 DEF RosterOf, Filled, IsMember
  <2>3. \A c, d \in mine : social[c].player = social[d].player => c = d
    BY <1>1 DEF RosterOf, Apart, IsMember
  <2>4. 0 \in Members(registry[k]) \/ Members(registry[k]) = {}
    BY <1>1 DEF RosterOf, Filled
  <2>5. IsFiniteSet(mine)
    BY ControllersNumbers, FS_Subset
  <2> HIDE DEF mine
  <2>6. seatOf \in Surjection(mine, Members(registry[k])) /\ seatOf \in Injection(mine, Members(registry[k]))
    BY <2>1, <2>2, <2>3 DEF Surjection, Injection, IsInjective
  <2>7. Cardinality(mine) = Cardinality(Members(registry[k]))
    BY <2>5, <2>6, FS_Surjection
  <2>8. Members(registry[k]) = {social[c].player : c \in mine}
    BY <2>1, <2>2
  <2>9. mine # {} => 0 \in Members(registry[k])
    BY <2>1, <2>4
  <2> QED
    BY <2>7, <2>8, <2>9 DEF mine
<1>3. \A c \in Controllers : IsMember(c) =>
        /\ scene[c] \notin {"Absent", "Creating"}
        /\ IsOnline(PartyOf(c), social[c].player) = (c \in connected)
  BY <1>1 DEF RosterOf, SeatedIn, IsMember, PartyOf, IsOnline
<1> QED
  BY <1>2, <1>3 DEF RostersAgree

LEMMA WorldsFollow == NPInv => WorldsInOrder
<1> SUFFICES ASSUME NPInv PROVE WorldsInOrder
  OBVIOUS
<1>1. GoodRoster(social, ownership, registry, scene, connected)
  BY TheRoster
<1>2. RosterOf(social, ownership, registry, scene, connected)
  BY <1>1 DEF GoodRoster
<1>3. ASSUME NEW c \in Controllers, NEW d \in Controllers
      PROVE  /\ IsMember(c) => ownership[c] = social[c].world
             /\ SameParty(c, d) => ownership[c] = ownership[d]
             /\ ~IsMember(c) => ownership[c] = c
             /\ IsPartyLeader(c) => ownership[c] = c
             /\ c # d /\ ownership[c] = ownership[d] => SameParty(c, d)
  <2>1. c # d /\ ownership[c] = ownership[d] => SameParty(c, d)
    BY <1>1, Neighbours DEF SameParty, IsMember
  <2>2. SameParty(c, d) => ownership[c] = ownership[d]
    BY <1>2 DEF RosterOf, Apart, SameParty, IsMember
  <2> QED
    BY <1>2, <2>1, <2>2 DEF RosterOf, SeatedIn, IsMember, IsPartyLeader
<1>4. WorldsSeparate
  BY <1>3 DEF WorldsSeparate
<1>5. OutWithTheParty
  BY DEF NPInv, OutOf, OutWithTheParty, HasActor, IsMember, PartyOf
<1>6. NoOccupiedReset
  BY DEF NPInv, NoOccupiedReset
<1> QED
  BY <1>4, <1>5, <1>6 DEF WorldsInOrder

\* Nothing is reset under anybody: who fights or is out in a world of a party
\* whose members are all at home?
LEMMA SafeReset ==
  ASSUME NPInv, NEW c \in Controllers, ownership[c] = c,
         \A d \in Controllers : d = c \/ SameParty(c, d) => ~HasActor(d)
  PROVE  ~ResetThrows(c, ownership)
<1>1. GoodRoster(social, ownership, registry, scene, connected)
  BY TheRoster
<1>2. \A e \in Controllers : ownership[e] = c => ~HasActor(e)
  BY <1>1, Neighbours DEF SameParty, IsMember
<1>3. c \notin combat
  BY <1>2 DEF NPInv, FoughtBy, HasActor
<1> QED
  BY <1>2, <1>3 DEF ResetThrows

-----------------------------------------------------------------------------
(* Steps that nobody joins or leaves by *)

\* What such a step has to keep.
Stays ==
  /\ UNCHANGED <<social, ownership, thrown>>
  /\ scene' \in [Controllers -> Scenes] /\ connected' \subseteq Controllers
  /\ registry' \in [PartySlots -> Party] /\ run' \in [Worlds -> Runs]
  /\ combat' \subseteq Worlds /\ trades' \subseteq Controllers \X Controllers
  /\ \A k \in PartySlots : Members(registry'[k]) = Members(registry[k])
  /\ \A c \in Controllers : social[c].member =>
       /\ scene'[c] \notin {"Absent", "Creating"}
       /\ IsOnline(registry'[social[c].party], social[c].player) <=> c \in connected'
  /\ OutOf(social, registry', scene')
  /\ FoughtBy(ownership, scene', combat')
  /\ TradesBindPartners'

LEMMA StaysInv == ASSUME NPInv, Stays PROVE NPInv'
<1>1. GoodRoster(social, ownership, registry, scene, connected)
  BY TheRoster
<1>2. RosterOf(social, ownership, registry', scene', connected')
  BY <1>1, KeepsRoster DEF Stays
<1>3. RosterOf(social, ownership, registry, scene, connected)'
  BY <1>2 DEF Stays
<1>4. OutOf(social, registry, scene)' /\ FoughtBy(ownership, scene, combat)'
  BY DEF Stays
<1>5. TypeOK'
  BY DEF NPInv, TypeOK, Stays
<1> QED
  BY <1>3, <1>4, <1>5 DEF NPInv, Stays

\* Some offers may lapse; the partners of the others are still connected.
LEMMA TradesLapse ==
  ASSUME NPInv, UNCHANGED social, trades' \subseteq trades,
         \A t \in trades' : {t[1], t[2]} \subseteq connected'
  PROVE  TradesBindPartners'
  BY DEF NPInv, TradesBindPartners, SameParty, IsMember

\* The members of the registry, one by one.
LEMMA MemberFacts ==
  ASSUME NPInv, NEW c \in Controllers, social[c].member
  PROVE  /\ social[c].party \in PartySlots /\ social[c].player \in Seats
         /\ registry[social[c].party] \in Party
         /\ social[c].player \in Members(registry[social[c].party])
         /\ scene[c] \notin {"Absent", "Creating"}
         /\ IsOnline(registry[social[c].party], social[c].player) <=> c \in connected
<1>1. social[c].party \in PartySlots /\ social[c].player \in Seats
  BY DEF NPInv, TypeOK, Social
<1>2. SeatedIn(c, social, ownership, registry, scene, connected)
  BY DEF NPInv, RosterOf
<1> QED
  BY <1>1, <1>2 DEF SeatedIn, NPInv, TypeOK

LEMMA WorldIsFree ==
  ASSUME NPInv, NEW c \in Controllers, ~IsMember(c)
  PROVE  WorldFor(c) = c /\ ownership[c] = c
<1>1. GoodRoster(social, ownership, registry, scene, connected)
  BY TheRoster
<1>2. ownership[c] = c
  BY <1>1 DEF GoodRoster, RosterOf, IsMember
<1>3. ASSUME NEW d \in Controllers, IsMember(d), social[d].world = c PROVE FALSE
  <2>1. ownership[d] = c /\ social[d].member
    BY <1>1, <1>3 DEF GoodRoster, RosterOf, SeatedIn, IsMember
  <2> QED
    BY <1>1, <2>1, Landlord DEF IsMember
<1>4. c \notin UsedWorlds
  BY <1>3 DEF UsedWorlds
<1> QED
  BY <1>2, <1>4 DEF WorldFor

LEMMA PlayInv == ASSUME NPInv, NEW c \in Controllers, Play(c) PROVE NPInv'
<1>1. ~social[c].member
  BY MemberFacts DEF Play
<1>2. WorldFor(c) = c /\ ownership[c] = c
  BY <1>1, WorldIsFree DEF IsMember
<1>3. ownership' = ownership
  BY <1>2 DEF Play, NPInv, TypeOK
<1>4. \A d \in Controllers : scene'[d] = IF d = c THEN "Creating" ELSE scene[d]
  BY DEF Play, NPInv, TypeOK
<1>5. \A d \in Controllers : social[d].member =>
        /\ scene'[d] \notin {"Absent", "Creating"}
        /\ IsOnline(registry[social[d].party], social[d].player) <=> d \in connected'
  BY <1>1, <1>4, MemberFacts DEF Play
<1>6. OutOf(social, registry, scene') /\ FoughtBy(ownership, scene', combat)
  BY <1>4 DEF NPInv, OutOf, FoughtBy, Away, Play
<1>7. TradesBindPartners'
  <2>1. \A t \in trades : {t[1], t[2]} \subseteq connected
    BY DEF NPInv, TradesBindPartners
  <2> QED
    BY <2>1, TradesLapse DEF Play
<1>8. scene' \in [Controllers -> Scenes] /\ connected' \subseteq Controllers
  BY DEF Play, NPInv, TypeOK, Scenes
<1>9. UNCHANGED <<social, registry, run, combat, trades, thrown>>
  BY DEF Play
<1>10. Stays
  BY <1>3, <1>5, <1>6, <1>7, <1>8, <1>9 DEF Stays, NPInv, TypeOK
<1> QED
  BY <1>10, StaysInv

\* A controller stays at home and only its scene there changes.
AtHome(c, s) ==
  /\ scene[c] \notin Away /\ scene[c] # "Absent" /\ s \in {"Town", "Resting"}
  /\ scene' = [scene EXCEPT ![c] = s]
  /\ UNCHANGED <<connected, social, ownership, registry, run, combat, trades, thrown>>

LEMMA AtHomeInv ==
  ASSUME NPInv, NEW c \in Controllers, NEW s, AtHome(c, s)
  PROVE  NPInv'
<1>1. \A d \in Controllers : scene'[d] = IF d = c THEN s ELSE scene[d]
  BY DEF AtHome, NPInv, TypeOK
<1>2. s \notin {"Absent", "Creating"} /\ s \notin Away /\ s \in Scenes
  BY DEF AtHome, Away, Scenes
<1>3. \A d \in Controllers : social[d].member =>
        /\ scene'[d] \notin {"Absent", "Creating"}
        /\ IsOnline(registry[social[d].party], social[d].player) <=> d \in connected
  BY <1>1, <1>2, MemberFacts
<1>4. OutOf(social, registry, scene') /\ FoughtBy(ownership, scene', combat)
  BY <1>1, <1>2 DEF NPInv, OutOf, FoughtBy, AtHome
<1>5. TradesBindPartners'
  BY DEF AtHome, NPInv, TradesBindPartners, SameParty, IsMember
<1>6. scene' \in [Controllers -> Scenes]
  BY <1>2 DEF AtHome, NPInv, TypeOK
<1>7. UNCHANGED <<connected, social, ownership, registry, run, combat, trades, thrown>>
  BY DEF AtHome
<1>8. Stays
  BY <1>3, <1>4, <1>5, <1>6, <1>7 DEF Stays, NPInv, TypeOK
<1> QED
  BY <1>8, StaysInv

LEMMA HomeLifeInv ==
  ASSUME NPInv, NEW c \in Controllers, FinishCreation(c) \/ Rest(c) \/ EndRest(c)
  PROVE  NPInv'
<1>1. AtHome(c, "Town") \/ AtHome(c, "Resting")
  BY DEF FinishCreation, Rest, EndRest, AtHome, InTown, Away
<1> QED
  BY <1>1, AtHomeInv

LEMMA RetireLonerInv == ASSUME NPInv, NEW c \in Controllers, RetireLoner(c) PROVE NPInv'
<1>1. ~social[c].member
  BY DEF RetireLoner, IsMember
<1>2. \A d \in Controllers : scene'[d] = IF d = c THEN "Absent" ELSE scene[d]
  BY DEF RetireLoner, NPInv, TypeOK
<1>3. \A d \in Controllers : social[d].member =>
        /\ scene'[d] \notin {"Absent", "Creating"}
        /\ IsOnline(registry[social[d].party], social[d].player) <=> d \in connected'
  BY <1>1, <1>2, MemberFacts DEF RetireLoner
<1>4. scene[c] \notin Away
  BY <1>1 DEF NPInv, OutOf
<1>5. OutOf(social, registry, scene') /\ FoughtBy(ownership, scene', combat)
  BY <1>2, <1>4 DEF NPInv, OutOf, FoughtBy, Away
<1>6. TradesBindPartners'
  <2>1. \A t \in trades : {t[1], t[2]} \subseteq connected \ {c}
    BY <1>1 DEF NPInv, TradesBindPartners, SameParty, IsMember
  <2> QED
    BY <2>1, TradesLapse DEF RetireLoner
<1>7. scene' \in [Controllers -> Scenes] /\ connected' \subseteq Controllers
  BY DEF RetireLoner, NPInv, TypeOK, Scenes
<1>8. UNCHANGED <<social, ownership, registry, run, combat, trades, thrown>>
  BY DEF RetireLoner
<1>9. Stays
  BY <1>3, <1>5, <1>6, <1>7, <1>8 DEF Stays, NPInv, TypeOK
<1> QED
  BY <1>9, StaysInv

-----------------------------------------------------------------------------
(* Connections and locations *)

\* One party is told something by which nobody loses a seat.
LEMMA PartyTold ==
  ASSUME NPInv, NEW k \in PartySlots, NEW q \in Party,
         registry' = [registry EXCEPT ![k] = q], Members(q) = Members(registry[k])
  PROVE  /\ registry' \in [PartySlots -> Party]
         /\ \A j \in PartySlots : registry'[j] = IF j = k THEN q ELSE registry[j]
         /\ \A j \in PartySlots : Members(registry'[j]) = Members(registry[j])
  BY DEF NPInv, TypeOK

LEMMA OneSeatEach ==
  ASSUME NPInv, NEW c \in Controllers, NEW d \in Controllers, social[c].member, social[d].member,
         social[c].party = social[d].party, social[c].player = social[d].player
  PROVE  c = d
  BY DEF NPInv, RosterOf, Apart

LEMMA DetachInv == ASSUME NPInv, NEW c \in Controllers, Detach(c) PROVE NPInv'
<1>1. /\ connected' = connected \ {c} /\ connected' \subseteq Controllers
      /\ UNCHANGED <<scene, social, ownership, run, combat, thrown>>
  BY DEF Detach, NPInv, TypeOK
<1>2. FoughtBy(ownership, scene', combat)
  BY <1>1 DEF NPInv
<1>3. trades' \subseteq trades
  BY DEF Detach, TradesWithout
<1>4. \A t \in trades' : {t[1], t[2]} \subseteq connected'
  <2>1. \A t \in trades : SameParty(t[1], t[2]) /\ {t[1], t[2]} \subseteq connected
    BY DEF NPInv, TradesBindPartners
  <2>2. CASE IsMember(c)
    BY <1>1, <2>1, <2>2 DEF Detach, TradesWithout
  <2>3. CASE ~IsMember(c)
    BY <1>1, <2>1, <2>3 DEF Detach, SameParty
  <2> QED
    BY <2>2, <2>3
<1>5. TradesBindPartners'
  BY <1>1, <1>3, <1>4, TradesLapse
<1>6. CASE IsMember(c)
  <2> DEFINE k == social[c].party
             p == social[c].player
             q == Disconnected(registry[k], p)
  <2>1. k \in PartySlots /\ p \in Members(registry[k]) /\ registry[k] \in Party /\ p \in Seats
    BY <1>6, MemberFacts DEF IsMember
  <2>2. registry' = [registry EXCEPT ![k] = q]
    BY <1>6 DEF Detach
  <2>3. /\ q \in Party /\ Members(q) = Members(registry[k])
        /\ \A s \in Seats : IsOnline(q, s) <=> s # p /\ IsOnline(registry[k], s)
        /\ q.activity = registry[k].activity /\ q.locked = registry[k].locked
    BY <2>1, DisconnectedSeats
  <2> HIDE DEF q
  <2>4. /\ registry' \in [PartySlots -> Party]
        /\ \A j \in PartySlots : registry'[j] = IF j = k THEN q ELSE registry[j]
        /\ \A j \in PartySlots : Members(registry'[j]) = Members(registry[j])
    BY <2>1, <2>2, <2>3, PartyTold
  <2>5. ASSUME NEW d \in Controllers, social[d].member
        PROVE  /\ scene[d] \notin {"Absent", "Creating"}
               /\ IsOnline(registry'[social[d].party], social[d].player) <=> d \in connected'
    <3>1. /\ social[d].party \in PartySlots /\ social[d].player \in Seats
          /\ scene[d] \notin {"Absent", "Creating"}
          /\ IsOnline(registry[social[d].party], social[d].player) <=> d \in connected
      BY <2>5, MemberFacts
    <3>2. social[d].party = k /\ social[d].player = p => d = c
      BY <1>6, <2>5, OneSeatEach DEF IsMember
    <3> QED
      BY <1>1, <2>3, <2>4, <3>1, <3>2
  <2>6. OutOf(social, registry', scene)
    <3> SUFFICES ASSUME NEW d \in Controllers, scene[d] \in Away
                 PROVE  /\ social[d].member
                        /\ registry'[social[d].party].activity = scene[d]
                        /\ registry'[social[d].party].locked
      BY DEF OutOf
    <3>1. social[d].member /\ registry[social[d].party].activity = scene[d]
          /\ registry[social[d].party].locked
      BY DEF NPInv, OutOf
    <3>2. social[d].party \in PartySlots
      BY <3>1, MemberFacts
    <3> QED
      BY <2>3, <2>4, <3>1, <3>2
  <2>7. Stays
    BY <1>1, <1>2, <1>3, <1>5, <2>4, <2>5, <2>6 DEF Stays, NPInv, TypeOK
  <2> QED
    BY <2>7, StaysInv
<1>7. CASE ~IsMember(c)
  <2>1. registry' = registry
    BY <1>7 DEF Detach
  <2>2. \A d \in Controllers : social[d].member =>
          /\ scene[d] \notin {"Absent", "Creating"}
          /\ IsOnline(registry[social[d].party], social[d].player) <=> d \in connected'
    BY <1>1, <1>7, MemberFacts DEF IsMember
  <2>3. Stays
    BY <1>1, <1>2, <1>3, <1>5, <2>1, <2>2 DEF Stays, NPInv, TypeOK
  <2> QED
    BY <2>3, StaysInv
<1> QED
  BY <1>6, <1>7

LEMMA ResumeInv == ASSUME NPInv, NEW c \in Controllers, Resume(c) PROVE NPInv'
<1>1. /\ connected' = connected \cup {c} /\ connected' \subseteq Controllers
      /\ UNCHANGED <<scene, social, ownership, run, combat, trades, thrown>>
  BY DEF Resume, NPInv, TypeOK
<1>2. FoughtBy(ownership, scene', combat)
  BY <1>1 DEF NPInv
<1>3. TradesBindPartners'
  <2>1. \A t \in trades : {t[1], t[2]} \subseteq connected
    BY DEF NPInv, TradesBindPartners
  <2> QED
    BY <1>1, <2>1, TradesLapse
<1>4. CASE IsMember(c)
  <2> DEFINE k == social[c].party
             p == social[c].player
             q == Reconnected(registry[k], p)
  <2>1. k \in PartySlots /\ p \in Members(registry[k]) /\ registry[k] \in Party /\ p \in Seats
    BY <1>4, MemberFacts DEF IsMember
  <2>2. registry' = [registry EXCEPT ![k] = q]
    BY <1>4 DEF Resume
  <2>3. /\ q \in Party /\ Members(q) = Members(registry[k])
        /\ \A s \in Seats : IsOnline(q, s) <=> s = p \/ IsOnline(registry[k], s)
        /\ q.activity = registry[k].activity /\ q.locked = registry[k].locked
    BY <2>1, ReconnectedSeats
  <2> HIDE DEF q
  <2>4. /\ registry' \in [PartySlots -> Party]
        /\ \A j \in PartySlots : registry'[j] = IF j = k THEN q ELSE registry[j]
        /\ \A j \in PartySlots : Members(registry'[j]) = Members(registry[j])
    BY <2>1, <2>2, <2>3, PartyTold
  <2>5. ASSUME NEW d \in Controllers, social[d].member
        PROVE  /\ scene[d] \notin {"Absent", "Creating"}
               /\ IsOnline(registry'[social[d].party], social[d].player) <=> d \in connected'
    <3>1. /\ social[d].party \in PartySlots /\ social[d].player \in Seats
          /\ scene[d] \notin {"Absent", "Creating"}
          /\ IsOnline(registry[social[d].party], social[d].player) <=> d \in connected
      BY <2>5, MemberFacts
    <3>2. social[d].party = k /\ social[d].player = p => d = c
      BY <1>4, <2>5, OneSeatEach DEF IsMember
    <3> QED
      BY <1>1, <2>3, <2>4, <3>1, <3>2
  <2>6. OutOf(social, registry', scene)
    <3> SUFFICES ASSUME NEW d \in Controllers, scene[d] \in Away
                 PROVE  /\ social[d].member
                        /\ registry'[social[d].party].activity = scene[d]
                        /\ registry'[social[d].party].locked
      BY DEF OutOf
    <3>1. social[d].member /\ registry[social[d].party].activity = scene[d]
          /\ registry[social[d].party].locked
      BY DEF NPInv, OutOf
    <3>2. social[d].party \in PartySlots
      BY <3>1, MemberFacts
    <3> QED
      BY <2>3, <2>4, <3>1, <3>2
  <2>7. Stays
    BY <1>1, <1>2, <1>3, <2>4, <2>5, <2>6 DEF Stays, NPInv, TypeOK
  <2> QED
    BY <2>7, StaysInv
<1>5. CASE ~IsMember(c)
  <2>1. registry' = registry
    BY <1>5 DEF Resume
  <2>2. \A d \in Controllers : social[d].member =>
          /\ scene[d] \notin {"Absent", "Creating"}
          /\ IsOnline(registry[social[d].party], social[d].player) <=> d \in connected'
    BY <1>1, <1>5, MemberFacts DEF IsMember
  <2>3. Stays
    BY <1>1, <1>2, <1>3, <2>1, <2>2 DEF Stays, NPInv, TypeOK
  <2> QED
    BY <2>3, StaysInv
<1> QED
  BY <1>4, <1>5

\* A party is told where members are; who is out may have come home.
LEMMA PartyMovesInv ==
  ASSUME NPInv, NEW k \in PartySlots, NEW q \in Party,
         registry' = [registry EXCEPT ![k] = q], SameSeats(registry[k], q),
         scene' \in [Controllers -> Scenes], run' \in [Worlds -> Runs],
         \A d \in Controllers : scene'[d] = scene[d] \/ (scene'[d] = "Town" /\ social[d].member),
         \A d \in Controllers : social[d].member /\ social[d].party = k /\ scene'[d] \in Away =>
           q.activity = registry[k].activity /\ q.locked = registry[k].locked,
         FoughtBy(ownership, scene', combat),
         UNCHANGED <<social, ownership, connected, combat, trades, thrown>>
  PROVE  NPInv'
<1>1. /\ registry' \in [PartySlots -> Party]
      /\ \A j \in PartySlots : registry'[j] = IF j = k THEN q ELSE registry[j]
      /\ \A j \in PartySlots : Members(registry'[j]) = Members(registry[j])
  BY PartyTold DEF SameSeats
<1>2. ASSUME NEW d \in Controllers, social[d].member
      PROVE  /\ scene'[d] \notin {"Absent", "Creating"}
             /\ IsOnline(registry'[social[d].party], social[d].player) <=> d \in connected
  <2>1. /\ social[d].party \in PartySlots /\ social[d].player \in Seats
        /\ scene[d] \notin {"Absent", "Creating"}
        /\ IsOnline(registry[social[d].party], social[d].player) <=> d \in connected
    BY <1>2, MemberFacts
  <2> QED
    BY <1>1, <2>1 DEF SameSeats
<1>3. OutOf(social, registry', scene')
  <2> SUFFICES ASSUME NEW d \in Controllers, scene'[d] \in Away
               PROVE  /\ social[d].member
                      /\ registry'[social[d].party].activity = scene'[d]
                      /\ registry'[social[d].party].locked
    BY DEF OutOf
  <2>1. scene'[d] = scene[d]
    BY DEF Away
  <2>2. social[d].member /\ registry[social[d].party].activity = scene[d]
        /\ registry[social[d].party].locked
    BY <2>1 DEF NPInv, OutOf
  <2>3. social[d].party \in PartySlots
    BY <2>2, MemberFacts
  <2> QED
    BY <1>1, <2>1, <2>2, <2>3
<1>4. TradesBindPartners'
  BY DEF NPInv, TradesBindPartners, SameParty, IsMember
<1>5. Stays
  BY <1>1, <1>2, <1>3, <1>4 DEF Stays, NPInv, TypeOK
<1> QED
  BY <1>5, StaysInv

LEMMA RefreshInv == ASSUME NPInv, NEW c \in Controllers, Refresh(c) PROVE NPInv'
<1> DEFINE k == social[c].party
           q == Located(registry[k], {social[c].player}, LocationIn(scene[c]))
<1>1. k \in PartySlots /\ registry[k] \in Party
  BY MemberFacts DEF Refresh, IsMember
<1>2. LocationIn(scene[c]) \in {"TOWN", "FOREST", "DUNGEON"}
  BY DEF LocationIn
<1>3. SameSeats(registry[k], q) /\ q.activity = registry[k].activity /\ q.locked = registry[k].locked
  BY <1>1, <1>2, LocatedSeats
<1>4. q \in Party
  BY <1>3 DEF SameSeats
<1>5. registry' = [registry EXCEPT ![k] = q]
  BY DEF Refresh
<1>6. UNCHANGED <<scene, connected, social, ownership, run, combat, trades, thrown>>
  BY DEF Refresh
<1>7. scene' \in [Controllers -> Scenes] /\ run' \in [Worlds -> Runs]
      /\ FoughtBy(ownership, scene', combat)
  BY <1>6 DEF NPInv, TypeOK
<1> HIDE DEF q, k
<1> QED
  BY <1>1, <1>3, <1>4, <1>5, <1>6, <1>7, PartyMovesInv

\* Coming home: the party keeps its seats, and its adventure as long as
\* somebody is still out.
LEMMA BackHomeSeats ==
  ASSUME NPInv, NEW c \in Controllers, social[c].member, NEW home
  PROVE  /\ SameSeats(registry[social[c].party], BackHome(c, home))
         /\ StillOut(c, home) # {} =>
              /\ BackHome(c, home).activity = registry[social[c].party].activity
              /\ BackHome(c, home).locked = registry[social[c].party].locked
<1> DEFINE party == registry[social[c].party]
           moved == Located(party, {social[d].player : d \in home}, "TOWN")
<1>1. party \in Party
  BY MemberFacts
<1>2. SameSeats(party, moved) /\ moved.activity = party.activity /\ moved.locked = party.locked
  BY <1>1, LocatedSeats
<1>3. SameSeats(moved, ReturnedToTown(moved))
  BY <1>2, ReturnedSeats DEF SameSeats
<1>4. BackHome(c, home) = IF StillOut(c, home) = {} THEN ReturnedToTown(moved) ELSE moved
  BY DEF BackHome, PartyOf
<1> HIDE DEF moved, party
<1>5. SameSeats(party, BackHome(c, home))
  BY <1>2, <1>3, <1>4 DEF SameSeats
<1> QED
  BY <1>2, <1>4, <1>5 DEF party

LEMMA HomeInv == ASSUME NPInv, NEW c \in Controllers, Home(c) PROVE NPInv'
<1>1. HasActor(c) /\ ~InCombat(c) /\ scene' = [scene EXCEPT ![c] = "Town"]
      /\ UNCHANGED <<connected, social, ownership, combat, trades, thrown>>
  BY DEF Home
<1>2. social[c].member
  BY <1>1 DEF NPInv, OutOf, HasActor
<1> DEFINE k == social[c].party
           q == BackHome(c, {c})
<1>3. k \in PartySlots
  BY <1>2, MemberFacts
<1>4. SameSeats(registry[k], q) /\ q \in Party
  BY <1>2, BackHomeSeats DEF SameSeats
<1>5. registry' = [registry EXCEPT ![k] = q]
  BY <1>2 DEF Home, IsMember
<1>6. \A d \in Controllers : scene'[d] = IF d = c THEN "Town" ELSE scene[d]
  BY <1>1 DEF NPInv, TypeOK
<1>7. scene' \in [Controllers -> Scenes] /\ run' \in [Worlds -> Runs]
  BY <1>1 DEF NPInv, TypeOK, Scenes, Runs, Home
<1>8. ASSUME NEW d \in Controllers, social[d].member, social[d].party = k, scene'[d] \in Away
      PROVE  q.activity = registry[k].activity /\ q.locked = registry[k].locked
  <2>1. d # c /\ HasActor(d)
    BY <1>6, <1>8 DEF Away, HasActor
  <2>2. d \in StillOut(c, {c})
    BY <1>2, <1>8, <2>1 DEF StillOut, PeersOf, SameParty, IsMember
  <2> QED
    BY <1>2, <2>2, BackHomeSeats
<1>9. FoughtBy(ownership, scene', combat)
  BY <1>1, <1>6 DEF NPInv, FoughtBy, InCombat
<1>10. \A d \in Controllers : scene'[d] = scene[d] \/ (scene'[d] = "Town" /\ social[d].member)
  BY <1>2, <1>6
<1> HIDE DEF q, k
<1> QED
  BY <1>1, <1>3, <1>4, <1>5, <1>7, <1>8, <1>9, <1>10, PartyMovesInv

-----------------------------------------------------------------------------
(* Steps of the worlds and of the trades *)

\* Nothing that concerns the roster changes.
SameRoster == UNCHANGED <<scene, connected, social, ownership, registry>>

LEMMA SameRosterInv ==
  ASSUME NPInv, SameRoster, run' \in [Worlds -> Runs], combat' \subseteq Worlds,
         trades' \subseteq Controllers \X Controllers, FoughtBy(ownership, scene, combat'),
         TradesBindPartners', thrown' = thrown
  PROVE  NPInv'
<1>1. RosterOf(social, ownership, registry, scene, connected)'
  BY DEF NPInv, SameRoster
<1>2. OutOf(social, registry, scene)' /\ FoughtBy(ownership, scene, combat)'
  BY DEF NPInv, SameRoster
<1> QED
  BY <1>1, <1>2 DEF NPInv, TypeOK, SameRoster

LEMMA SameTrades ==
  ASSUME NPInv, UNCHANGED <<social, connected, trades>>
  PROVE  TradesBindPartners'
  BY DEF NPInv, TradesBindPartners, SameParty, IsMember

LEMMA StartCombatInv == ASSUME NPInv, NEW w \in Worlds, StartCombat(w) PROVE NPInv'
<1>1. combat' = combat \cup {w}
      /\ UNCHANGED <<scene, connected, social, ownership, registry, run, trades, thrown>>
  BY DEF StartCombat
<1>2. FoughtBy(ownership, scene, combat')
  BY <1>1 DEF NPInv, FoughtBy, StartCombat, HasActor
<1> QED
  BY <1>1, <1>2, SameTrades, SameRosterInv DEF SameRoster, NPInv, TypeOK

LEMMA EndCombatInv == ASSUME NPInv, NEW w \in Worlds, EndCombat(w) PROVE NPInv'
<1>1. combat' = combat \ {w}
      /\ UNCHANGED <<scene, connected, social, ownership, registry, run, trades, thrown>>
  BY DEF EndCombat
<1>2. FoughtBy(ownership, scene, combat')
  BY <1>1 DEF NPInv, FoughtBy
<1> QED
  BY <1>1, <1>2, SameTrades, SameRosterInv DEF SameRoster, NPInv, TypeOK

LEMMA ResetAdventureInv == ASSUME NPInv, NEW c \in Controllers, ResetAdventure(c) PROVE NPInv'
<1>1. IsMember(c) /\ social[c].player = 0 /\ InTown(c) /\ \A d \in PeersOf(c) : ~HasActor(d)
  BY DEF ResetAdventure, AllHome, IsPartyLeader
<1>2. ownership[c] = c
  BY <1>1 DEF NPInv, RosterOf, SeatedIn, IsMember
<1>3. ~HasActor(c)
  BY <1>1 DEF InTown, HasActor, Away
<1>4. ~ResetThrows(c, ownership)
  BY <1>1, <1>2, <1>3, SafeReset DEF PeersOf
<1>5. thrown' = thrown
  <2>1. thrown' = (thrown \/ ResetThrows(c, ownership))
    BY <1>2 DEF ResetAdventure
  <2>2. thrown = FALSE
    BY DEF NPInv, TypeOK
  <2> QED
    BY <1>4, <2>1, <2>2
<1>6. run' \in [Worlds -> Runs]
  BY DEF ResetAdventure, NPInv, TypeOK, Runs
<1>7. UNCHANGED <<scene, connected, social, ownership, registry, combat, trades>>
  BY DEF ResetAdventure
<1> QED
  BY <1>5, <1>6, <1>7, SameTrades, SameRosterInv DEF SameRoster, NPInv, TypeOK

LEMMA ProposeTradeInv ==
  ASSUME NPInv, NEW c \in Controllers, NEW d \in Controllers, ProposeTrade(c, d)
  PROVE  NPInv'
<1>1. /\ trades' = trades \cup {<<c, d>>} /\ c \in connected /\ SameParty(c, d)
      /\ ~BoundByTrade(c) /\ ~BoundByTrade(d)
      /\ UNCHANGED <<scene, connected, social, ownership, registry, run, combat, thrown>>
  BY DEF ProposeTrade
<1>2. d \in connected
  BY MemberFacts DEF ProposeTrade, ConnectedPartyMember, IsMember, PartyOf
<1>3. \A t \in trades : {t[1], t[2]} \cap {c, d} = {}
  BY <1>1 DEF BoundByTrade
<1>4. ASSUME NEW t \in trades'
      PROVE  /\ SameParty(t[1], t[2])
             /\ {t[1], t[2]} \subseteq connected
             /\ \A u \in trades' : u # t => {t[1], t[2]} \cap {u[1], u[2]} = {}
  <2>1. CASE t \in trades
    BY <1>1, <1>3, <2>1 DEF NPInv, TradesBindPartners
  <2>2. CASE t = <<c, d>>
    BY <1>1, <1>2, <1>3, <2>2
  <2> QED
    BY <1>1, <2>1, <2>2
<1>5. TradesBindPartners'
  BY <1>1, <1>4 DEF TradesBindPartners, SameParty, IsMember
<1> QED
  BY <1>1, <1>5, SameRosterInv DEF SameRoster, NPInv, TypeOK

LEMMA AnswerTradeInv == ASSUME NPInv, NEW c \in Controllers, AnswerTrade(c) PROVE NPInv'
<1>1. trades' \subseteq trades
      /\ UNCHANGED <<scene, connected, social, ownership, registry, run, combat, thrown>>
  BY DEF AnswerTrade, TradesWithout
<1>2. TradesBindPartners'
  BY <1>1 DEF NPInv, TradesBindPartners, SameParty, IsMember
<1> QED
  BY <1>1, <1>2, SameRosterInv DEF SameRoster, NPInv, TypeOK

-----------------------------------------------------------------------------
(* Joining *)

\* The controller c, in Town and in no party, takes the seat p of the party k,
\* which plays in the world w.
TakesSeat(c, k, p, w, base) ==
  /\ ~social[c].member /\ c \in connected /\ scene[c] = "Town"
  /\ k \in PartySlots /\ w \in Worlds /\ base \in Party
  /\ p \in Seats \ Members(base) /\ base.activity = "Town"
  /\ IF Members(registry[k]) = {}
       THEN p = 0 /\ w = c /\ base = NoParty
       ELSE base = registry[k] /\ \E d \in Controllers : social[d].member /\ social[d].party = k /\ w = ownership[d]

NewSocial(c, k, p, w) ==
  [social EXCEPT ![c] = [member |-> TRUE, party |-> k, player |-> p, world |-> w]]
NewOwner(c, w) == [ownership EXCEPT ![c] = w]
NewParties(k, p, base) == [registry EXCEPT ![k] = JoinedAt(base, p)]

LEMMA JoinedSeats ==
  ASSUME NEW base \in Party, NEW p \in Seats \ Members(base)
  PROVE  /\ JoinedAt(base, p) \in Party
         /\ Members(JoinedAt(base, p)) = Members(base) \cup {p}
         /\ IsOnline(JoinedAt(base, p), p)
         /\ \A q \in Seats \ {p} : IsOnline(JoinedAt(base, p), q) <=> IsOnline(base, q)
         /\ JoinedAt(base, p).activity = base.activity
         /\ JoinedAt(base, p).locked = base.locked
<1> DEFINE other == JoinedAt(base, p)
<1>1. /\ other \in Party /\ other.activity = base.activity /\ other.locked = base.locked
      /\ \A q \in Seats : other.seat[q] = IF q = p THEN "TOWN" ELSE base.seat[q]
  BY DEF JoinedAt, Party, Locations
<1>2. "TOWN" # Vacant
  BY DEF Vacant
<1> HIDE DEF other
<1>3. Members(other) = Members(base) \cup {p}
  BY <1>1, <1>2 DEF Members
<1>4. \A q \in Seats : IsOnline(other, q) <=> q = p \/ IsOnline(base, q)
  BY <1>1, <1>2 DEF IsOnline
<1> QED
  BY <1>1, <1>3, <1>4 DEF other

LEMMA NoPartySeats == NoParty \in Party /\ Members(NoParty) = {} /\ NoParty.activity = "Town"
  BY DEF NoParty, Party, Members

LEMMA SeatTaken ==
  ASSUME NPInv, NEW c \in Controllers, NEW k, NEW p, NEW w, NEW base, TakesSeat(c, k, p, w, base)
  PROVE  /\ GoodRoster(NewSocial(c, k, p, w), NewOwner(c, w), NewParties(k, p, base), scene, connected)
         /\ OutOf(NewSocial(c, k, p, w), NewParties(k, p, base), scene)
         /\ FoughtBy(NewOwner(c, w), scene, combat)
         /\ \A d \in Controllers : NewSocial(c, k, p, w)[d] =
              IF d = c THEN [member |-> TRUE, party |-> k, player |-> p, world |-> w] ELSE social[d]
         /\ NewParties(k, p, base)[k].activity = "Town"
<1> DEFINE soc == NewSocial(c, k, p, w)
           own == NewOwner(c, w)
           reg == NewParties(k, p, base)
<1>1. /\ ~social[c].member /\ c \in connected /\ scene[c] = "Town"
      /\ k \in PartySlots /\ w \in Worlds /\ base \in Party
      /\ p \in Seats \ Members(base) /\ base.activity = "Town"
  BY DEF TakesSeat
<1>2. Members(base) = Members(registry[k])
  BY NoPartySeats DEF TakesSeat
<1>3. /\ JoinedAt(base, p) \in Party
      /\ Members(JoinedAt(base, p)) = Members(base) \cup {p}
      /\ IsOnline(JoinedAt(base, p), p)
      /\ \A q \in Seats \ {p} : IsOnline(JoinedAt(base, p), q) <=> IsOnline(base, q)
      /\ JoinedAt(base, p).activity = base.activity
      /\ JoinedAt(base, p).locked = base.locked
  BY <1>1, JoinedSeats
<1>4. soc \in [Controllers -> Social] /\ own \in [Controllers -> Worlds] /\ reg \in [PartySlots -> Party]
  BY <1>1, <1>3 DEF NPInv, TypeOK, Social, NewSocial, NewOwner, NewParties
<1>5. \A d \in Controllers :
        /\ soc[d] = IF d = c THEN [member |-> TRUE, party |-> k, player |-> p, world |-> w] ELSE social[d]
        /\ own[d] = IF d = c THEN w ELSE ownership[d]
  BY DEF NPInv, TypeOK, NewSocial, NewOwner
<1>6. \A j \in PartySlots : reg[j] = IF j = k THEN JoinedAt(base, p) ELSE registry[j]
  BY DEF NPInv, TypeOK, NewParties
<1> HIDE DEF soc, own, reg
<1>7. soc[c].member /\ soc[c].party = k /\ soc[c].player = p /\ soc[c].world = w
  BY <1>5
<1>8. ASSUME NEW d \in Controllers, social[d].member, social[d].party = k
      PROVE  social[d].player # p /\ base = registry[k] /\ ownership[d] = w /\ w # c /\ p # 0
  <2>1. social[d].player \in Members(registry[k])
    BY <1>8, MemberFacts
  <2>2. base = registry[k] /\ \E e \in Controllers : social[e].member /\ social[e].party = k /\ w = ownership[e]
    BY <2>1 DEF TakesSeat
  <2>3. ownership[d] = w
    BY <1>8, <2>2 DEF NPInv, RosterOf, Apart
  <2>4. w # c
    BY <1>1, <1>8, <2>3, TheRoster, Landlord
  <2>5. 0 \in Members(registry[k])
    BY <1>1, <2>1 DEF NPInv, RosterOf, Filled
  <2> QED
    BY <1>1, <2>1, <2>2, <2>3, <2>4, <2>5
<1>9. ASSUME NEW d \in Controllers
      PROVE  IF soc[d].member THEN SeatedIn(d, soc, own, reg, scene, connected) ELSE own[d] = d
  <2>1. CASE d = c
    <3>1. p = 0 => w = c
      BY <1>1 DEF TakesSeat, NPInv, RosterOf, Filled
    <3> QED
      BY <1>1, <1>3, <1>5, <1>6, <1>7, <2>1, <3>1 DEF SeatedIn
  <2>2. CASE d # c /\ ~social[d].member
    BY <1>5, <2>2 DEF NPInv, RosterOf
  <2>3. CASE d # c /\ social[d].member
    <3>1. SeatedIn(d, social, ownership, registry, scene, connected)
      BY <2>3 DEF NPInv, RosterOf
    <3>2. soc[d] = social[d] /\ own[d] = ownership[d]
      BY <1>5, <2>3
    <3>3. social[d].party \in PartySlots /\ social[d].player \in Seats
      BY <2>3, MemberFacts
    <3>4. CASE social[d].party = k
      <4>1. social[d].player # p /\ base = registry[k]
        BY <1>8, <2>3, <3>4
      <4>2. reg[k] = JoinedAt(base, p)
        BY <1>1, <1>6
      <4> QED
        BY <1>3, <2>3, <3>1, <3>2, <3>3, <3>4, <4>1, <4>2 DEF SeatedIn
    <3>5. CASE social[d].party # k
      <4>1. reg[social[d].party] = registry[social[d].party]
        BY <1>6, <3>3, <3>5
      <4> QED
        BY <2>3, <3>1, <3>2, <4>1 DEF SeatedIn
    <3> QED
      BY <3>4, <3>5
  <2> QED
    BY <2>1, <2>2, <2>3
<1>10. ASSUME NEW d \in Controllers, NEW e \in Controllers PROVE Apart(d, e, soc, own)
  <2>1. Apart(d, e, social, ownership)
    BY DEF NPInv, RosterOf
  <2> QED
    BY <1>5, <1>7, <1>8, <2>1 DEF Apart
<1>11. ASSUME NEW j \in PartySlots PROVE Filled(j, soc, reg)
  <2>1. Filled(j, social, registry)
    BY DEF NPInv, RosterOf
  <2>2. CASE j = k
    <3>1. reg[j] = JoinedAt(base, p)
      BY <1>6, <2>2
    <3>2. Members(reg[j]) = Members(registry[k]) \cup {p}
      BY <1>2, <1>3, <3>1
    <3>3. \A q \in Members(reg[j]) :
            \E d \in Controllers : soc[d].member /\ soc[d].party = j /\ soc[d].player = q
      <4> SUFFICES ASSUME NEW q \in Members(reg[j])
                   PROVE  \E d \in Controllers : soc[d].member /\ soc[d].party = j /\ soc[d].player = q
        OBVIOUS
      <4>1. CASE q = p
        BY <1>7, <2>2, <4>1
      <4>2. CASE q # p
        <5>1. PICK d \in Controllers : social[d].member /\ social[d].party = j /\ social[d].player = q
          BY <2>1, <2>2, <3>2, <4>2 DEF Filled
        <5> QED
          BY <1>1, <1>5, <5>1
      <4> QED
        BY <4>1, <4>2
    <3>4. 0 \in Members(reg[j])
      BY <2>1, <2>2, <3>2 DEF Filled, TakesSeat
    <3> QED
      BY <3>3, <3>4 DEF Filled
  <2>3. CASE j # k
    <3>1. reg[j] = registry[j]
      BY <1>6, <2>3
    <3> QED
      BY <1>1, <1>5, <2>1, <3>1 DEF Filled
  <2> QED
    BY <2>2, <2>3
<1>12. GoodRoster(soc, own, reg, scene, connected)
  BY <1>4, <1>9, <1>10, <1>11 DEF GoodRoster, RosterOf
<1>13. OutOf(soc, reg, scene)
  <2> SUFFICES ASSUME NEW d \in Controllers, scene[d] \in Away
               PROVE  /\ soc[d].member
                      /\ reg[soc[d].party].activity = scene[d]
                      /\ reg[soc[d].party].locked
    BY DEF OutOf
  <2>1. d # c /\ scene[d] # "Town"
    BY <1>1 DEF Away
  <2>2. social[d].member /\ registry[social[d].party].activity = scene[d]
        /\ registry[social[d].party].locked
    BY DEF NPInv, OutOf
  <2>3. social[d].party \in PartySlots
    BY <2>2, MemberFacts
  <2>4. social[d].party # k
    BY <1>1, <1>8, <2>1, <2>2
  <2> QED
    BY <1>5, <1>6, <2>1, <2>2, <2>3, <2>4
<1>14. FoughtBy(own, scene, combat)
  <2>1. scene[c] \notin Away
    BY <1>1 DEF Away
  <2> QED
    BY <1>5, <2>1 DEF NPInv, FoughtBy
<1>15. reg[k].activity = "Town"
  BY <1>1, <1>3, <1>6
<1> QED
  BY <1>5, <1>12, <1>13, <1>14, <1>15 DEF soc, own, reg

\* A newcomer has no offers yet, and those of the members stay.
LEMMA TradesStay ==
  ASSUME NPInv, UNCHANGED <<connected, trades>>,
         \A d \in Controllers : social[d].member => social'[d] = social[d]
  PROVE  TradesBindPartners'
<1>1. \A t \in trades : t[1] \in Controllers /\ t[2] \in Controllers
  BY DEF NPInv, TypeOK
<1> QED
  BY <1>1 DEF NPInv, TradesBindPartners, SameParty, IsMember

LEMMA JoinInv ==
  ASSUME NPInv, NEW c \in Controllers, NEW k \in PartySlots, Join(c, k)
  PROVE  NPInv'
<1> DEFINE p == FreeSeat(registry[k])
           w == HostWorld(c, k)
           hosts == {d \in Controllers : IsMember(d) /\ social[d].party = k}
<1>1. /\ c \in connected /\ scene[c] = "Town" /\ ~social[c].member
      /\ Members(registry[k]) # {} /\ registry[k].activity = "Town"
      /\ Members(registry[k]) # Seats
  BY DEF Join, InTown, IsMember
<1>2. Members(registry[k]) \subseteq Seats /\ registry[k] \in Party
  BY DEF Members, NPInv, TypeOK
<1>3. p \in Seats \ Members(registry[k])
  BY <1>1, <1>2, MinExists, ControllersNumbers DEF FreeSeat
<1>4. hosts # {}
  BY <1>1 DEF NPInv, RosterOf, Filled, IsMember
<1>5. Min(hosts) \in hosts
  BY <1>4, MinExists, ControllersNumbers
<1>6. w = social[Min(hosts)].world
  BY DEF HostWorld
<1>7. PICK d \in Controllers : social[d].member /\ social[d].party = k /\ w = social[d].world
  BY <1>5, <1>6 DEF IsMember
<1>8. w = ownership[d] /\ w \in Worlds
  BY <1>7 DEF NPInv, TypeOK, RosterOf, SeatedIn
<1>9. /\ registry' = NewParties(k, p, registry[k])
      /\ social' = NewSocial(c, k, p, w)
      /\ ownership' = NewOwner(c, w)
      /\ UNCHANGED <<scene, connected, run, combat, trades, thrown>>
  BY DEF Join, NewParties, NewSocial, NewOwner
<1> HIDE DEF p, w, hosts
<1>10. TakesSeat(c, k, p, w, registry[k])
  BY <1>1, <1>2, <1>3, <1>7, <1>8 DEF TakesSeat
<1>11. /\ GoodRoster(social', ownership', registry', scene, connected)
       /\ OutOf(social', registry', scene)
       /\ FoughtBy(ownership', scene, combat)
       /\ \A e \in Controllers : social'[e] =
            IF e = c THEN [member |-> TRUE, party |-> k, player |-> p, world |-> w] ELSE social[e]
  BY <1>9, <1>10, SeatTaken
<1>12. TradesBindPartners'
  BY <1>1, <1>9, <1>11, TradesStay
<1>13. RosterOf(social, ownership, registry, scene, connected)' /\ OutOf(social, registry, scene)'
       /\ FoughtBy(ownership, scene, combat)'
  BY <1>9, <1>11 DEF GoodRoster
<1>14. TypeOK'
  BY <1>9, <1>11 DEF GoodRoster, NPInv, TypeOK
<1> QED
  BY <1>9, <1>12, <1>13, <1>14 DEF NPInv

\* What founding a party comes to.
LEMMA FoundedFacts ==
  ASSUME NPInv, NEW c \in Controllers, c \in connected, CanFound(c)
  PROVE  LET s == Founded(c)
             k == s.social[c].party
         IN  /\ TakesSeat(c, k, 0, c, NoParty)
             /\ s.social = NewSocial(c, k, 0, c)
             /\ s.ownership = NewOwner(c, c)
             /\ s.registry = NewParties(k, 0, NoParty)
             /\ s.run \in [Worlds -> Runs]
             /\ s.thrown = FALSE
<1> DEFINE k == Min(FreeParties)
           s == Founded(c)
           owned == [ownership EXCEPT ![c] = c]
<1>1. scene[c] = "Town" /\ ~social[c].member /\ FreeParties # {}
  BY DEF CanFound, InTown, IsMember
<1>2. k \in FreeParties
  BY <1>1, MinExists, ControllersNumbers DEF FreeParties
<1>3. k \in PartySlots /\ Members(registry[k]) = {}
  BY <1>2 DEF FreeParties
<1>4. WorldFor(c) = c /\ ownership[c] = c
  BY <1>1, WorldIsFree DEF IsMember
<1>5. owned = ownership
  BY <1>4 DEF NPInv, TypeOK
<1>6. ~ResetThrows(c, owned)
  <2>1. ~HasActor(c)
    BY <1>1 DEF HasActor, Away
  <2>2. \A d \in Controllers : ~SameParty(c, d)
    BY <1>1 DEF SameParty, IsMember
  <2> QED
    BY <1>4, <1>5, <2>1, <2>2, SafeReset
<1>7. /\ s.social = NewSocial(c, k, 0, c)
      /\ s.ownership = NewOwner(c, c)
      /\ s.registry = NewParties(k, 0, NoParty)
      /\ s.run = [run EXCEPT ![c] = IF ResetThrows(c, owned) THEN @ ELSE "None"]
      /\ s.thrown = ResetThrows(c, owned)
  BY <1>4 DEF Founded, NewSocial, NewOwner, NewParties
<1> HIDE DEF s, owned, k
<1>8. s.run \in [Worlds -> Runs] /\ s.thrown = FALSE
  <2>1. s.run = [run EXCEPT ![c] = "None"]
    BY <1>6, <1>7
  <2>2. s.run \in [Worlds -> Runs]
    BY <2>1 DEF NPInv, TypeOK, Runs
  <2>3. ResetThrows(c, owned) \in BOOLEAN
    BY DEF ResetThrows
  <2> QED
    BY <1>6, <1>7, <2>2, <2>3
<1>9. s.social[c].party = k
  BY <1>7 DEF NPInv, TypeOK, NewSocial
<1>10. TakesSeat(c, k, 0, c, NoParty)
  BY <1>1, <1>3, NoPartySeats, ControllersNumbers DEF TakesSeat
<1> QED
  BY <1>7, <1>8, <1>9, <1>10 DEF s

LEMMA CreateInv == ASSUME NPInv, NEW c \in Controllers, Create(c) PROVE NPInv'
<1> DEFINE s == Founded(c)
           k == s.social[c].party
<1>1. /\ social' = s.social /\ ownership' = s.ownership /\ registry' = s.registry
      /\ run' = s.run /\ thrown' = (thrown \/ s.thrown)
      /\ UNCHANGED <<scene, connected, combat, trades>>
      /\ c \in connected /\ CanFound(c)
  BY DEF Create
<1>2. /\ TakesSeat(c, k, 0, c, NoParty)
      /\ s.social = NewSocial(c, k, 0, c)
      /\ s.ownership = NewOwner(c, c)
      /\ s.registry = NewParties(k, 0, NoParty)
      /\ s.run \in [Worlds -> Runs]
      /\ s.thrown = FALSE
  BY <1>1, FoundedFacts
<1> HIDE DEF s, k
<1>3. /\ GoodRoster(social', ownership', registry', scene, connected)
      /\ OutOf(social', registry', scene)
      /\ FoughtBy(ownership', scene, combat)
      /\ \A e \in Controllers : social'[e] =
           IF e = c THEN [member |-> TRUE, party |-> k, player |-> 0, world |-> c] ELSE social[e]
  BY <1>1, <1>2, SeatTaken
<1>4. ~social[c].member
  BY <1>1 DEF CanFound, IsMember
<1>5. TradesBindPartners'
  BY <1>1, <1>3, <1>4, TradesStay
<1>6. RosterOf(social, ownership, registry, scene, connected)' /\ OutOf(social, registry, scene)'
      /\ FoughtBy(ownership, scene, combat)'
  BY <1>1, <1>3 DEF GoodRoster
<1>7. thrown' = FALSE
  BY <1>1, <1>2 DEF NPInv, TypeOK
<1>8. TypeOK'
  BY <1>1, <1>2, <1>3, <1>7 DEF GoodRoster, NPInv, TypeOK
<1> QED
  BY <1>5, <1>6, <1>7, <1>8 DEF NPInv

-----------------------------------------------------------------------------
(* Adventures *)

PeersIn(soc, k) == {d \in Controllers : soc[d].member /\ soc[d].party = k}
Sent(reg, k, act) == [reg EXCEPT ![k] = Started(reg[k], act, LocationIn(act))]
Abroad(peers, act) == [d \in Controllers |-> IF d \in peers THEN act ELSE scene[d]]

\* The party k, all of it in Town, sets out for the adventure act.
LEMMA SetsOut ==
  ASSUME NEW soc, NEW own, NEW reg, GoodRoster(soc, own, reg, scene, connected),
         OutOf(soc, reg, scene), FoughtBy(own, scene, combat), scene \in [Controllers -> Scenes],
         NEW k \in PartySlots, NEW act \in Away, \A d \in PeersIn(soc, k) : scene[d] = "Town"
  PROVE  /\ Sent(reg, k, act) \in [PartySlots -> Party]
         /\ Abroad(PeersIn(soc, k), act) \in [Controllers -> Scenes]
         /\ RosterOf(soc, own, Sent(reg, k, act), Abroad(PeersIn(soc, k), act), connected)
         /\ OutOf(soc, Sent(reg, k, act), Abroad(PeersIn(soc, k), act))
         /\ FoughtBy(own, Abroad(PeersIn(soc, k), act), combat)
<1> DEFINE q == Started(reg[k], act, LocationIn(act))
           peers == PeersIn(soc, k)
           reg2 == Sent(reg, k, act)
           scn2 == Abroad(peers, act)
<1>1. soc \in [Controllers -> Social] /\ reg \in [PartySlots -> Party]
  BY DEF GoodRoster
<1>2. SameSeats(reg[k], q) /\ q.activity = act /\ q.locked
  BY <1>1, StartedSeats
<1>3. act \in Scenes /\ act \notin {"Absent", "Creating"}
  BY DEF Away, Scenes
<1> HIDE DEF q
<1>4. /\ reg2 \in [PartySlots -> Party]
      /\ \A j \in PartySlots : reg2[j] = IF j = k THEN q ELSE reg[j]
      /\ \A j \in PartySlots : Members(reg2[j]) = Members(reg[j])
  BY <1>1, <1>2 DEF SameSeats, Sent, q
<1>5. scn2 \in [Controllers -> Scenes]
      /\ \A d \in Controllers : scn2[d] = IF d \in peers THEN act ELSE scene[d]
  BY <1>3 DEF Abroad
<1>10. \A d \in Controllers : /\ d \in peers <=> soc[d].member /\ soc[d].party = k
                              /\ d \in peers => scene[d] = "Town"
  BY DEF PeersIn
<1> HIDE DEF peers, reg2, scn2
<1>6. ASSUME NEW d \in Controllers, soc[d].member
      PROVE  /\ scn2[d] \notin {"Absent", "Creating"}
             /\ IsOnline(reg2[soc[d].party], soc[d].player) <=> d \in connected
  <2>1. SeatedIn(d, soc, own, reg, scene, connected)
    BY <1>6 DEF GoodRoster, RosterOf
  <2>2. soc[d].party \in PartySlots /\ soc[d].player \in Seats
    BY <1>1 DEF Social
  <2> QED
    BY <1>2, <1>3, <1>4, <1>5, <2>1, <2>2 DEF SeatedIn, SameSeats
<1>7. RosterOf(soc, own, reg2, scn2, connected)
  BY <1>4, <1>6, KeepsRoster
<1>8. OutOf(soc, reg2, scn2)
  <2> SUFFICES ASSUME NEW d \in Controllers, scn2[d] \in Away
               PROVE  /\ soc[d].member
                      /\ reg2[soc[d].party].activity = scn2[d]
                      /\ reg2[soc[d].party].locked
    BY DEF OutOf
  <2>1. CASE d \in peers
    BY <1>2, <1>4, <1>5, <1>10, <2>1
  <2>2. CASE d \notin peers
    <3>1. scn2[d] = scene[d]
      BY <1>5, <2>2
    <3>2. soc[d].member /\ reg[soc[d].party].activity = scene[d] /\ reg[soc[d].party].locked
      BY <3>1 DEF OutOf
    <3>3. soc[d].party \in PartySlots /\ soc[d].party # k
      BY <1>1, <1>10, <2>2, <3>2 DEF Social
    <3> QED
      BY <1>4, <3>1, <3>2, <3>3
  <2> QED
    BY <2>1, <2>2
<1>9. FoughtBy(own, scn2, combat)
  <2> SUFFICES ASSUME NEW w \in combat PROVE \E d \in Controllers : scn2[d] \in Away /\ own[d] = w
    BY DEF FoughtBy
  <2>1. PICK d \in Controllers : scene[d] \in Away /\ own[d] = w
    BY DEF FoughtBy
  <2>2. d \notin peers
    BY <1>10, <2>1 DEF Away
  <2> QED
    BY <1>5, <2>1, <2>2
<1> QED
  BY <1>4, <1>5, <1>7, <1>8, <1>9 DEF peers, reg2, scn2

\* A dungeon is begun anew only while the whole party is in Town.
LEMMA SafeJourney ==
  ASSUME NEW soc, NEW own, NEW reg, GoodRoster(soc, own, reg, scene, connected),
         FoughtBy(own, scene, combat),
         NEW c \in Controllers, soc[c].member,
         \A d \in Controllers : soc[d].member /\ soc[d].party = soc[c].party => scene[d] = "Town"
  PROVE  ~ResetThrows(soc[c].world, own)
<1>1. own[c] = soc[c].world
  BY DEF GoodRoster, RosterOf, SeatedIn
<1>2. \A e \in Controllers : own[e] = own[c] => scene[e] = "Town"
  BY Neighbours
<1>3. \A e \in Controllers : own[e] = own[c] => scene[e] \notin Away
  BY <1>2 DEF Away
<1> QED
  BY <1>1, <1>3 DEF ResetThrows, FoughtBy, HasActor

LEMMA TravelInv ==
  ASSUME NPInv, NEW c \in Controllers, NEW act \in Adventures, Travel(c, act)
  PROVE  NPInv'
<1> DEFINE s == IF IsMember(c)
                  THEN [social |-> social, ownership |-> ownership, registry |-> registry,
                        run |-> run, thrown |-> FALSE]
                  ELSE Founded(c)
           k == s.social[c].party
           w == s.social[c].world
           peers == {d \in Controllers : s.social[d].member /\ s.social[d].party = k}
           wiped == act = "Dungeon" /\ s.run[w] = "Completed"
           fresh == IF act = "Dungeon" THEN [s.run EXCEPT ![w] = "Running"] ELSE s.run
<1>1. /\ c \in connected /\ InTown(c)
      /\ ~IsMember(c) => CanFound(c)
      /\ \A d \in peers : IsOnline(s.registry[k], s.social[d].player) /\ InTown(d)
      /\ social' = s.social
      /\ ownership' = s.ownership
      /\ \/ /\ s.registry[k].activity = "Town"
            /\ registry' = [s.registry EXCEPT ![k] = Started(@, act, LocationIn(act))]
            /\ scene' = [d \in Controllers |-> IF d \in peers THEN act ELSE scene[d]]
            /\ run' = fresh
         \/ /\ s.registry[k].activity # "Town"
            /\ run' = IF wiped THEN [s.run EXCEPT ![w] = "None"] ELSE s.run
            /\ UNCHANGED <<registry, scene>>
      /\ thrown' = (thrown \/ s.thrown \/ (wiped /\ ResetThrows(w, s.ownership)))
      /\ UNCHANGED <<connected, combat, trades>>
  BY DEF Travel
<1>2. /\ GoodRoster(s.social, s.ownership, s.registry, scene, connected)
      /\ OutOf(s.social, s.registry, scene)
      /\ FoughtBy(s.ownership, scene, combat)
      /\ s.run \in [Worlds -> Runs]
      /\ s.thrown = FALSE
      /\ s.social[c].member
      /\ \A d \in Controllers : social[d].member => s.social[d] = social[d]
      /\ s.registry[k].activity # "Town" => s.registry = registry
  <2>1. CASE IsMember(c)
    <3>1. /\ s.social = social /\ s.ownership = ownership /\ s.registry = registry
          /\ s.run = run /\ s.thrown = FALSE
      BY <2>1
    <3> HIDE DEF s
    <3> QED
      BY <2>1, <3>1, TheRoster DEF NPInv, TypeOK, IsMember
  <2>2. CASE ~IsMember(c)
    <3>1. s = Founded(c)
      BY <2>2
    <3> HIDE DEF s
    <3>2. /\ TakesSeat(c, k, 0, c, NoParty)
          /\ s.social = NewSocial(c, k, 0, c)
          /\ s.ownership = NewOwner(c, c)
          /\ s.registry = NewParties(k, 0, NoParty)
          /\ s.run \in [Worlds -> Runs]
          /\ s.thrown = FALSE
      BY <1>1, <2>2, <3>1, FoundedFacts
    <3> HIDE DEF k
    <3>3. /\ GoodRoster(s.social, s.ownership, s.registry, scene, connected)
          /\ OutOf(s.social, s.registry, scene)
          /\ FoughtBy(s.ownership, scene, combat)
          /\ \A e \in Controllers : s.social[e] =
               IF e = c THEN [member |-> TRUE, party |-> k, player |-> 0, world |-> c] ELSE social[e]
          /\ s.registry[k].activity = "Town"
      BY <3>2, SeatTaken
    <3> QED
      BY <2>2, <3>2, <3>3 DEF IsMember
  <2> QED
    BY <2>1, <2>2
<1>3. act \in Away
  BY AdventuresAssumption DEF Away
<1>4. k \in PartySlots /\ w \in Worlds
  BY <1>2 DEF GoodRoster, Social
<1> HIDE DEF s
<1>5. \A d \in peers : scene[d] = "Town"
  BY <1>1 DEF InTown
<1>6. ~ResetThrows(w, s.ownership)
  BY <1>2, <1>5, SafeJourney
<1>7. thrown' = FALSE
  <2>1. thrown = FALSE
    BY DEF NPInv, TypeOK
  <2> HIDE DEF w, wiped
  <2> QED
    BY <1>1, <1>2, <1>6, <2>1
<1>8. run' \in [Worlds -> Runs]
  <2>1. fresh \in [Worlds -> Runs]
    BY <1>2, <1>4 DEF Runs
  <2>2. [s.run EXCEPT ![w] = "None"] \in [Worlds -> Runs]
    BY <1>2, <1>4 DEF Runs
  <2> HIDE DEF fresh, w, k, peers
  <2> QED
    BY <1>1, <1>2, <2>1, <2>2
<1>9. /\ registry' \in [PartySlots -> Party] /\ scene' \in [Controllers -> Scenes]
      /\ RosterOf(s.social, s.ownership, registry', scene', connected)
      /\ OutOf(s.social, registry', scene')
      /\ FoughtBy(s.ownership, scene', combat)
  <2>1. scene \in [Controllers -> Scenes]
    BY DEF NPInv, TypeOK
  <2>2. CASE s.registry[k].activity = "Town"
    <3>1. registry' = Sent(s.registry, k, act) /\ scene' = Abroad(PeersIn(s.social, k), act)
      BY <1>1, <2>2 DEF Sent, Abroad, PeersIn
    <3>2. \A d \in PeersIn(s.social, k) : scene[d] = "Town"
      BY <1>5 DEF PeersIn
    <3>3. /\ GoodRoster(s.social, s.ownership, s.registry, scene, connected)
          /\ OutOf(s.social, s.registry, scene)
          /\ FoughtBy(s.ownership, scene, combat)
      BY <1>2
    <3>4. k \in PartySlots
      BY <1>4
    <3> HIDE DEF peers, k
    <3> QED
      BY <1>3, <2>1, <3>1, <3>2, <3>3, <3>4, SetsOut
  <2>3. CASE s.registry[k].activity # "Town"
    <3>1. registry' = registry /\ scene' = scene /\ s.registry = registry
      BY <1>1, <1>2, <2>3
    <3> QED
      BY <1>2, <2>1, <3>1 DEF GoodRoster
  <2> QED
    BY <2>2, <2>3
<1>10. TradesBindPartners'
  BY <1>1, <1>2, TradesStay
<1>11. RosterOf(social, ownership, registry, scene, connected)' /\ OutOf(social, registry, scene)'
       /\ FoughtBy(ownership, scene, combat)'
  BY <1>1, <1>9
<1>12. TypeOK'
  BY <1>1, <1>2, <1>7, <1>8, <1>9 DEF GoodRoster, NPInv, TypeOK
<1> QED
  BY <1>7, <1>10, <1>11, <1>12 DEF NPInv

-----------------------------------------------------------------------------
(* Leaving *)

LEMMA LeftSeats ==
  ASSUME NEW party \in Party, NEW p \in Seats
  PROVE  /\ Left(party, p) \in Party
         /\ p = 0 => Members(Left(party, p)) = {}
         /\ p # 0 => /\ Members(Left(party, p)) = Members(party) \ {p}
                     /\ Left(party, p).activity = party.activity
                     /\ Left(party, p).locked = party.locked
         /\ \A q \in Seats : p # 0 /\ q # p => (IsOnline(Left(party, p), q) <=> IsOnline(party, q))
<1>1. CASE p = 0
  BY <1>1, NoPartySeats DEF Left
<1>2. CASE p # 0
  <2> DEFINE other == [party EXCEPT !.seat[p] = Vacant]
  <2>1. Left(party, p) = other
    BY <1>2 DEF Left
  <2>2. /\ other \in Party /\ other.activity = party.activity /\ other.locked = party.locked
        /\ \A q \in Seats : other.seat[q] = IF q = p THEN Vacant ELSE party.seat[q]
    BY DEF Party
  <2> HIDE DEF other
  <2>3. Members(other) = Members(party) \ {p}
    BY <2>2 DEF Members
  <2>4. \A q \in Seats : q # p => (IsOnline(other, q) <=> IsOnline(party, q))
    BY <2>2 DEF IsOnline
  <2> QED
    BY <1>2, <2>1, <2>2, <2>3, <2>4
<1> QED
  BY <1>1, <1>2

\* Who is dismissed when c leaves: c, and with a leader everybody of the party.
LEMMA DismissedFacts ==
  ASSUME NPInv, NEW c \in Controllers, social[c].member
  PROVE  /\ c \in Dismissed(c) /\ Dismissed(c) \subseteq Controllers
         /\ \A d \in Dismissed(c) : social[d].member /\ social[d].party = social[c].party
                                    /\ ownership[d] = ownership[c]
         /\ \A d \in Controllers \ Dismissed(c) :
              social[d].member /\ social[d].party = social[c].party =>
                social[c].player # 0 /\ social[d].player # social[c].player
<1>1. \A d \in Dismissed(c) : d \in Controllers /\ social[d].member /\ social[d].party = social[c].party
  BY DEF Dismissed, PeersOf, SameParty, IsMember
<1>2. \A d \in Dismissed(c) : ownership[d] = ownership[c]
  BY <1>1 DEF NPInv, RosterOf, Apart
<1>3. c \in Dismissed(c)
  BY DEF Dismissed, PeersOf, SameParty, IsMember
<1>4. ASSUME NEW d \in Controllers \ Dismissed(c), social[d].member, social[d].party = social[c].party
      PROVE  social[c].player # 0 /\ social[d].player # social[c].player
  <2>1. social[c].player # 0
    BY <1>4 DEF Dismissed, PeersOf, SameParty, IsMember, IsPartyLeader
  <2>2. d # c
    BY <1>3
  <2> QED
    BY <1>4, <2>1, <2>2, OneSeatEach
<1> QED
  BY <1>1, <1>2, <1>3, <1>4

\* Leaving fails to reset no world: nobody else lives in those of the dismissed.
LEMMA NothingFails ==
  ASSUME NPInv, NEW c \in Controllers, social[c].member, ~InCombat(c), NEW moved,
         \A e \in Dismissed(c) \ moved : ~HasActor(e)
  PROVE  {d \in Wiped(c, Dismissed(c)) :
            \/ d \in combat
            \/ \E e \in Controllers \ moved : Rehoused(c, Dismissed(c))[e] = d /\ HasActor(e)} = {}
<1> DEFINE gone == Dismissed(c)
<1>1. /\ c \in gone /\ gone \subseteq Controllers
      /\ \A d \in gone : social[d].member /\ social[d].party = social[c].party
                         /\ ownership[d] = ownership[c]
      /\ \A d \in Controllers \ gone : social[d].member /\ social[d].party = social[c].party =>
           social[c].player # 0 /\ social[d].player # social[c].player
  BY DismissedFacts
<1>2. ASSUME NEW d \in gone, NEW e \in Controllers, HasActor(e), ownership[e] = d
      PROVE  e \in gone /\ ownership[c] = d
  <2>1. social[e].member
    BY <1>2 DEF NPInv, OutOf, HasActor
  <2>2. social[d].party = social[e].party /\ social[d].player = 0
    BY <1>2, <2>1, TheRoster, Landlord
  <2>3. d \in gone /\ d \in Controllers /\ social[d].member /\ social[d].party = social[c].party
    BY <1>1
  <2>4. d = c
    <3>1. CASE IsPartyLeader(c)
      BY <2>2, <2>3, <3>1, OneSeatEach DEF IsPartyLeader
    <3>2. CASE ~IsPartyLeader(c)
      BY <2>3, <3>2 DEF Dismissed
    <3> QED
      BY <3>1, <3>2
  <2>5. e \in gone
    BY <1>1, <2>1, <2>2, <2>3, <2>4
  <2> QED
    BY <1>1, <1>2, <2>5
<1>3. ASSUME NEW d \in gone PROVE d \notin combat
  <2> SUFFICES ASSUME d \in combat PROVE FALSE
    OBVIOUS
  <2>1. PICK e \in Controllers : HasActor(e) /\ ownership[e] = d
    BY DEF NPInv, FoughtBy, HasActor
  <2>2. ownership[c] = d
    BY <1>2, <2>1
  <2> QED
    BY <2>2 DEF InCombat
<1>4. ASSUME NEW d \in gone, NEW e \in Controllers \ moved, Rehoused(c, gone)[e] = d
      PROVE  ~HasActor(e)
  <2>1. CASE e \in gone
    BY <2>1
  <2>2. CASE e \notin gone
    <3>1. ownership[e] = d
      BY <1>4, <2>2 DEF Rehoused
    <3> QED
      BY <1>2, <2>2, <3>1
  <2> QED
    BY <2>1, <2>2
<1> QED
  BY <1>3, <1>4 DEF Wiped

\* Of the others, a leave changes neither the scene nor the connection nor the
\* adventure; those who are dismissed are at home.
LEMMA LeavePartyInv ==
  ASSUME NPInv, NEW c \in Controllers, social[c].member, ~InCombat(c),
         NEW parties \in [PartySlots -> Party],
         \A j \in PartySlots : SameSeats(registry[j], parties[j]),
         NEW moved, \A e \in Dismissed(c) \ moved : ~HasActor(e),
         LeaveParty(c, parties, moved), combat' = combat,
         scene' \in [Controllers -> Scenes], connected' \subseteq Controllers,
         \A d \in Dismissed(c) : scene'[d] \notin Away,
         \A d \in Controllers \ Dismissed(c) :
           /\ scene'[d] = scene[d] /\ (d \in connected' <=> d \in connected)
           /\ social[d].member /\ scene[d] \in Away =>
                /\ parties[social[d].party].activity = registry[social[d].party].activity
                /\ parties[social[d].party].locked = registry[social[d].party].locked
  PROVE  NPInv'
<1> DEFINE gone == Dismissed(c)
           k == social[c].party
           p == social[c].player
<1>1. /\ c \in gone /\ gone \subseteq Controllers
      /\ \A d \in gone : social[d].member /\ social[d].party = k /\ ownership[d] = ownership[c]
      /\ \A d \in Controllers \ gone : social[d].member /\ social[d].party = k =>
           p # 0 /\ social[d].player # p
  BY DismissedFacts
<1>2. k \in PartySlots /\ p \in Seats /\ p \in Members(registry[k])
  BY MemberFacts
<1>3. /\ trades' = TradesWithout(gone)
      /\ registry' = [parties EXCEPT ![k] = Left(parties[k], p)]
      /\ social' = [d \in Controllers |-> IF d \in gone THEN NoSocial ELSE social[d]]
      /\ ownership' = Rehoused(c, gone)
  BY DEF LeaveParty
<1>4. run' \in [Worlds -> Runs] /\ thrown' = FALSE
  <2> DEFINE failing == {d \in Wiped(c, gone) :
                           \/ d \in combat
                           \/ \E e \in Controllers \ moved : Rehoused(c, gone)[e] = d /\ HasActor(e)}
  <2>1. failing = {}
    BY NothingFails
  <2>2. /\ run' = [w \in Worlds |-> IF w \in Wiped(c, gone) \ failing THEN "None" ELSE run[w]]
        /\ thrown' = (thrown \/ failing # {})
    BY DEF LeaveParty
  <2> HIDE DEF failing
  <2>3. thrown = FALSE /\ run \in [Worlds -> Runs]
    BY DEF NPInv, TypeOK
  <2> QED
    BY <2>1, <2>2, <2>3 DEF Runs
<1> HIDE DEF gone, k, p
<1>5. \A d \in Controllers : /\ social'[d] = IF d \in gone THEN NoSocial ELSE social[d]
                             /\ ownership'[d] = IF d \in gone THEN d ELSE ownership[d]
  BY <1>3 DEF Rehoused
<1>6. social' \in [Controllers -> Social] /\ ownership' \in [Controllers -> Worlds] /\ ~NoSocial.member
  <2>1. NoSocial \in Social /\ ~NoSocial.member
    BY ControllersNumbers DEF NoSocial, Social
  <2> QED
    BY <1>3, <2>1, ControllersNumbers DEF NPInv, TypeOK, Rehoused
<1> DEFINE left == Left(parties[k], p)
<1>7. /\ left \in Party
      /\ p = 0 => Members(left) = {}
      /\ p # 0 => /\ Members(left) = Members(registry[k]) \ {p}
                  /\ left.activity = parties[k].activity
                  /\ left.locked = parties[k].locked
      /\ \A q \in Seats : p # 0 /\ q # p => (IsOnline(left, q) <=> IsOnline(registry[k], q))
  BY <1>2, LeftSeats DEF SameSeats
<1> HIDE DEF left
<1>8. /\ registry' \in [PartySlots -> Party]
      /\ \A j \in PartySlots : registry'[j] = IF j = k THEN left ELSE parties[j]
  BY <1>2, <1>3, <1>7 DEF left
<1>9. \A d \in Controllers : social[d].member => social[d].party \in PartySlots /\ social[d].player \in Seats
  BY MemberFacts
<1>10. ASSUME NEW d \in Controllers
       PROVE  IF social'[d].member THEN SeatedIn(d, social', ownership', registry', scene', connected')
                                   ELSE ownership'[d] = d
  <2>1. CASE d \in gone
    BY <1>5, <1>6, <2>1
  <2>2. CASE d \notin gone /\ ~social[d].member
    BY <1>5, <2>2 DEF NPInv, RosterOf
  <2>3. CASE d \notin gone /\ social[d].member
    <3>1. SeatedIn(d, social, ownership, registry, scene, connected)
      BY <2>3 DEF NPInv, RosterOf
    <3>2. social'[d] = social[d] /\ ownership'[d] = ownership[d]
          /\ scene'[d] = scene[d] /\ (d \in connected' <=> d \in connected)
      BY <1>5, <2>3 DEF gone
    <3>3. CASE social[d].party = k
      <4>1. p # 0 /\ social[d].player # p /\ registry'[k] = left
        BY <1>1, <1>2, <1>8, <2>3, <3>3
      <4> QED
        BY <1>7, <1>9, <2>3, <3>1, <3>2, <3>3, <4>1 DEF SeatedIn
    <3>4. CASE social[d].party # k
      <4>1. registry'[social[d].party] = parties[social[d].party]
        BY <1>8, <1>9, <2>3, <3>4
      <4>2. SameSeats(registry[social[d].party], parties[social[d].party])
        BY <1>9, <2>3
      <4> QED
        BY <1>9, <2>3, <3>1, <3>2, <4>1, <4>2 DEF SeatedIn, SameSeats
    <3> QED
      BY <3>3, <3>4
  <2> QED
    BY <2>1, <2>2, <2>3
<1>11. ASSUME NEW d \in Controllers, NEW e \in Controllers PROVE Apart(d, e, social', ownership')
  <2>1. Apart(d, e, social, ownership)
    BY DEF NPInv, RosterOf
  <2> QED
    BY <1>5, <1>6, <2>1 DEF Apart
<1>12. ASSUME NEW j \in PartySlots PROVE Filled(j, social', registry')
  <2>1. Filled(j, social, registry)
    BY DEF NPInv, RosterOf
  <2>2. CASE j = k
    <3>1. registry'[j] = left
      BY <1>8, <2>2
    <3>2. CASE p = 0
      BY <1>7, <3>1, <3>2 DEF Filled
    <3>3. CASE p # 0
      <4>1. gone = {c}
        BY <3>3 DEF gone, p, Dismissed, IsPartyLeader
      <4>2. Members(registry'[j]) = Members(registry[j]) \ {p}
        BY <1>7, <2>2, <3>1, <3>3
      <4>3. ASSUME NEW q \in Members(registry'[j])
            PROVE  \E d \in Controllers : social'[d].member /\ social'[d].party = j /\ social'[d].player = q
        <5>1. PICK d \in Controllers : social[d].member /\ social[d].party = j /\ social[d].player = q
          BY <2>1, <4>2 DEF Filled
        <5>2. d # c
          BY <4>2, <5>1 DEF p
        <5> QED
          BY <1>5, <4>1, <5>1, <5>2
      <4>4. 0 \in Members(registry'[j])
        BY <1>2, <2>1, <2>2, <3>3, <4>2 DEF Filled
      <4> QED
        BY <4>3, <4>4 DEF Filled
    <3> QED
      BY <3>2, <3>3
  <2>3. CASE j # k
    <3>1. registry'[j] = parties[j] /\ SameSeats(registry[j], parties[j])
      BY <1>8, <2>3
    <3>2. \A d \in Controllers : social[d].member /\ social[d].party = j => social'[d] = social[d]
      BY <1>1, <1>5, <2>3
    <3> QED
      BY <2>1, <3>1, <3>2 DEF Filled, SameSeats
  <2> QED
    BY <2>2, <2>3
<1>13. RosterOf(social', ownership', registry', scene', connected')
  BY <1>10, <1>11, <1>12 DEF RosterOf
<1>14. OutOf(social', registry', scene')
  <2> SUFFICES ASSUME NEW d \in Controllers, scene'[d] \in Away
               PROVE  /\ social'[d].member
                      /\ registry'[social'[d].party].activity = scene'[d]
                      /\ registry'[social'[d].party].locked
    BY DEF OutOf
  <2>1. d \notin gone
    BY DEF gone
  <2>2. scene'[d] = scene[d] /\ social'[d] = social[d]
    BY <1>5, <2>1 DEF gone
  <2>3. social[d].member /\ registry[social[d].party].activity = scene[d]
        /\ registry[social[d].party].locked
    BY <2>2 DEF NPInv, OutOf
  <2>4. /\ parties[social[d].party].activity = registry[social[d].party].activity
        /\ parties[social[d].party].locked = registry[social[d].party].locked
    BY <2>1, <2>2, <2>3 DEF gone
  <2>5. social[d].party = k => p # 0
    BY <1>1, <2>1, <2>3
  <2> QED
    BY <1>2, <1>7, <1>8, <1>9, <2>2, <2>3, <2>4, <2>5
<1>15. FoughtBy(ownership', scene', combat)
  <2> SUFFICES ASSUME NEW w \in combat PROVE \E d \in Controllers : scene'[d] \in Away /\ ownership'[d] = w
    BY DEF FoughtBy
  <2>1. PICK d \in Controllers : scene[d] \in Away /\ ownership[d] = w
    BY DEF NPInv, FoughtBy
  <2>2. d \notin gone
    BY <1>1, <2>1 DEF InCombat
  <2> QED
    BY <1>5, <2>1, <2>2 DEF gone
<1>16. TradesBindPartners'
  <2>1. trades' \subseteq trades /\ \A t \in trades' : t[1] \notin gone /\ t[2] \notin gone
    BY <1>3 DEF TradesWithout
  <2>2. \A t \in trades : t[1] \in Controllers /\ t[2] \in Controllers
    BY DEF NPInv, TypeOK
  <2>3. \A t \in trades' : /\ social'[t[1]] = social[t[1]] /\ social'[t[2]] = social[t[2]]
                           /\ t[1] \in connected => t[1] \in connected'
                           /\ t[2] \in connected => t[2] \in connected'
    BY <1>5, <2>1, <2>2 DEF gone
  <2> QED
    BY <2>1, <2>3 DEF NPInv, TradesBindPartners, SameParty, IsMember
<1>17. TypeOK'
  <2>1. trades' \subseteq Controllers \X Controllers
    BY <1>3 DEF NPInv, TypeOK, TradesWithout
  <2> QED
    BY <1>4, <1>6, <1>8, <2>1 DEF NPInv, TypeOK
<1>18. RosterOf(social, ownership, registry, scene, connected)' /\ OutOf(social, registry, scene)'
       /\ FoughtBy(ownership, scene, combat)'
  BY <1>13, <1>14, <1>15
<1> QED
  BY <1>4, <1>16, <1>17, <1>18 DEF NPInv

LEMMA LeaveMenuInv == ASSUME NPInv, NEW c \in Controllers, LeaveMenu(c) PROVE NPInv'
<1>1. /\ social[c].member /\ InTown(c) /\ ~InCombat(c) /\ AllHome(c)
      /\ LeaveParty(c, registry, {})
      /\ UNCHANGED <<scene, connected, combat>>
  BY DEF LeaveMenu, IsMember
<1>2. \A d \in Dismissed(c) : ~HasActor(d)
  BY <1>1 DEF Dismissed, AllHome, InTown, HasActor, Away
<1>3. registry \in [PartySlots -> Party] /\ \A j \in PartySlots : SameSeats(registry[j], registry[j])
  BY DEF NPInv, TypeOK, SameSeats
<1>4. scene' \in [Controllers -> Scenes] /\ connected' \subseteq Controllers
  BY <1>1 DEF NPInv, TypeOK
<1>5. \A d \in Dismissed(c) : scene'[d] \notin Away
  BY <1>1, <1>2 DEF HasActor
<1>6. \A d \in Controllers \ Dismissed(c) :
        scene'[d] = scene[d] /\ (d \in connected' <=> d \in connected)
  BY <1>1
<1> QED
  BY <1>1, <1>2, <1>3, <1>4, <1>5, <1>6, LeavePartyInv

LEMMA RetireMemberInv == ASSUME NPInv, NEW c \in Controllers, RetireMember(c) PROVE NPInv'
<1> DEFINE k == social[c].party
           home == Dismissed(c)
           q == BackHome(c, home)
           parties == [registry EXCEPT ![k] = q]
           atHome == [d \in Controllers |->
                        IF d \in home /\ scene[d] # "Resting" THEN "Town" ELSE scene[d]]
<1>1. /\ c \in connected /\ social[c].member /\ ~InCombat(c) /\ combat' = combat
      /\ \/ /\ scene[c] = "Resting"
            /\ registry' = parties
            /\ scene' = atHome
            /\ UNCHANGED <<connected, social, ownership, run, trades, thrown>>
         \/ /\ scene[c] # "Resting"
            /\ LeaveParty(c, parties, home)
            /\ scene' = [atHome EXCEPT ![c] = "Absent"]
            /\ connected' = connected \ {c}
  BY DEF RetireMember, Dismissed, IsMember
<1>2. /\ c \in home /\ home \subseteq Controllers
      /\ \A d \in home : social[d].member /\ social[d].party = k /\ ownership[d] = ownership[c]
  BY <1>1, DismissedFacts
<1>3. k \in PartySlots
  BY <1>1, MemberFacts
<1>4. SameSeats(registry[k], q)
      /\ (StillOut(c, home) # {} => q.activity = registry[k].activity /\ q.locked = registry[k].locked)
  BY <1>1, BackHomeSeats
<1>5. q \in Party
  BY <1>4 DEF SameSeats
<1>6. ASSUME NEW d \in Controllers \ home, social[d].member, social[d].party = k, scene[d] \in Away
      PROVE  q.activity = registry[k].activity /\ q.locked = registry[k].locked
  <2>1. d \in StillOut(c, home)
    BY <1>1, <1>6 DEF StillOut, PeersOf, SameParty, IsMember, HasActor
  <2> QED
    BY <1>4, <2>1
<1>7. \A d \in Controllers : atHome[d] = IF d \in home /\ scene[d] # "Resting" THEN "Town" ELSE scene[d]
  OBVIOUS
<1>8. atHome \in [Controllers -> Scenes]
  BY DEF NPInv, TypeOK, Scenes
<1>9. \A d \in home : atHome[d] \notin Away
  BY <1>2, <1>7 DEF Away
<1> HIDE DEF home, q, k, atHome
<1>10. CASE scene[c] = "Resting"
  <2>1. registry' = [registry EXCEPT ![k] = q] /\ scene' = atHome
        /\ UNCHANGED <<connected, social, ownership, run, trades, thrown>>
    BY <1>1, <1>10
  <2>2. \A d \in Controllers : scene'[d] = scene[d] \/ (scene'[d] = "Town" /\ social[d].member)
    BY <1>2, <1>7, <2>1
  <2>3. \A d \in Controllers : social[d].member /\ social[d].party = k /\ scene'[d] \in Away =>
          q.activity = registry[k].activity /\ q.locked = registry[k].locked
    BY <1>6, <1>7, <1>9, <2>1
  <2>4. FoughtBy(ownership, scene', combat)
    <3> SUFFICES ASSUME NEW w \in combat PROVE \E d \in Controllers : scene'[d] \in Away /\ ownership[d] = w
      BY DEF FoughtBy
    <3>1. PICK d \in Controllers : scene[d] \in Away /\ ownership[d] = w
      BY DEF NPInv, FoughtBy
    <3>2. d \notin home
      BY <1>1, <1>2, <3>1 DEF InCombat
    <3> QED
      BY <1>7, <2>1, <3>1, <3>2
  <2>5. scene' \in [Controllers -> Scenes] /\ run' \in [Worlds -> Runs]
    BY <1>8, <2>1 DEF NPInv, TypeOK
  <2> QED
    BY <1>1, <1>3, <1>4, <1>5, <2>1, <2>2, <2>3, <2>4, <2>5, PartyMovesInv
<1>11. CASE scene[c] # "Resting"
  <2>1. /\ LeaveParty(c, parties, home)
        /\ scene' = [atHome EXCEPT ![c] = "Absent"]
        /\ connected' = connected \ {c}
    BY <1>1, <1>11
  <2>2. parties \in [PartySlots -> Party]
        /\ \A j \in PartySlots : parties[j] = IF j = k THEN q ELSE registry[j]
    BY <1>3, <1>5 DEF NPInv, TypeOK
  <2>3. \A j \in PartySlots : SameSeats(registry[j], parties[j])
    BY <1>4, <2>2 DEF SameSeats, NPInv, TypeOK
  <2>4. scene' \in [Controllers -> Scenes]
        /\ \A d \in Controllers : scene'[d] = IF d = c THEN "Absent" ELSE atHome[d]
    BY <1>8, <2>1 DEF Scenes
  <2>5. connected' \subseteq Controllers
    BY <2>1 DEF NPInv, TypeOK
  <2>6. \A d \in home : scene'[d] \notin Away
    BY <1>2, <1>9, <2>4 DEF Away
  <2>7. ASSUME NEW d \in Controllers \ home
        PROVE  /\ scene'[d] = scene[d] /\ (d \in connected' <=> d \in connected)
               /\ social[d].member /\ scene[d] \in Away =>
                    /\ parties[social[d].party].activity = registry[social[d].party].activity
                    /\ parties[social[d].party].locked = registry[social[d].party].locked
    <3>1. d # c
      BY <1>2
    <3>2. scene'[d] = scene[d] /\ (d \in connected' <=> d \in connected)
      BY <1>7, <2>1, <2>4, <3>1
    <3>3. social[d].member => social[d].party \in PartySlots
      BY MemberFacts
    <3> QED
      BY <1>6, <2>2, <3>2, <3>3
  <2>8. \A e \in home \ home : ~HasActor(e)
    OBVIOUS
  <2> HIDE DEF parties
  <2> QED
    BY <1>1, <2>1, <2>2, <2>3, <2>4, <2>5, <2>6, <2>7, <2>8, LeavePartyInv DEF home
<1> QED
  BY <1>10, <1>11

-----------------------------------------------------------------------------
(* The theorems *)

LEMMA NPInitInv == Init => NPInv
<1> SUFFICES ASSUME Init PROVE NPInv
  OBVIOUS
<1>1. NoSocial \in Social /\ ~NoSocial.member
  BY ControllersNumbers DEF NoSocial, Social
<1>2. TypeOK
  BY <1>1, NoPartySeats, ControllersNumbers DEF Init, TypeOK, Scenes, Runs
<1>3. RosterOf(social, ownership, registry, scene, connected)
  <2>1. \A k \in PartySlots : Members(registry[k]) = {}
    BY NoPartySeats DEF Init
  <2> QED
    BY <1>1, <2>1 DEF Init, RosterOf, Apart, Filled
<1>4. OutOf(social, registry, scene) /\ FoughtBy(ownership, scene, combat)
  BY DEF Init, OutOf, FoughtBy, Away
<1> QED
  BY <1>2, <1>3, <1>4 DEF NPInv, Init, TradesBindPartners

LEMMA NPNextInv == ASSUME NPInv, Next PROVE NPInv'
<1>1. ASSUME NEW c \in Controllers, NEW k \in PartySlots, Join(c, k) PROVE NPInv'
  BY <1>1, JoinInv
<1>2. ASSUME NEW c \in Controllers, NEW act \in Adventures, Travel(c, act) PROVE NPInv'
  BY <1>2, TravelInv
<1>3. ASSUME NEW c \in Controllers, NEW d \in Controllers, ProposeTrade(c, d) PROVE NPInv'
  BY <1>3, ProposeTradeInv
<1>4. ASSUME NEW c \in Controllers,
             \/ Play(c) \/ FinishCreation(c) \/ Detach(c) \/ Resume(c) \/ Refresh(c)
             \/ Rest(c) \/ EndRest(c) \/ Create(c) \/ LeaveMenu(c) \/ Home(c)
             \/ ResetAdventure(c) \/ RetireMember(c) \/ RetireLoner(c) \/ AnswerTrade(c)
      PROVE  NPInv'
  BY <1>4, PlayInv, HomeLifeInv, DetachInv, ResumeInv, RefreshInv, CreateInv, LeaveMenuInv,
     HomeInv, ResetAdventureInv, RetireMemberInv, RetireLonerInv, AnswerTradeInv
<1>5. ASSUME NEW w \in Worlds, StartCombat(w) \/ EndCombat(w) PROVE NPInv'
  BY <1>5, StartCombatInv, EndCombatInv
<1> QED
  BY <1>1, <1>2, <1>3, <1>4, <1>5 DEF Next

LEMMA NPStutterInv == ASSUME NPInv, UNCHANGED vars PROVE NPInv'
<1>1. SameRoster /\ UNCHANGED <<run, combat, trades, thrown>>
  BY DEF vars, SameRoster
<1> QED
  BY <1>1, SameTrades, SameRosterInv DEF NPInv, TypeOK, SameRoster

\* Rosters, worlds, adventures, fights and offers stay in step, whatever the
\* controllers, their connections and the ticks do and in whatever order.
THEOREM PartiesInvariance == Spec => []NPInv
<1>1. NPInv /\ [Next]_vars => NPInv'
  BY NPNextInv, NPStutterInv
<1> QED
  BY NPInitInv, <1>1, PTL DEF Spec

\* Every variable of the runtime keeps its type: no seat, world or party is
\* used that does not exist.
THEOREM PartiesTypes == Spec => []TypeOK
<1>1. NPInv => TypeOK
  BY DEF NPInv
<1> QED
  BY PartiesInvariance, <1>1, PTL

\* The registry's roster and the runtime's are of the same people, each in a
\* seat of its own, online in the one as in the other.
THEOREM RostersAlwaysAgree == Spec => []RostersAgree
  BY PartiesInvariance, RostersFollow, PTL

\* Whoever shares a world shares a party, nobody is out while the party is in
\* Town, and resetNativeWorld never throws.
THEOREM WorldsAlwaysInOrder == Spec => []WorldsInOrder
  BY PartiesInvariance, WorldsFollow, PTL

\* A pending offer is always between two connected members of one party, each
\* of whom has no other.
THEOREM OffersAlwaysBindPartners == Spec => []TradesBindPartners
<1>1. NPInv => TradesBindPartners
  BY DEF NPInv
<1> QED
  BY PartiesInvariance, <1>1, PTL

=============================================================================
