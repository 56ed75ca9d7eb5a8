----------------------------- MODULE NativeParty -----------------------------
(***************************************************************************)
(* Parties of the native server runtime.  Every controller plays one       *)
(* character; it owns a world (dungeon, forest and combat), and a party    *)
(* plays in one of them.  The roster is kept twice, by the PartyRegistry   *)
(* (who is a member, where each member is, what the party does) and by     *)
(* the runtime (social, ownership, the scene each controller plays in).    *)
(*                                                                         *)
(* The registry is reduced to what the runtime asks of it: a party is the  *)
(* location of the member in each seat, its activity and its lock.  A      *)
(* member is offline exactly when its location is DISCONNECTED.  Inputs    *)
(* of controllers, connection changes and 10 ms ticks interleave freely.   *)
(***************************************************************************)
EXTENDS Integers, FiniteSets, FiniteSetsExt

CONSTANTS
  MaxControllers,    \* MAX_MULTIPLAYER_PLAYERS = NATIVE_WORLD_CAPACITY = 4
  Adventures,        \* kinds of adventure explored, of Forest and Dungeon
  Resters,           \* controllers that rest at home
  Traders,           \* controllers that make offers
  Fighters           \* worlds in which encounters are explored

ASSUME ControllersAssumption == MaxControllers \in Nat \ {0}
ASSUME AdventuresAssumption == Adventures \subseteq {"Forest", "Dungeon"}
ASSUME FightersAssumption == Fighters \subseteq 0..(MaxControllers - 1)

VARIABLES
  scene,             \* what each controller plays in; Absent when unbound
  connected,         \* controllers with a connection
  social,            \* membership each controller believes it has
  ownership,         \* world of each controller
  registry,          \* parties of the PartyRegistry
  run,               \* the dungeon run of each world
  combat,            \* worlds in which combat is active
  trades,            \* pending offers, as <<sender, recipient>>
  thrown             \* a world was reset while occupied (std::logic_error)

vars == <<scene, connected, social, ownership, registry, run, combat, trades, thrown>>

Controllers == 0..(MaxControllers - 1)
Worlds == Controllers
Seats == Controllers
PartySlots == Controllers

Scenes == {"Absent", "Creating", "Town", "Resting", "Forest", "Dungeon"}
Away == {"Forest", "Dungeon"}
Locations == {"TOWN", "FOREST", "DUNGEON", "CONNECTING", "DISCONNECTED"}
Runs == {"None", "Running", "Completed"}

NoSocial == [member |-> FALSE, party |-> 0, player |-> 0, world |-> 0]
Social == [member : BOOLEAN, party : PartySlots, player : Seats, world : Worlds]

-----------------------------------------------------------------------------
(* The registry, one operator per call; each yields the party afterwards. *)

Vacant == "VACANT"
Party == [seat : [Seats -> Locations \cup {Vacant}],
          activity : {"Town"} \cup Away, locked : BOOLEAN]

NoParty == [seat |-> [p \in Seats |-> Vacant], activity |-> "Town", locked |-> FALSE]

Members(party) == {p \in Seats : party.seat[p] # Vacant}
IsOnline(party, p) == party.seat[p] \notin {Vacant, "DISCONNECTED"}

FreeSeat(party) == Min(Seats \ Members(party))

JoinedAt(party, p) == [party EXCEPT !.seat[p] = "TOWN"]

\* leave: with the leader the party closes.
Left(party, p) == IF p = 0 THEN NoParty ELSE [party EXCEPT !.seat[p] = Vacant]

Disconnected(party, p) == [party EXCEPT !.seat[p] = "DISCONNECTED"]

Reconnected(party, p) ==
  IF IsOnline(party, p) THEN party
  ELSE [party EXCEPT !.seat[p] = IF party.activity = "Town" THEN "TOWN" ELSE "CONNECTING"]

Located(party, ps, location) ==
  [party EXCEPT !.seat = [p \in Seats |->
     IF p \in ps /\ IsOnline(party, p) THEN location ELSE @[p]]]

Started(party, act, location) ==
  [Located(party, Seats, location) EXCEPT !.activity = act, !.locked = TRUE]

\* returnToTown; the runtime ignores its refusal.
ReturnedToTown(party) ==
  IF \A p \in Members(party) : party.seat[p] \in {"TOWN", "DISCONNECTED"}
    THEN [party EXCEPT !.activity = "Town", !.locked = FALSE]
    ELSE party

-----------------------------------------------------------------------------
(* What the runtime derives from its state *)

IsMember(c) == social[c].member
PartyOf(c) == registry[social[c].party]

SameParty(a, b) == IsMember(a) /\ IsMember(b) /\ social[a].party = social[b].party

PeersOf(c) == {d \in Controllers : SameParty(c, d)}

ConnectedPartyMember(c) == IsMember(c) /\ IsOnline(PartyOf(c), social[c].player)

IsPartyLeader(c) == IsMember(c) /\ social[c].player = 0

\* nativeActor: a controller has an actor in its world exactly while it is out.
HasActor(c) == scene[c] \in Away

\* town()
InTown(c) == scene[c] = "Town"

InCombat(c) == ownership[c] \in combat

LocationIn(s) == CASE s = "Forest" -> "FOREST" [] s = "Dungeon" -> "DUNGEON" [] OTHER -> "TOWN"

UsedWorlds == {social[c].world : c \in {d \in Controllers : IsMember(d)}}

\* The world a controller gets for itself: its own number unless a party
\* plays there, then the lowest free one (MaxControllers when there is none).
WorldFor(c) ==
  IF c \notin UsedWorlds THEN c
  ELSE Min((Worlds \cup {MaxControllers}) \ UsedWorlds)

\* resetNativeWorld throws while somebody owning the world has an actor.
ResetThrows(w, owned) == w \in combat \/ \E c \in Controllers : owned[c] = w /\ HasActor(c)

BoundByTrade(c) == \E t \in trades : c \in {t[1], t[2]}

\* Mutant of TradesWithout: only the offers it made.
TradesWithoutSent(cs) == {t \in trades : t[1] \notin cs}

\* tradeOffers.cancelForPlayer for each controller in cs
TradesWithout(cs) == {t \in trades : t[1] \notin cs /\ t[2] \notin cs}

-----------------------------------------------------------------------------
(* Connections *)

Init ==
  /\ scene = [c \in Controllers |-> "Absent"]
  /\ connected = {}
  /\ social = [c \in Controllers |-> NoSocial]
  /\ ownership = [c \in Controllers |-> c]
  /\ registry = [k \in PartySlots |-> NoParty]
  /\ run = [w \in Worlds |-> "None"]
  /\ combat = {}
  /\ trades = {}
  /\ thrown = FALSE

\* play on a fresh slot: bindController, then nativePartyCharacterName.
Play(c) ==
  /\ scene[c] = "Absent"
  /\ scene' = [scene EXCEPT ![c] = "Creating"]
  /\ connected' = connected \cup {c}
  /\ ownership' = [ownership EXCEPT ![c] = IF WorldFor(c) < MaxControllers THEN WorldFor(c) ELSE @]
  /\ UNCHANGED <<social, registry, run, combat, trades, thrown>>

FinishCreation(c) ==
  /\ scene[c] = "Creating"
  /\ c \in connected
  /\ scene' = [scene EXCEPT ![c] = "Town"]
  /\ UNCHANGED <<connected, social, ownership, registry, run, combat, trades, thrown>>

\* setControllerConnected and nativePartyConnection
Detach(c) ==
  /\ c \in connected
  /\ connected' = connected \ {c}
  /\ \/ /\ IsMember(c)
        /\ trades' = TradesWithout({c})
        /\ registry' = [registry EXCEPT ![social[c].party] = Disconnected(@, social[c].player)]
     \/ /\ ~IsMember(c)
        /\ UNCHANGED <<trades, registry>>
  /\ UNCHANGED <<scene, social, ownership, run, combat, thrown>>

Resume(c) ==
  /\ scene[c] # "Absent"
  /\ c \notin connected
  /\ connected' = connected \cup {c}
  /\ \/ /\ IsMember(c)
        /\ registry' = [registry EXCEPT ![social[c].party] = Reconnected(@, social[c].player)]
     \/ /\ ~IsMember(c)
        /\ UNCHANGED registry
  /\ UNCHANGED <<scene, social, ownership, run, combat, trades, thrown>>

\* refreshNativePartyMenu: on every tick of a bound controller, and on inputs.
Refresh(c) ==
  /\ IsMember(c)
  /\ registry' = [registry EXCEPT ![social[c].party] =
                    Located(@, {social[c].player}, LocationIn(scene[c]))]
  /\ UNCHANGED <<scene, connected, social, ownership, run, combat, trades, thrown>>

\* Rest at home takes a while and goes on without its controller.
Rest(c) ==
  /\ c \in Resters
  /\ InTown(c)
  /\ c \in connected
  /\ scene' = [scene EXCEPT ![c] = "Resting"]
  /\ UNCHANGED <<connected, social, ownership, registry, run, combat, trades, thrown>>

EndRest(c) ==
  /\ scene[c] = "Resting"
  /\ scene' = [scene EXCEPT ![c] = "Town"]
  /\ UNCHANGED <<connected, social, ownership, registry, run, combat, trades, thrown>>

-----------------------------------------------------------------------------
(* The Bulletin Board *)

FreeParties == {k \in PartySlots : Members(registry[k]) = {}}

\* create: the state after c founds a party.
Founded(c) ==
  LET k == Min(FreeParties)
      w == WorldFor(c)
      owned == [ownership EXCEPT ![c] = w]
  IN  [social    |-> [social EXCEPT ![c] = [member |-> TRUE, party |-> k,
                                            player |-> 0, world |-> w]],
       ownership |-> owned,
       registry  |-> [registry EXCEPT ![k] = JoinedAt(NoParty, 0)],
       run       |-> [run EXCEPT ![w] = IF ResetThrows(w, owned) THEN @ ELSE "None"],
       thrown    |-> ResetThrows(w, owned)]

CanFound(c) ==
  /\ InTown(c)
  /\ ~IsMember(c)
  /\ FreeParties # {}
  /\ WorldFor(c) < MaxControllers

Create(c) ==
  LET s == Founded(c)
  IN  /\ c \in connected
      /\ CanFound(c)
      /\ social' = s.social
      /\ ownership' = s.ownership
      /\ registry' = s.registry
      /\ run' = s.run
      /\ thrown' = (thrown \/ s.thrown)
      /\ UNCHANGED <<scene, connected, combat, trades>>

\* The world party k plays in: that of its first member the runtime knows.
HostWorld(c, k) ==
  social[Min({d \in Controllers : IsMember(d) /\ social[d].party = k})].world

Join(c, k) ==
  LET p == FreeSeat(registry[k])
      w == HostWorld(c, k)
  IN  /\ c \in connected
      /\ InTown(c)
      /\ ~IsMember(c)
      /\ Members(registry[k]) # {}
      /\ ~registry[k].locked
      /\ registry[k].activity = "Town"
      /\ Members(registry[k]) # Seats
      /\ registry' = [registry EXCEPT ![k] = JoinedAt(@, p)]
      /\ social' = [social EXCEPT ![c] = [member |-> TRUE, party |-> k,
                                          player |-> p, world |-> w]]
      /\ ownership' = [ownership EXCEPT ![c] = w]
      /\ UNCHANGED <<scene, connected, run, combat, trades, thrown>>

\* Mutant of Dismissed: only the one who leaves loses its membership.
DismissedSelf(c) == {c}

\* Those who are in no party once c has left its own.
Dismissed(c) == IF IsPartyLeader(c) THEN PeersOf(c) ELSE {c}

\* Everyone dismissed goes back to the world of its own number.
Rehoused(c, ds) == [d \in Controllers |-> IF d \in ds THEN d ELSE ownership[d]]

\* The worlds reset on leaving: those of everyone dismissed.
Wiped(c, ds) == ds

\* leaveSocial once its guards hold; parties is the registry by then, moved
\* the controllers just sent home.
LeaveParty(c, parties, moved) ==
  LET gone == Dismissed(c)
      owned == Rehoused(c, gone)
      failing == {d \in Wiped(c, gone) :
                    \/ d \in combat
                    \/ \E e \in Controllers \ moved : owned[e] = d /\ HasActor(e)}
  IN  /\ trades' = TradesWithout(gone)
      /\ registry' = [parties EXCEPT ![social[c].party] = Left(@, social[c].player)]
      /\ social' = [d \in Controllers |-> IF d \in gone THEN NoSocial ELSE social[d]]
      /\ ownership' = owned
      /\ run' = [w \in Worlds |-> IF w \in Wiped(c, gone) \ failing THEN "None" ELSE run[w]]
      /\ thrown' = (thrown \/ failing # {})

AllHome(c) == IsPartyLeader(c) => \A d \in PeersOf(c) : ~HasActor(d)

LeaveMenu(c) ==
  /\ c \in connected
  /\ IsMember(c)
  /\ InTown(c)
  /\ ~InCombat(c)
  /\ AllHome(c)
  /\ LeaveParty(c, registry, {})
  /\ UNCHANGED <<scene, connected, combat>>

-----------------------------------------------------------------------------
(* Adventures *)

\* startNativePartyAdventure.  Without a party the traveller founds one.
Travel(c, act) ==
  LET s == IF IsMember(c)
             THEN [social |-> social, ownership |-> ownership, registry |-> registry,
                   run |-> run, thrown |-> FALSE]
             ELSE Founded(c)
      k == s.social[c].party
      w == s.social[c].world
      peers == {d \in Controllers : s.social[d].member /\ s.social[d].party = k}
      wiped == act = "Dungeon" /\ s.run[w] = "Completed"
      fresh == IF act = "Dungeon" THEN [s.run EXCEPT ![w] = "Running"] ELSE s.run
  IN  /\ c \in connected
      /\ InTown(c)
      /\ ~IsMember(c) => CanFound(c)
      /\ s.social[c].player = 0
      /\ \A d \in peers : IsOnline(s.registry[k], s.social[d].player) /\ InTown(d)
      /\ social' = s.social
      /\ ownership' = s.ownership
      /\ \/ /\ s.registry[k].activity = "Town"
            /\ registry' = [s.registry EXCEPT ![k] = Started(@, act, LocationIn(act))]
            /\ scene' = [d \in Controllers |-> IF d \in peers THEN act ELSE scene[d]]
            /\ run' = fresh
         \/ /\ s.registry[k].activity # "Town"              \* AlreadyInActivity
            /\ run' = IF wiped THEN [s.run EXCEPT ![w] = "None"] ELSE s.run
            /\ UNCHANGED <<registry, scene>>
      /\ thrown' = (thrown \/ s.thrown \/ (wiped /\ ResetThrows(w, s.ownership)))
      /\ UNCHANGED <<connected, combat, trades>>

\* Mutant of StillOut: only members with a connection are waited for.
StillOutOnline(c, home) == {d \in PeersOf(c) \ home : HasActor(d) /\ d \in connected}

StillOut(c, home) == {d \in PeersOf(c) \ home : HasActor(d)}

\* nativePartyReturnedToTown for each controller in home: its location is
\* reported, and once nobody is out the party is told to return to Town.
BackHome(c, home) ==
  LET party == Located(PartyOf(c), {social[d].player : d \in home}, "TOWN")
  IN  IF StillOut(c, home) = {} THEN ReturnedToTown(party) ELSE party

\* MENU_RETURN_TO_TOWN; a victory in the last room completes the run here.
Home(c) ==
  /\ c \in connected
  /\ HasActor(c)
  /\ ~InCombat(c)
  /\ scene' = [scene EXCEPT ![c] = "Town"]
  /\ registry' = IF IsMember(c) THEN [registry EXCEPT ![social[c].party] = BackHome(c, {c})]
                                ELSE registry
  /\ \/ UNCHANGED run
     \/ /\ scene[c] = "Dungeon"
        /\ run[ownership[c]] = "Running"
        /\ run' = [run EXCEPT ![ownership[c]] = "Completed"]
  /\ UNCHANGED <<connected, social, ownership, combat, trades, thrown>>

\* Start New Dungeon, before it travels
ResetAdventure(c) ==
  /\ c \in connected
  /\ IsPartyLeader(c)
  /\ InTown(c)
  /\ ~InCombat(c)
  /\ AllHome(c)
  /\ run' = [run EXCEPT ![ownership[c]] = "None"]
  /\ thrown' = (thrown \/ ResetThrows(ownership[c], ownership))
  /\ UNCHANGED <<scene, connected, social, ownership, registry, combat, trades>>

\* PartyRuntime::leave of a member.  A leader sends everybody home first.
\* Whoever rests is refused by leaveSocial after that, and stays.
RetireMember(c) ==
  LET home == IF IsPartyLeader(c) THEN PeersOf(c) ELSE {c}
      parties == [registry EXCEPT ![social[c].party] = BackHome(c, home)]
      atHome == [d \in Controllers |->
                   IF d \in home /\ scene[d] # "Resting" THEN "Town" ELSE scene[d]]
  IN  /\ c \in connected
      /\ IsMember(c)
      /\ ~InCombat(c)
      /\ \/ /\ scene[c] = "Resting"
            /\ registry' = parties
            /\ scene' = atHome
            /\ UNCHANGED <<connected, social, ownership, run, trades, thrown>>
         \/ /\ scene[c] # "Resting"
            /\ LeaveParty(c, parties, home)
            /\ scene' = [atHome EXCEPT ![c] = "Absent"]
            /\ connected' = connected \ {c}
      /\ UNCHANGED combat

RetireLoner(c) ==
  /\ c \in connected
  /\ ~IsMember(c)
  /\ ~InCombat(c)
  /\ scene' = [scene EXCEPT ![c] = "Absent"]
  /\ connected' = connected \ {c}
  /\ UNCHANGED <<social, ownership, registry, run, combat, trades, thrown>>

\* Encounters begin and end in a world somebody is out in.
StartCombat(w) ==
  /\ w \in Fighters \ combat
  /\ \E c \in Controllers : HasActor(c) /\ ownership[c] = w
  /\ combat' = combat \cup {w}
  /\ UNCHANGED <<scene, connected, social, ownership, registry, run, trades, thrown>>

EndCombat(w) ==
  /\ w \in combat
  /\ combat' = combat \ {w}
  /\ UNCHANGED <<scene, connected, social, ownership, registry, run, trades, thrown>>

-----------------------------------------------------------------------------
(* Trade offers, between members anywhere *)

ProposeTrade(c, d) ==
  /\ c \in connected \cap Traders
  /\ c # d
  /\ SameParty(c, d)
  /\ ConnectedPartyMember(d)
  /\ ~BoundByTrade(c)
  /\ ~BoundByTrade(d)
  /\ trades' = trades \cup {<<c, d>>}
  /\ UNCHANGED <<scene, connected, social, ownership, registry, run, combat, thrown>>

\* Accepted, declined or cancelled by either side
AnswerTrade(c) ==
  /\ c \in connected
  /\ BoundByTrade(c)
  /\ trades' = TradesWithout({c})
  /\ UNCHANGED <<scene, connected, social, ownership, registry, run, combat, thrown>>

Next ==
  \/ \E c \in Controllers :
       \/ Play(c) \/ FinishCreation(c) \/ Detach(c) \/ Resume(c) \/ Refresh(c)
       \/ Rest(c) \/ EndRest(c) \/ Create(c) \/ LeaveMenu(c) \/ Home(c)
       \/ ResetAdventure(c) \/ RetireMember(c) \/ RetireLoner(c) \/ AnswerTrade(c)
       \/ \E k \in PartySlots : Join(c, k)
       \/ \E act \in Adventures : Travel(c, act)
       \/ \E d \in Controllers : ProposeTrade(c, d)
  \/ \E w \in Worlds : StartCombat(w) \/ EndCombat(w)

Spec == Init /\ [][Next]_vars

-----------------------------------------------------------------------------
(* Properties *)

\* The two rosters agree: the seats of a party are those of the controllers
\* that believe to be in it, each in a seat of its own with a leader among
\* them, and a seat is offline exactly when its controller is.
RostersAgree ==
  /\ \A k \in PartySlots :
       LET mine == {c \in Controllers : IsMember(c) /\ social[c].party = k}
       IN  /\ Members(registry[k]) = {social[c].player : c \in mine}
           /\ Cardinality(mine) = Cardinality(Members(registry[k]))
           /\ mine # {} => 0 \in Members(registry[k])
  /\ \A c \in Controllers : IsMember(c) =>
       /\ scene[c] \notin {"Absent", "Creating"}
       /\ IsOnline(PartyOf(c), social[c].player) = (c \in connected)

\* Whoever shares a world shares a party: nobody meets the monsters, or loses
\* the dungeon, of another company.  A party plays in its leader's own world.
WorldsSeparate ==
  \A c, d \in Controllers :
    /\ IsMember(c) => ownership[c] = social[c].world
    /\ SameParty(c, d) => ownership[c] = ownership[d]
    /\ ~IsMember(c) => ownership[c] = c
    /\ IsPartyLeader(c) => ownership[c] = c
    /\ c # d /\ scene[c] # "Absent" /\ scene[d] # "Absent" /\ ownership[c] = ownership[d] =>
         SameParty(c, d)

\* No operation resets a world that is occupied or in combat, which would
\* throw out of the tick and end the server (resetNativeWorld).
NoOccupiedReset == ~thrown

\* Nobody is out while the registry has the party in Town, open to newcomers:
\* everyone out is in the adventure the party is on.  Offline members count.
OutWithTheParty ==
  \A c \in Controllers : HasActor(c) =>
    IsMember(c) /\ PartyOf(c).activity = scene[c] /\ PartyOf(c).locked

\* Worlds, scenes and parties stay in step: whoever shares a world shares a
\* party, nobody is out while the party is in Town, and no world is reset under
\* whoever is in it.
WorldsInOrder == WorldsSeparate /\ NoOccupiedReset /\ OutWithTheParty

\* A pending offer binds two connected members of one party, and each of them
\* by that offer alone.
TradesBindPartners ==
  \A t \in trades :
    /\ SameParty(t[1], t[2])
    /\ {t[1], t[2]} \subseteq connected
    /\ \A u \in trades : u # t => {t[1], t[2]} \cap {u[1], u[2]} = {}

\* What docs/TOWN_BROWSER_PARTIES.md says of locked parties: "The party unlocks
\* after every retained character has returned."  Once nobody is out and the
\* registry has been told so of every connected member, no lock is left.
UnlocksOnceHome ==
  \A k \in PartySlots : registry[k].locked =>
    \/ \E c \in Controllers : IsMember(c) /\ social[c].party = k /\ HasActor(c)
    \/ \E p \in Members(registry[k]) : registry[k].seat[p] \notin {"TOWN", "DISCONNECTED"}

=============================================================================
