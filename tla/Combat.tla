------------------------------- MODULE Combat -------------------------------
(***************************************************************************)
(* One encounter of the dungeon, as src/src/dungeon/combat.cpp runs it in  *)
(* the native runtime (Native = TRUE: up to four controllers, resident     *)
(* rooms, apps/runtime/runtime.cpp) and on one handheld (Native = FALSE).  *)
(*                                                                         *)
(* A roll, a distance, a number of hit points or of milliseconds is a      *)
(* choice; what the program does with each outcome is not.  A timer that   *)
(* has to pass before a branch of updateCombat is an arbitrary delay.      *)
(* The operators take the world, a record of the four pieces of state the  *)
(* code reaches through pointers, and return the set of worlds that one    *)
(* call of the function of their name may leave.                           *)
(***************************************************************************)
EXTENDS Naturals, Sequences, SequencesExt, FiniteSets

CONSTANTS Players,   \* PlayerID of the controllers with an actor in the dungeon
          Monsters,  \* hostile entities of the resident rooms
          Rooms,
          Lair,      \* the room of every monster
          Native,    \* BOOLEAN: PFME_NATIVE_CONTROLLER_CONTEXT with several controllers
          Speed,     \* getEffectiveSpeed, the movement of one move action
          Swings,    \* the largest number of attacks in a full attack
          Trouble,   \* bound: how many things befall the players from outside
          None

ASSUME CombatAssumption ==
    /\ Native \in BOOLEAN
    /\ Speed \in Nat \ {0}
    /\ Swings \in Nat \ {0}
    /\ Trouble \in Nat
    /\ Lair \in [Monsters -> Rooms]
    /\ None \notin Players \cup Monsters

Combatants == Players \cup Monsters

VARIABLES
    combat,  \* the global `combat`
    turn,    \* Entity::turn of every combatant
    life,    \* Character::state: "alive", "down" (unconscious) or "dead"
    aware,   \* the monsters with awareOfPlayer
    begun,   \* history: the turns everybody has begun in this round, at most 3, whose
             \* had begun already when the initiative was announced, and whether the
             \* last turn left a result on the screen
    room,    \* the room of every player, None in Town
    online,  \* BoundController::connected
    budget,  \* how many more such things there will be
    grace    \* its disconnectGraceUsed and graceStart: "none", "running", "used"

vars == <<combat, turn, life, aware, begun, room, online,
          budget, grace>>
world == [combat |-> combat, turn |-> turn, life |-> life, aware |-> aware,
          begun |-> begun]

Idle == [move |-> FALSE, standard |-> FALSE, left |-> 0, on |-> FALSE,
         step |-> "start"]

NoTurns == [turns |-> [c \in Combatants |-> 0], early |-> None, left |-> FALSE]

NoStrike == [target |-> None, swings |-> 0, full |-> FALSE]
NoCast   == [by |-> None, ended |-> FALSE]
NoBlow   == [phase |-> "none", by |-> None, at |-> None, swings |-> 0]

NoCombat == [active |-> FALSE, phase |-> "none", order |-> <<>>, index |-> 1,
             late |-> {}, waiting |-> FALSE, after |-> FALSE, aim |-> FALSE,
             opening |-> "none", opener |-> None, strike |-> NoStrike,
             cast |-> NoCast, blow |-> NoBlow, fell |-> FALSE,
             message |-> FALSE, prevented |-> FALSE, held |-> FALSE]

Living(w)     == {c \in Combatants : w.life[c] = "alive"}
LivingHere(w) == {p \in Players : w.life[p] = "alive" /\ room[p] # None}
Roster(w)     == Range(w.combat.order)
Current(w)    == IF w.combat.active /\ w.combat.order # <<>>
                 THEN w.combat.order[w.combat.index] ELSE None

LivingEnemies(w) == Roster(w) \cap Monsters \cap Living(w)

\* areAllCombatMonstersDefeated: a roster without a monster is not defeated.
AllDefeated(w) == Roster(w) \cap Monsters # {} /\ LivingEnemies(w) = {}

RoomOf(c) == IF c \in Players THEN room[c] ELSE Lair[c]

\* What resetActions sets before anybody reads it again.
Forget(w, c) == [Idle EXCEPT !.standard = c \in Players /\ w.turn[c].standard]

(***************************************************************************)
(* Ends of a combatant and of an encounter                                 *)
(***************************************************************************)
AbortCombat(w) ==
    [w EXCEPT !.combat = NoCombat, !.turn = [c \in Combatants |-> Idle],
              !.begun = NoTurns]

\* finalizeDefeat: a monster dies; a player falls unconscious, and the
\* encounter is abandoned unless, natively, another player still stands.
FinalizeDefeat(w, c) ==
    IF w.life[c] # "alive" THEN w
    ELSE IF c \in Monsters
    THEN [w EXCEPT !.life[c] = "dead", !.aware = @ \ {c}]
    ELSE LET fallen == [w EXCEPT !.life[c] = "down"]
         IN  IF Native /\ LivingHere(fallen) # {} THEN fallen
             ELSE AbortCombat(fallen)

\* Damage to everybody in S, some of whom, in the set F, fall from it.
FallAll(w, F) ==
    LET fallen == [w EXCEPT !.life = [c \in Combatants |->
                      IF c \in F /\ w.life[c] = "alive"
                      THEN (IF c \in Monsters THEN "dead" ELSE "down")
                      ELSE w.life[c]],
                  !.aware = @ \ F]
        lost == IF Native THEN LivingHere(fallen) = {} ELSE F \cap Players # {}
    IN  IF F \cap Players # {} /\ lost THEN AbortCombat(fallen) ELSE fallen

\* endCombat leaves the blow and `fell` alone; whatever else it leaves is set
\* again by startCombat.
EndCombat(w) ==
    [w EXCEPT !.combat = [NoCombat EXCEPT !.blow = [w.combat.blow EXCEPT !.swings = 0],
                                          !.fell = w.combat.fell],
             !.turn = [c \in Combatants |-> Forget(w, c)], !.begun = NoTurns]

(***************************************************************************)
(* Initiative                                                              *)
(***************************************************************************)
\* findCombatants: natively every living player of the party, wherever it
\* stands, and the aware living monsters of the room of the one who acts.
FindCombatants(w, p) ==
    (IF Native THEN LivingHere(w) ELSE {p} \cap Living(w))
      \cup {m \in w.aware : w.life[m] = "alive" /\ Lair[m] = room[p]}

Initiative(w, p) ==
    {[w EXCEPT !.combat = [@ EXCEPT !.phase = "initiative", !.order = o,
                                    !.index = 1, !.late = {}],
               !.begun = NoTurns] : o \in SetToSeqs(FindCombatants(w, p))}

\* startCombat: natively a running encounter is left alone; on a handheld
\* nothing stops a second call.  The blow and `fell` are not reset.
StartCombat(w, p) ==
    IF (Native /\ w.combat.active) \/ w.life[p] # "alive" THEN {w}
    ELSE Initiative([w EXCEPT !.combat = [@ EXCEPT !.active = TRUE,
             !.after = FALSE, !.cast = NoCast, !.opening = "none",
             !.opener = None, !.message = FALSE, !.prevented = FALSE,
             !.strike.swings = 0, !.blow.swings = 0]], p)

\* beginInitiativeAfterOpeningAttack, and the ending its callers give an
\* encounter that has no living enemy left.
AfterOpening(w, p) ==
    {IF LivingEnemies(v) = {} THEN EndCombat(v) ELSE v :
        v \in Initiative([w EXCEPT !.combat.waiting = FALSE], p)}

(***************************************************************************)
(* Turns                                                                   *)
(***************************************************************************)
MayActPresent(w, c) ==
    w.life[c] = "alive" /\ c \notin w.combat.late /\ (c \in Players => online[c])

\* reinforcementMayAct: one who joined as the round began waits for the next.
MayAct(w, c) == w.life[c] = "alive" /\ c \notin w.combat.late

\* checkReinforcementAwareness, for the room of every combatant: an aware
\* hostile joins; of those who are not, the ones that notice the noise.
\* Everybody is sorted again, and equal rolls may change places.
Reinforced(w) ==
    LET rooms == {RoomOf(c) : c \in Roster(w)}
                   \cap {room[p] : p \in LivingHere(w)}
        near  == {m \in Monsters \ Roster(w) :
                    w.life[m] = "alive" /\ Lair[m] \in rooms}
    IN  UNION {{[w EXCEPT !.aware = @ \cup J, !.combat.order = o,
                          !.combat.late = J, !.combat.index = 1,
                          !.begun = [NoTurns EXCEPT !.left = w.begun.left]] :
                  o \in IF J = {} THEN {w.combat.order}
                        ELSE SetToSeqs(Roster(w) \cup J)} :
               J \in {K \in SUBSET near : near \cap w.aware \subseteq K
                          \/ (K = {} /\ \E p \in Players : w.life[p] = "down"
                                                       /\ room[p] \in rooms)}}

\* announceTurn and the rest of finishTurnStart, for one who can take it.
Announced(w, c) ==
    {[w EXCEPT !.turn[c] = [@ EXCEPT !.left = l, !.step = "start",
                                     !.standard = (w.combat.opener = c)],
               !.combat = [@ EXCEPT !.message = FALSE,
                   !.waiting = c \in Players,
                   !.opener = IF @ = c THEN None ELSE @]] : l \in {0, Speed}}

Overflow == [combat |-> [NoCombat EXCEPT !.phase = "overflow"], turn |-> turn,
             life |-> life, aware |-> aware, begun |-> NoTurns]

\* The result of a strike or of a spell is on the screen.
Shows(w) == w.combat.cast.by # None \/ w.combat.strike.target # None

RECURSIVE NextTurns(_), Advance(_, _), FinishTurnStart(_, _)

\* A player who stands, but was down when the roster was made, keeps nextTurn
\* calling itself after the last of the roster has fallen.
FinishTurnStart(w, c) ==
    LET v == [w EXCEPT !.combat.message = FALSE, !.combat.waiting = FALSE]
    IN  IF w.life[c] = "alive" THEN Announced(w, c)
        ELSE IF c \in Players
        THEN IF Native /\ LivingHere(w) # {}
             THEN IF Roster(w) \cap Living(w) # {} THEN NextTurns(v)
                  ELSE {Overflow} \cup
                       UNION {NextTurns(u) : u \in {r \in Reinforced(v) :
                                        Roster(r) \cap Living(r) # {}}}
             ELSE {[v EXCEPT !.combat.fell = TRUE, !.combat.phase = "end"]}
        ELSE IF AllDefeated(v) THEN {[v EXCEPT !.combat.phase = "end"]}
        ELSE NextTurns(v)

\* resetActions and beginTurnStartConditionMessages: the flags of the turn,
\* then poison and lasting damage, a hazard underfoot, the end of a
\* condition, or a condition that keeps the combatant from acting.
BeginTurn(w) ==
    LET c == Current(w)
        v == [w EXCEPT
                !.turn[c] = [@ EXCEPT !.move = FALSE, !.on = TRUE,
                                      !.standard = (w.combat.opener = c)],
                !.combat.waiting = FALSE, !.combat.prevented = FALSE,
                !.combat.held = FALSE, !.begun.turns[c] = IF @ = 3 THEN 3 ELSE @ + 1]
        Said(u, m, p, h) == [u EXCEPT !.combat.message = m,
                               !.combat.prevented = p, !.combat.held = h]
        stops == {<<FALSE, FALSE>>, <<TRUE, FALSE>>, <<TRUE, TRUE>>}
    IN  IF c = None THEN {w}
        ELSE IF w.life[c] # "alive" THEN FinishTurnStart(v, c)
        ELSE UNION {FinishTurnStart(Said(v, FALSE, s[1], s[2]), c) : s \in stops}
             \cup FinishTurnStart(Said(FinalizeDefeat(v, c), FALSE, TRUE, TRUE), c)
             \cup {Said(FinalizeDefeat(v, c), TRUE, FALSE, FALSE)}
             \cup {Said(v, TRUE, s[1], s[2]) : s \in stops}

\* The loop of nextTurn, `tried` slots of it done; the roster may grow.
AdvanceStaying(w, tried) ==
    IF MayAct(w, Current(w)) THEN {w}
    ELSE {[w EXCEPT !.combat.index = (@ % Len(w.combat.order)) + 1]}

Advance(w, tried) ==
    IF tried >= Len(w.combat.order) THEN {w}
    ELSE LET after == IF w.combat.index < Len(w.combat.order)
                      THEN {[w EXCEPT !.combat.index = @ + 1]}
                      ELSE Reinforced(w)
         IN  UNION {IF MayAct(v, Current(v)) THEN {v} ELSE Advance(v, tried + 1) :
                      v \in after}

NextTurns(w) ==
    LET c == Current(w)
        v == IF c = None THEN w
             ELSE [w EXCEPT !.turn[c] = Forget(w, c), !.begun.left = Shows(w)]
    IN  UNION {BeginTurn(u) : u \in Advance(v, 0)}

\* checkEndPlayerTurn
CheckEnd(w) ==
    LET c == Current(w)
    IN  IF c \in Players /\ w.turn[c].move /\ w.turn[c].standard
        THEN NextTurns([w EXCEPT !.combat.waiting = FALSE])
        ELSE {w}

(***************************************************************************)
(* A monster's attack                                                      *)
(***************************************************************************)
\* beginMonsterAttack: refused while another attack is shown.
BeginBlow(w, m, t, left) ==
    IF w.combat.blow.phase # "none" \/ w.life[m] # "alive" THEN {w}
    ELSE {[w EXCEPT !.turn[m].standard = TRUE, !.combat.fell = FALSE,
              !.combat.blow = [phase |-> "roll", by |-> m, at |-> t,
                               swings |-> left]]}

\* The attacks of the sequence that a full attack has after its first.
MoreSwings(w, c) ==
    IF ~w.turn[c].move /\ w.turn[c].left >= Speed THEN 0 .. Swings - 1 ELSE {0}

ShowBlow(w) ==
    LET b == w.combat.blow
        done == [w EXCEPT !.combat.blow = [NoBlow EXCEPT !.swings = b.swings]]
        Complete(u) == [u EXCEPT !.combat.blow.phase = "complete"]
        Falls(u) == [u EXCEPT !.combat.fell =
                        IF Native THEN LivingHere(u) = {} ELSE TRUE]
    IN  CASE b.phase = "roll" ->
              {[w EXCEPT !.combat.blow.phase = "damage"]}
          [] b.phase = "damage" ->
              {Complete(w)}
              \cup (IF w.life[b.at] = "alive"
                    THEN {Complete(Falls(FinalizeDefeat(w, b.at))),
                          [w EXCEPT !.combat.blow.phase = "poison"]}
                    ELSE {})
          [] b.phase = "poison" -> {Complete(w)}
          [] OTHER ->
              IF w.combat.fell
              THEN {[done EXCEPT !.combat.phase = "end"]}
              ELSE IF b.swings > 0 /\ b.by # None /\ w.life[b.by] = "alive"
                      /\ w.life[b.at] = "alive"
              THEN BeginBlow(done, b.by, b.at, b.swings - 1)
              ELSE {[done EXCEPT !.combat.blow.swings = 0]}

(***************************************************************************)
(* Abilities                                                               *)
(***************************************************************************)
\* presentAbilityResolution and its two counterparts for an area: the result
\* stays on the screen before the turn goes on.  Only a single target is
\* asked whether its defeat was the last.
Presented(w, c, single, killed) ==
    IF ~w.combat.active THEN w
    ELSE [w EXCEPT !.combat.cast = [by |-> c,
                      ended |-> single /\ killed /\ AllDefeated(w)],
                   !.combat.waiting = IF c \in Players THEN FALSE ELSE @]

Paid(w, c) == IF w.combat.active THEN [w EXCEPT !.turn[c].standard = TRUE] ELSE w

With(c) == {d \in Combatants : RoomOf(d) = RoomOf(c) /\ RoomOf(d) # None}

\* resolveAbility: a foe is hurt, a friend is helped up, or nobody falls.
CastOn(w, c) ==
    LET foes == With(c) \cap (IF c \in Players THEN Monsters ELSE Players)
        kin  == With(c) \cap (IF c \in Players THEN Players ELSE Monsters)
    IN  {Presented(Paid(FinalizeDefeat(w, t), c), c, TRUE, t \in Monsters) :
            t \in foes \cap Living(w)}
        \cup {Presented(Paid(w, c), c, TRUE, FALSE)}
        \cup {Presented(Paid([w EXCEPT !.life[t] = "alive"], c), c, TRUE, FALSE) :
                t \in {d \in kin : w.life[d] = "down"}}

\* resolveAbilityAt and resolveAbilityInDirection: all in an area, friends
\* included.
CastAt(w, c) ==
    {Presented(Paid(FallAll(w, F), c), c, FALSE, FALSE) :
        F \in SUBSET (With(c) \cap Living(w))}

CastOnce(w, c) == CastOn(w, c) \cup CastAt(w, c)

(***************************************************************************)
(* A player's attack                                                       *)
(***************************************************************************)
\* confirmPlayerAttack, from the roll on.
Strike(w, t, left, full) ==
    {[w EXCEPT !.combat.strike = [target |-> t, swings |-> left, full |-> full],
               !.combat.waiting = FALSE]}

\* anotherMonsterDetectsAfterOpeningAttack: the worlds in which one does.
Noticed(w, t, p) ==
    LET others == {m \in Monsters \ {t} : w.life[m] = "alive" /\ Lair[m] = room[p]}
    IN  IF others \cap w.aware # {} THEN {w}
        ELSE {[w EXCEPT !.aware = @ \cup {m}] : m \in others}

\* finishPlayerAttack.  An ambush that kills its target unnoticed ends the
\* encounter; every other opening strike leads to a fresh initiative.
FinishStrike(w) ==
    LET k == w.combat.strike
        p == Current(w)
        dead == w.life[k.target] # "alive"
        done == [w EXCEPT !.combat.strike = NoStrike, !.combat.opening = "none"]
        used == [done EXCEPT !.combat.waiting = TRUE,
                    !.turn[p] = [@ EXCEPT !.standard = TRUE,
                                          !.move = k.full \/ @,
                                          !.left = IF k.full THEN 0 ELSE @]]
        others == Noticed(done, k.target, p)
    IN  CASE w.combat.opening = "ambush" /\ dead ->
              UNION {AfterOpening(v, p) : v \in others}
                \cup (IF done \in others THEN {} ELSE {EndCombat(done)})
          [] w.combat.opening = "attack" \/ (w.combat.opening = "ambush" /\ ~dead) ->
              AfterOpening(done, p)
          [] k.swings > 0 /\ ~dead ->
              Strike([w EXCEPT !.combat.waiting = TRUE],
                     k.target, k.swings - 1, k.full)
          [] OTHER ->
              IF AllDefeated(done)
              THEN {[done EXCEPT !.combat.waiting = FALSE, !.combat.phase = "end"]}
              ELSE CheckEnd(used)

(***************************************************************************)
(* A monster's turn                                                        *)
(***************************************************************************)
\* runMonsterScript: an attack, an ability, an action of its own that shows
\* no result (a battle cry, a potion, struggling in a web), or nothing.
Script(w, m) ==
    LET prey == With(m) \cap Players \cap Living(w)
        free == ~w.turn[m].standard
        acts == IF free
                THEN UNION {BeginBlow(w, m, p, n) :
                              p \in prey, n \in MoreSwings(w, m)}
                     \cup (IF prey = {} THEN {} ELSE CastOnce(w, m))
                ELSE {}
        Then(v) ==
            IF v.combat.blow.phase # "none"
            THEN {[v EXCEPT !.turn[m].step = "attack"]}
            ELSE IF v.combat.cast.by # None
            THEN {[v EXCEPT !.turn[m].step = "end"]}
            ELSE NextTurns([v EXCEPT !.turn[m] =
                     [@ EXCEPT !.standard = TRUE, !.left = 0]])
    IN  UNION {Then(v) : v \in acts \cup {w}}

\* runMonsterTurn; what it walks over may hurt it.
RunMonster(w, m) ==
    LET t == w.turn[m]
        Step(v, s) == [v EXCEPT !.turn[m].step = s]
    IN  CASE t.step = "start" ->
              IF m \in w.aware THEN {Step(w, "move")}
              ELSE {Step([w EXCEPT !.aware = @ \cup {m}], "move"),
                    [w EXCEPT !.turn[m] = [@ EXCEPT !.left = 0, !.standard = TRUE,
                                                    !.step = "end"]]}
          [] t.step = "move" ->
              {Step(w, "action")}
              \cup {[v EXCEPT !.turn[m] = [@ EXCEPT !.left = l, !.move = TRUE,
                          !.step = IF l = 0 THEN "action" ELSE "move"]] :
                       l \in {n \in 0 .. Speed : n < t.left},
                       v \in {w, FinalizeDefeat(w, m)}}
          [] t.step = "action" -> Script(w, m)
          [] t.step = "attack" ->
              {IF w.combat.blow.phase = "none" THEN Step(w, "end") ELSE w}
          [] t.step = "end" -> NextTurns(w)

(***************************************************************************)
(* updateCombat: one action for each branch, in the order of the code      *)
(***************************************************************************)
Become(W) ==
    /\ \E w \in W : /\ combat' = w.combat /\ turn' = w.turn /\ life' = w.life
                    /\ aware' = w.aware /\ begun' = w.begun
    /\ UNCHANGED <<room, online, budget>>

\* combatController: with whose screen and room an update is run.
Selected(w) ==
    LET c == Current(w)
    IN  IF ~Native THEN Players
        ELSE IF c \in Players THEN {c}
        ELSE IF w.combat.blow.at # None /\ room[w.combat.blow.at] = Lair[c]
        THEN {w.combat.blow.at}
        ELSE {p \in LivingHere(w) : room[p] = Lair[c]}

Served == Native => combat.active /\ Selected(world) # {}

\* A monster that nobody stands near natively passes its turn, whatever it
\* has left on the screen.
PassUnattended ==
    /\ Native /\ combat.active /\ ~Served /\ combat.phase = "turn"
    /\ Become(NextTurns(world))
    /\ UNCHANGED grace

\* The turn of a player who is away: fifteen seconds from the first update
\* that finds it so, or none if they have been spent.
Offline == /\ Native /\ combat.active /\ combat.phase = "turn" /\ combat.waiting
           /\ Current(world) \in Players /\ ~online[Current(world)]

StartGrace ==
    /\ Offline /\ grace[Current(world)] = "none"
    /\ grace' = [grace EXCEPT ![Current(world)] = "running"]
    /\ UNCHANGED <<combat, turn, life, aware, begun, room, online, budget>>

YieldAfterGrace ==
    /\ Offline /\ grace[Current(world)] = "running"
    /\ grace' = [grace EXCEPT ![Current(world)] = "used"]
    /\ Become(NextTurns([world EXCEPT !.combat.waiting = FALSE]))

YieldOffline ==
    /\ Offline /\ grace[Current(world)] # "none"
    /\ grace' = [grace EXCEPT ![Current(world)] = "used"]
    /\ Become(NextTurns([world EXCEPT !.combat.waiting = FALSE]))

Update == /\ Served /\ UNCHANGED grace
          /\ Offline => grace[Current(world)] = "running"

BeginTurns ==
    /\ Update /\ combat.phase = "initiative"
    /\ LET c == Current(world)
       IN  Become(BeginTurn([world EXCEPT !.combat.phase = "turn",
             !.begun.early = IF c # None /\ begun.turns[c] > 0 THEN c ELSE None]))

TurnPhase == Update /\ combat.phase = "turn"

EndAfterMessage ==
    /\ TurnPhase /\ combat.after
    /\ Become(CheckEnd([world EXCEPT !.combat.after = FALSE]))

ResolveCast ==
    /\ TurnPhase /\ ~combat.after /\ combat.cast.by # None
    /\ LET c == combat.cast.by
           w == [world EXCEPT !.combat.cast = NoCast]
           caster == IF c \in Players THEN c ELSE None
       IN  Become(
             IF combat.opening = "ability"
             THEN UNION {AfterOpening([w EXCEPT !.combat.opening = "none",
                                                !.combat.opener = caster], p) :
                           p \in Selected(world)}
             ELSE IF combat.cast.ended
             THEN {[w EXCEPT !.combat.waiting = FALSE, !.combat.phase = "end"]}
             ELSE IF c \in Players
             THEN CheckEnd([w EXCEPT !.combat.waiting = TRUE])
             ELSE NextTurns(w))

NoResult == ~combat.after /\ combat.cast.by = None

\* The damage of the strike and, once it has been shown, the rest.
ResolveStrike ==
    /\ TurnPhase /\ NoResult /\ combat.strike.target # None
    /\ Become(UNION {FinishStrike(v) :
                v \in {world, FinalizeDefeat(world, combat.strike.target)}})

UpdateBlow ==
    /\ TurnPhase /\ NoResult /\ combat.strike.target = None
    /\ combat.blow.phase # "none"
    /\ Become(ShowBlow(world))

Quiet == /\ TurnPhase /\ NoResult /\ combat.strike.target = None
         /\ combat.blow.phase = "none" /\ Current(world) # None

\* updateTurnStartConditionMessages: the damage, the conditions that ended
\* and those that remain, each until its time on the screen is over.
ShowMessage ==
    /\ Quiet /\ combat.message
    /\ Become(FinishTurnStart(world, Current(world)))

Incapable(c) == combat.prevented \/ combat.held \/ life[c] # "alive"

\* skipTurnForCondition
CannotAct ==
    /\ Quiet /\ ~combat.message
    /\ LET c == Current(world)
       IN  /\ Incapable(c)
           /\ Become(IF turn[c].on
                     THEN {[world EXCEPT !.combat.waiting = FALSE,
                              !.turn[c] = [@ EXCEPT !.on = FALSE, !.left = 0,
                                             !.move = TRUE, !.standard = TRUE]]}
                     ELSE NextTurns(world))

MonsterStepHasty ==
    /\ TurnPhase /\ ~combat.after /\ Current(world) \in Monsters
    /\ ~Incapable(Current(world))
    /\ Become(RunMonster(world, Current(world)))

MonsterStep ==
    /\ Quiet /\ ~combat.message /\ Current(world) \in Monsters
    /\ ~Incapable(Current(world))
    /\ Become(RunMonster(world, Current(world)))

Finish ==
    /\ Update /\ combat.phase = "end"
    /\ Become({EndCombat(world)})

(***************************************************************************)
(* What the player of the current turn does                                *)
(***************************************************************************)
\* The guards every handler shares; a pending result swallows all input.
Free(c) == /\ online[c] /\ life[c] = "alive"
           /\ combat.strike.target = None /\ combat.cast.by = None /\ ~combat.aim
MyTurn(c) == /\ combat.active /\ Current(world) = c /\ combat.waiting /\ Free(c)
             /\ ~combat.held

ByInput(W) == Become(W) /\ UNCHANGED grace
Set(c, f) == [world EXCEPT !.turn[c] = f]
Befalls == budget > 0 /\ budget' = budget - 1
Prey(c) == {m \in With(c) \cap Monsters : life[m] = "alive"}

\* beginPlayerAttack and confirmPlayerAttack
Attack(c) ==
    /\ MyTurn(c) /\ ~turn[c].standard
    /\ \E t \in Prey(c), n \in MoreSwings(world, c) :
          ByInput(Strike(world, t, n, n > 0))

\* confirmPlayerAbility
UseAbility(c) ==
    /\ MyTurn(c) /\ ~turn[c].standard
    /\ ByInput(CastOnce(world, c))

\* resolveAbility finds no room for a lasting effect after it has dealt the
\* damage that comes with it, and returns before the action is spent.
LimitedAbility(c) ==
    /\ MyTurn(c) /\ ~turn[c].standard
    /\ \E t \in Prey(c) : ByInput({FinalizeDefeat(world, t)})

\* executeTurnUndead
TurnUndead(c) ==
    /\ MyTurn(c) /\ ~turn[c].standard /\ Prey(c) # {}
    /\ \E F \in SUBSET Prey(c) :
          LET w == [FallAll(world, F) EXCEPT !.turn[c].standard = TRUE]
          IN  ByInput({[w EXCEPT !.combat.waiting = FALSE,
                          !.combat.cast = [by |-> c, ended |-> AllDefeated(w)]]})

\* useChannelEnergy: after a move the result is shown before the turn ends.
ChannelEnergy(c) ==
    /\ MyTurn(c) /\ ~turn[c].standard
    /\ ByInput({[world EXCEPT !.turn[c].standard = TRUE,
                   !.combat = IF turn[c].move
                              THEN [@ EXCEPT !.waiting = FALSE, !.after = TRUE]
                              ELSE @]})

DoubleMove(c) ==
    /\ MyTurn(c) /\ turn[c].move /\ ~turn[c].standard
    /\ ByInput({Set(c, [turn[c] EXCEPT !.standard = TRUE, !.left = @ + Speed])})

TotalDefense(c) ==
    /\ MyTurn(c) /\ ~turn[c].move /\ ~turn[c].standard
    /\ ByInput(NextTurns([Set(c, [turn[c] EXCEPT !.standard = TRUE, !.move = TRUE])
                            EXCEPT !.combat.waiting = FALSE]))

\* finishPlayerMovement: a trap or a map effect on the tile comes first, and
\* may end the encounter or take the rest of the movement.
Move(c) ==
    /\ MyTurn(c) /\ turn[c].left > 0
    /\ \E l \in 0 .. turn[c].left - 1 :
          ByInput(UNION {IF ~w.combat.active THEN {w}
                         ELSE LET v == [w EXCEPT !.turn[c] =
                                          [@ EXCEPT !.left = l, !.move = TRUE]]
                              IN  IF l = 0 THEN CheckEnd(v) ELSE {v} :
                           w \in {world, FinalizeDefeat(world, c)}})

\* handlePlayerStandAttempt
Stand(c) ==
    /\ MyTurn(c) /\ ~turn[c].move
    /\ ByInput(CheckEnd(Set(c, [turn[c] EXCEPT !.move = TRUE, !.left = 0])))

\* tryPlayerAcrobaticsTraversal that fails: the turn may have passed to the
\* next combatant when the enemy's attack begins.
Stumble(c) ==
    /\ MyTurn(c) /\ turn[c].left > 0
    /\ \E m \in Prey(c) :
          ByInput(UNION {BeginBlow(v, m, c, 0) \cup {v} :
            v \in CheckEnd(Set(c, [turn[c] EXCEPT !.move = TRUE, !.left = 0]))})

\* travelNativeRoom
Travel(c) ==
    /\ Native /\ room[c] # None
    /\ combat.active => MyTurn(c) /\ turn[c].left > 0
    /\ ~combat.active => Free(c)
    /\ \E r \in Rooms \ {room[c]} : room' = [room EXCEPT ![c] = r]
    /\ turn' = IF combat.active
               THEN [turn EXCEPT ![c] = [@ EXCEPT !.left = @ - 1, !.move = TRUE]]
               ELSE turn
    /\ Befalls
    /\ UNCHANGED <<combat, life, aware, begun, online, grace>>

\* endPlayerTurn, from button B: it asks whose turn it is, and not whether the
\* turn has begun, so the initiative may still be on the screen.
EndTurn(c) ==
    /\ combat.active /\ Current(world) = c /\ online[c]
    /\ combat.strike.target = None /\ combat.cast.by = None /\ ~combat.aim
    /\ ByInput(NextTurns([world EXCEPT !.combat.waiting = FALSE]))

(***************************************************************************)
(* How encounters begin                                                    *)
(***************************************************************************)
\* updateAwareness: a monster notices a player, who may be choosing a target
\* for an opening attack at that moment.
Notice(p, m) ==
    /\ ~combat.active /\ combat.phase = "none"
    /\ life[p] = "alive" /\ life[m] = "alive" /\ room[p] = Lair[m]
    /\ ~Native => m \notin aware
    /\ \E aiming \in BOOLEAN :
          ByInput({[w EXCEPT !.combat.aim = aiming] :
                     w \in StartCombat([world EXCEPT !.aware = @ \cup {m}], p)})

\* tryMovePlayerAuthoritative into a monster that was not revealed.
Bump(p, m) ==
    /\ room[p] = Lair[m] /\ life[m] = "alive" /\ m \notin aware
    /\ IF combat.active THEN MyTurn(p) ELSE combat.phase = "none" /\ Free(p)
    /\ ByInput(StartCombat([world EXCEPT !.aware = @ \cup {m}], p))

SlotOf(w, p) == CHOOSE i \in 1 .. Len(w.combat.order) : w.combat.order[i] = p

\* The caller of startCombat gives the opener the turn.
Opened(w, p, kind) ==
    [w EXCEPT !.combat = [@ EXCEPT !.opening = kind, !.phase = "turn",
        !.waiting = TRUE, !.aim = FALSE, !.index = SlotOf(w, p)]]

\* confirmPlayerAttack with openingAttackTargeting: outside an encounter, or
\* in one that began while the target was being chosen.
OpeningAttack(p) ==
    /\ online[p] /\ life[p] = "alive" /\ room[p] # None
    /\ combat.strike.target = None
    /\ IF combat.active THEN combat.aim /\ (Native => Current(world) = p)
                        ELSE combat.phase = "none"
    /\ \E t \in Prey(p) :
         ByInput(UNION {Strike(Opened(w, p, IF t \in aware THEN "attack" ELSE "ambush"),
                               t, 0, FALSE) :
                   w \in StartCombat([world EXCEPT !.aware = @ \cup {t}], p)})

\* cancelPlayerAttack
CancelAim(p) ==
    /\ online[p] /\ combat.active /\ combat.aim /\ (Native => Current(world) = p)
    /\ combat.strike.target = None
    /\ ByInput({[world EXCEPT !.combat.aim = FALSE]})

\* beginOpeningHostileAbility, and the resolver's check of the standard
\* action, which only an active encounter is asked.
OpeningAbility(p) ==
    /\ ~combat.active /\ combat.phase = "none" /\ Free(p) /\ room[p] # None
    /\ Prey(p) # {}
    /\ ByInput(UNION {LET v == Opened(w, p, "ability")
                      IN  IF v.turn[p].standard THEN {v} ELSE CastOnce(v, p) :
                 w \in StartCombat([world EXCEPT !.aware = @ \cup Prey(p)], p)})

(***************************************************************************)
(* Around the encounters                                                   *)
(***************************************************************************)
\* applyEnvironmentalDamage on a tile outside an encounter.
Trap(p) ==
    /\ ~combat.active /\ combat.phase = "none" /\ Free(p) /\ room[p] # None
    /\ Befalls
    /\ \E w \in {FinalizeDefeat(world, p)} : life' = w.life /\ turn' = w.turn
    /\ UNCHANGED <<combat, aware, begun, room, online, grace>>

\* Return to Town, which revives, and the next visit: natively refused during
\* an encounter, on a handheld the end of it.  Only the handheld's
\* enterDungeon clears the encounter.
Return(p) ==
    /\ online[p] /\ room[p] # None
    /\ Native => ~combat.active
    /\ \E r \in Rooms : room' = [room EXCEPT ![p] = r]
    /\ LET w == IF Native THEN world ELSE AbortCombat(world)
       IN  /\ combat' = w.combat /\ begun' = w.begun
           /\ turn' = [w.turn EXCEPT ![p] = Idle]
           /\ life' = [life EXCEPT ![p] = "alive"]
    /\ Befalls
    /\ UNCHANGED <<aware, online, grace>>

\* setControllerConnected
Disconnect(p) ==
    /\ Native /\ online[p] /\ Befalls
    /\ online' = [online EXCEPT ![p] = FALSE]
    /\ UNCHANGED <<combat, turn, life, aware, begun, room, grace>>

Reconnect(p) ==
    /\ Native /\ ~online[p]
    /\ online' = [online EXCEPT ![p] = TRUE]
    /\ grace' = IF combat.active /\ Current(world) = p THEN grace
                ELSE [grace EXCEPT ![p] = "none"]
    /\ UNCHANGED <<combat, turn, life, aware, begun, room, budget>>

Init ==
    /\ combat = NoCombat /\ begun = NoTurns
    /\ turn = [c \in Combatants |-> Idle]
    /\ life = [c \in Combatants |-> "alive"]
    /\ aware = {}
    /\ room \in [Players -> Rooms]
    /\ online = [p \in Players |-> TRUE]
    /\ grace = [p \in Players |-> "none"]
    /\ budget = Trouble

Tick == \/ PassUnattended \/ StartGrace \/ YieldOffline \/ BeginTurns
        \/ EndAfterMessage \/ ResolveCast \/ ResolveStrike \/ UpdateBlow
        \/ ShowMessage \/ CannotAct \/ MonsterStep \/ Finish

Play(c) == \/ Attack(c) \/ UseAbility(c) \/ LimitedAbility(c) \/ TurnUndead(c)
           \/ ChannelEnergy(c) \/ DoubleMove(c) \/ TotalDefense(c) \/ Move(c)
           \/ Stand(c) \/ Stumble(c) \/ Travel(c) \/ EndTurn(c)

Meet(p) == \/ \E m \in Monsters : Notice(p, m) \/ Bump(p, m)
           \/ OpeningAttack(p) \/ CancelAim(p) \/ OpeningAbility(p)

Next == \/ Tick
        \/ \E p \in Players : \/ Play(p) \/ Meet(p) \/ Trap(p) \/ Return(p)
                              \/ Disconnect(p) \/ Reconnect(p)

Spec == Init /\ [][Next]_vars /\ WF_vars(Tick)

(***************************************************************************)
(* What makes an encounter correct                                         *)
(***************************************************************************)
\* However turns are ended (an action, button B, a fall, a condition, an absence,
\* a reinforcement that is sorted in), nobody begins two of them in a round.  One
\* may: who has come first through B while the initiative was still shown, for
\* then updateCombat begins that turn again.
OneTurnEach ==
    combat.active => \A c \in Combatants :
                        begun.turns[c] <= IF c = begun.early THEN 2 ELSE 1

\* The turns that do not wait for what they show.  Natively that of a monster nobody
\* stands near any more, be it because its own spell felled the last who did
\* (updateNativeCombat calls nextTurn for it and asks for no result); one that is
\* begun twice, as in OneTurnEach; after B has cut short the result of Channel Energy
\* the one that comes next, as endPlayerTurnAfterMessage still asks for an end; and
\* the one after any of these, if it was handed on with the result still shown.
CutShort ==
    ~Served \/ Current(world) = begun.early \/ combat.after \/ begun.left

\* No other turn is handed on before the result of its strike or spell has been dealt
\* with; and a spell is shown only for the one whose turn it is.
ResultOfTheTurn ==
    [][/\ (/\ combat.active /\ combat'.active /\ ~CutShort
           /\ combat.phase = "turn" /\ combat'.phase = "turn"
           /\ Current(world)' # Current(world)) => ~Shows(world)'
       /\ combat'.cast.by \notin {None, combat.cast.by}
          => combat'.cast.by = Current(world)']_vars

\* Between two turns of one round nobody who stands is passed over, except a
\* reinforcement of that round and one who was down when its place came.
NobodySkipped ==
    [][LET i == combat.index
           o == combat.order
           next == {j \in i + 1 .. Len(o) : o[j] = Current(world)'}
       IN  (/\ combat.active /\ combat'.active /\ combat.opening = "none"
            /\ combat.phase = "turn" /\ combat'.phase = "turn"
            /\ begun'.turns[o[i]] >= begun.turns[o[i]])
           => \A j \in next, k \in i + 1 .. Len(o) :
                 k < j => \/ life[o[k]] # "alive" \/ life'[o[k]] # "alive"
                          \/ o[k] \in combat.late \/ begun'.turns[o[k]] > begun.turns[o[k]]]_vars

\* A monster's turn is over one day, whatever it shows, suffers or repeats.
MonsterTurnEnds ==
    \A m \in Monsters :
        (combat.active /\ combat.phase = "turn" /\ Current(world) = m)
            ~> (Current(world) # m)

\* The party waits for a player who is away, and not for ever, as long as
\* there is an enemy whose turn could come.
AwayTurnEnds ==
    \A p \in Players : (combat.active /\ Current(world) = p /\ ~online[p])
        ~> (Current(world) # p \/ online[p] \/ LivingEnemies(world) = {})

\* Nobody holds up the fight for ever, neither a monster nor a player who is away.
TurnsEnd == MonsterTurnEnds /\ AwayTurnEnds

\* docs/NATIVE_BUILD.md:455-457: a hostile spell that opens an encounter is
\* resolved once, before the initiative.
OpeningResolves == combat.opening = "ability" => combat.cast.by # None
=============================================================================
