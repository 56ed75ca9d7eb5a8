-------------------------------- MODULE Traps --------------------------------
(***************************************************************************)
(* The traps of a room (src/src/dungeon/traps.cpp, trapruntime.cpp) and    *)
(* its healing fountain (fountain.cpp), with everyone who walks there.  A  *)
(* walker is where the plates under its footprint are; dice are left open. *)
(* The clock is counted in parts of the six seconds that an elemental trap *)
(* warns for.  No code outside the tests damages a trap.                   *)
(***************************************************************************)
EXTENDS Naturals, FiniteSets

CONSTANTS
    Walkers,      \* players and monsters of the room
    Plates,       \* a trap for each: 1 .. at most MAX_TRAPS_PER_ROOM
    Levels,       \* challenge levels of the dungeon
    Warning,      \* bound: parts of ELEMENTAL_TRAP_WARNING_MS
    Rounds        \* bound: rounds of a fight

ASSUME TrapAssumption == Plates \subseteq Nat /\ Warning \in Nat

VARIABLES
    traps,        \* each trap: [kind, discovered, tried, disabled, triggered,
                  \*  charging, round, left]
    on,           \* the plates each walker stands on
    round,        \* combat.combatRound, 0 outside combat
    watched,      \* whether a player is there, so that the room is updated
    water,        \* the fountain: [here, used, asked]
    since,        \* history: parts of the warning each walker has had
    stepped,      \* history: who has taken a step in this round of a fight
    fired,        \* history: how often each trap went off
    disarmed,     \* history: plates disabled while they did not charge
    burnt         \* history: somebody was hurt without the warning

trapVars == <<traps, on, round, watched, water, since, stepped, fired, disarmed, burnt>>

\* selectGeneratedTrapID, with the minimum level of each kind.
Generated(level) ==
    {"spike", "projectile", "spell"} \cup IF level >= 3 THEN {"elemental"} ELSE {}

\* consumeAuthoredTrapMarkers: plates where the room was drawn with them.
Authored == {[i \in Plates |-> IF i \in P THEN "spike" ELSE "none"] : P \in SUBSET Plates}

\* populateDungeonRoomFeatures: those, or one trap at most.
Populated(level) ==
    Authored \cup {[i \in Plates |-> IF i = 1 THEN k ELSE "none"] : k \in Generated(level)}

Set(kind) ==
    [kind |-> kind, discovered |-> FALSE, tried |-> {}, disabled |-> FALSE,
     triggered |-> FALSE, charging |-> FALSE, round |-> 0, left |-> 0]

\* generateDungeon puts the fountain into the entrance, which has no traps.
TrapInit ==
    /\ \E level \in Levels : \E kinds \in Populated(level) :
          traps = [i \in Plates |-> Set(kinds[i])]
    /\ on = [w \in Walkers |-> {}]
    /\ round = 0 /\ watched = TRUE
    /\ water \in [here : BOOLEAN, used : {FALSE}, asked : {{}}]
    /\ water.here => \A i \in Plates : traps[i].kind = "none"
    /\ since = [w \in Walkers |-> Warning] /\ stepped = {}
    /\ fired = [i \in Plates |-> 0] /\ disarmed = {}
    /\ burnt = FALSE

Active(t) == t.kind # "none" /\ ~t.disabled /\ ~t.triggered      \* isTrapActive

(***************************************************************************)
(* triggerTrapForEntityAt, after a step: the first active trap under the   *)
(* footprint alone.  An elemental trap is not spent by being stepped on    *)
(* and begins its warning anew.  A projectile trap is marked as triggered  *)
(* before it is resolved, which is then refused: it hurts nobody.          *)
(***************************************************************************)
\* Without a new deadline for who comes later.
KeepCharge(t) ==
    IF t.charging THEN t
    ELSE [t EXCEPT !.charging = TRUE, !.discovered = TRUE, !.round = round, !.left = Warning]

Charged(t) ==
    [t EXCEPT !.charging = TRUE, !.discovered = TRUE, !.round = round, !.left = Warning]

Sprung(t) == [t EXCEPT !.triggered = TRUE, !.discovered = TRUE]

Step(w, plates) ==
    /\ watched /\ plates # on[w]
    /\ on' = [on EXCEPT ![w] = plates]
    /\ since' = [since EXCEPT ![w] = 0] /\ stepped' = IF round > 0 THEN stepped \cup {w} ELSE {}
    /\ LET armed == {i \in plates : Active(traps[i])}
       IN  IF armed = {} THEN UNCHANGED <<traps, fired>>
           ELSE LET i == CHOOSE i \in armed : \A j \in armed : i <= j
                IN  IF traps[i].kind = "elemental"
                    THEN /\ traps' = [traps EXCEPT ![i] = Charged(@)]
                         /\ UNCHANGED fired
                    ELSE /\ traps' = [traps EXCEPT ![i] = Sprung(@)]
                         /\ fired' = [fired EXCEPT ![i] = @ + 1]
    /\ UNCHANGED <<round, watched, water, disarmed, burnt>>

(***************************************************************************)
(* updateElementalTrapCharges: by rounds in combat and by the clock        *)
(* outside it.  A charge of before the fight counts as one of an earlier   *)
(* round, and one that was disabled meanwhile still goes off.              *)
(***************************************************************************)
Due(t) == t.charging /\ IF round > 0 THEN round > t.round ELSE t.left = 0

\* Who has stepped onto a plate too late to have been warned: by the round in a
\* fight, by the clock outside it.
Unwarned(w) == IF round > 0 THEN w \in stepped ELSE since[w] < Warning

Discharge ==
    /\ watched
    /\ LET due == {i \in Plates : Due(traps[i])}
           kept == {i \in due : ~traps[i].disabled}
       IN  /\ due # {}
           /\ traps' = [i \in Plates |-> IF i \in due THEN [Sprung(traps[i]) EXCEPT !.charging = FALSE]
                                         ELSE traps[i]]
           /\ fired' = [i \in Plates |-> IF i \in due THEN fired[i] + 1 ELSE fired[i]]
           /\ burnt' = (burnt \/ \E w \in Walkers : on[w] \cap kept # {} /\ Unwarned(w))
    /\ UNCHANGED <<on, round, watched, water, since, stepped, disarmed>>

Pass ==
    /\ traps' = [i \in Plates |-> [traps[i] EXCEPT !.left = IF @ > 0 THEN @ - 1 ELSE 0]]
    /\ since' = [w \in Walkers |-> IF since[w] < Warning THEN since[w] + 1 ELSE Warning]
    /\ UNCHANGED <<on, round, watched, water, stepped, fired, disarmed, burnt>>

\* startCombat, the end of a round, and the end of the fight.
Fight ==
    /\ watched
    /\ round' \in {0} \cup IF round < Rounds THEN {round + 1} ELSE {}
    /\ stepped' = {}
    /\ UNCHANGED <<traps, on, watched, water, since, fired, disarmed, burnt>>

\* The last player goes, or one comes back; what walks there stays.
ComeAndGo ==
    /\ round = 0 /\ watched' = ~watched
    /\ UNCHANGED <<traps, on, round, water, since, stepped, fired, disarmed, burnt>>

(***************************************************************************)
(* Looking for traps: one attempt by searching and one by a rogue's sense, *)
(* whoever makes it; and disabling what was found.                         *)
(***************************************************************************)
\* attemptTrapDiscovery
Discover(i, way, seen) ==
    /\ watched /\ traps[i].kind # "none" /\ ~traps[i].discovered /\ way \notin traps[i].tried
    /\ traps' = [traps EXCEPT ![i].tried = @ \cup {way}, ![i].discovered = seen]
    /\ UNCHANGED <<on, round, watched, water, since, stepped, fired, disarmed, burnt>>

SearchNearby(i, seen) == Discover(i, "search", seen)
Sense(i, seen) == Discover(i, "sense", seen)

\* useDisableDevice, attemptDisableTrap
Disable(i) ==
    /\ watched /\ traps[i].discovered /\ Active(traps[i])
    /\ traps' = [traps EXCEPT ![i].disabled = TRUE]
    /\ disarmed' = IF traps[i].charging THEN disarmed ELSE disarmed \cup {i}
    /\ UNCHANGED <<on, round, watched, water, since, stepped, fired, burnt>>

(***************************************************************************)
(* The fountain, through each player's own menu: it is asked for again     *)
(* when the menu is answered (drinkFromSelectedFountain).                  *)
(***************************************************************************)
FaceFountain(w) ==
    /\ watched /\ water.here /\ ~water.used /\ water' = [water EXCEPT !.asked = @ \cup {w}]
    /\ UNCHANGED <<traps, on, round, watched, since, stepped, fired, disarmed, burnt>>

Drink(w) ==
    /\ watched /\ w \in water.asked
    /\ water' = [water EXCEPT !.used = TRUE, !.asked = @ \ {w}]
    /\ UNCHANGED <<traps, on, round, watched, since, stepped, fired, disarmed, burnt>>

TrapNext ==
    \/ \E w \in Walkers : \/ \E plates \in SUBSET Plates : Step(w, plates)
                          \/ FaceFountain(w) \/ Drink(w)
    \/ \E i \in Plates : \/ \E seen \in BOOLEAN : SearchNearby(i, seen) \/ Sense(i, seen)
                         \/ Disable(i)
    \/ Discharge \/ Pass \/ Fight \/ ComeAndGo

TrapSpec == TrapInit /\ [][TrapNext]_trapVars

(***************************************************************************)
(* No trap goes off twice, however often it is stepped on, charged anew or *)
(* left behind while fights begin and end, and none goes off at all that   *)
(* was disabled in time.  Outside combat nobody is burnt by an elemental   *)
(* trap before the warning has run out that began with their own last      *)
(* step, and in a fight nobody in the round in which they stepped there.   *)
(* What the code does not give, and this leaves out: who stepped onto a    *)
(* trap before the fight may be burnt as soon as it begins, however late   *)
(* that step was; and a trap disabled while it charges still goes off,     *)
(* where a step onto it begins no warning.                                 *)
(***************************************************************************)
OnceAndWarned ==
    /\ \A i \in Plates : fired[i] <= 1
    /\ \A i \in disarmed : fired[i] = 0
    /\ ~burnt
=============================================================================
