----------------------------- MODULE MapEffects -----------------------------
(***************************************************************************)
(* Webs and walls of fire on the floor (src/src/map/mapeffects.cpp): a     *)
(* small table of effects, each with the tiles it covers, and creatures    *)
(* of one tile or more who walk into them, start a turn in them, break     *)
(* free, or see them burn.  Being stuck is a condition of the creature,    *)
(* the web is an entry of the table; the two are kept in step by hand.     *)
(* The floor is a corridor of tiles, each roll is a choice, and a hit      *)
(* either leaves a creature up or brings it down.                          *)
(***************************************************************************)
EXTENDS Naturals

CONSTANTS
    Creatures,     \* those in the room
    Broad,         \* those two tiles wide
    Immune,        \* spiders: isImmuneToWeb
    Armed,         \* those with a weapon to cut with, a flaming one to burn with
    Slots,         \* MAX_MAP_EFFECTS: 8 in the code
    Length,        \* bound: tiles of the corridor
    Burning        \* bound: rounds a wall of fire stands

VARIABLES
    effects,   \* activeMapEffects
    at,        \* the first tile of each creature
    stuck,     \* those with CONDITION_GRAPPLED
    up,        \* those in STATE_ALIVE
    fight      \* combat.active

effectVars == <<effects, at, stuck, up, fight>>

Tiles == 1..Length
None == [kind |-> "none", tiles |-> {}, rounds |-> 0]
Footprint(c, t) == IF c \in Broad THEN {t, t + 1} ELSE {t}

EffectInit ==
    /\ effects = [s \in 1..Slots |-> None]
    /\ at \in {f \in [Creatures -> Tiles] : \A c, d \in Creatures :
                 /\ Footprint(c, f[c]) \subseteq Tiles
                 /\ c # d => Footprint(c, f[c]) \cap Footprint(d, f[d]) = {}}
    /\ stuck = {} /\ up = Creatures /\ fight = FALSE

\* getWebEffectAffectingEntity, for a table that may be about to change
Covers(e, c) == e.tiles \cap Footprint(c, at[c]) # {}
Webbed(table, c) == \E s \in 1..Slots : table[s].kind = "web" /\ Covers(table[s], c)

(***************************************************************************)
(* applyMapEffectToEntity: what one effect may do to a creature that       *)
(* stands at t.  A state is <<stuck, up>>.                                 *)
(***************************************************************************)
Applied(e, c, t, s) ==
    IF ~s[2] \/ e.tiles \cap Footprint(c, t) = {} THEN {s}
    ELSE CASE e.kind = "web" /\ c \notin Immune -> {s, <<TRUE, TRUE>>}
           [] e.kind = "fire" -> {s, <<s[1], FALSE>>}
           [] OTHER -> {s}

\* handleEnteredMapEffects, handleStartingTurnMapEffects: slot after slot
Outcomes(c, t) ==
    LET after[n \in 0..Slots] ==
            IF n = 0 THEN {<<c \in stuck, c \in up>>}
            ELSE UNION {Applied(effects[n], c, t, s) : s \in after[n - 1]}
    IN after[Slots]

Becomes(c, s) ==
    /\ stuck' = IF s[1] THEN stuck \cup {c} ELSE stuck \ {c}
    /\ up' = IF s[2] THEN up \cup {c} ELSE up \ {c}

Step(c, t) ==
    /\ c \in up \ stuck /\ t \in {at[c] - 1, at[c] + 1}
    /\ Footprint(c, t) \subseteq Tiles
    /\ \A d \in Creatures \ {c} : Footprint(c, t) \cap Footprint(d, at[d]) = {}
    /\ at' = [at EXCEPT ![c] = t]
    /\ \E s \in Outcomes(c, t) : Becomes(c, s)
    /\ UNCHANGED <<effects, fight>>

StartTurn(c) ==
    /\ fight /\ c \in up
    /\ \E s \in Outcomes(c, at[c]) : Becomes(c, s)
    /\ UNCHANGED <<effects, at, fight>>

(***************************************************************************)
(* resolveAbilityAt, resolveAbilityInDirection: the first free slot; a web *)
(* catches at once, a wall only whoever enters or begins a turn in it.     *)
(***************************************************************************)
Free == {s \in 1..Slots : effects[s].kind = "none"}
Created(e) == LET s == CHOOSE s \in Free : \A r \in Free : s <= r
              IN effects' = [effects EXCEPT ![s] = e]

CastWeb(mid) ==
    /\ Free # {}
    /\ LET e == [kind |-> "web", tiles |-> (mid - 1)..(mid + 1) \cap Tiles, rounds |-> 0]
       IN /\ Created(e)
          /\ \E caught \in SUBSET {c \in up \ Immune : Covers(e, c)} : stuck' = stuck \cup caught
    /\ UNCHANGED <<at, up, fight>>

CastWall(from) ==
    /\ fight /\ Free # {} /\ from + 1 \in Tiles
    /\ Created([kind |-> "fire", tiles |-> {from, from + 1}, rounds |-> Burning])
    /\ UNCHANGED <<at, stuck, up, fight>>

(***************************************************************************)
(* burnWebAtTiles: the burnt tiles leave every web, whoever stands on one  *)
(* is hurt, and whoever no web holds any more is let go, up or down.       *)
(***************************************************************************)

StillHeld(table, burnt) == {c \in stuck : Webbed(table, c)}

Burn(tiles) ==
    LET left(e) == IF e.tiles \subseteq tiles THEN None ELSE [e EXCEPT !.tiles = @ \ tiles]
        table == [s \in 1..Slots |-> IF effects[s].kind = "web" THEN left(effects[s]) ELSE effects[s]]
        burnt == UNION {effects[s].tiles \cap tiles : s \in {r \in 1..Slots : effects[r].kind = "web"}}
        hurt == {c \in up : burnt \cap Footprint(c, at[c]) # {}}
    IN /\ effects' = table
       /\ stuck' = StillHeld(table, burnt)
       /\ \E fallen \in SUBSET hurt : up' = up \ fallen
       /\ UNCHANGED <<at, fight>>

\* A fire spell burns a line or the ground under its target.
FireSpell(from) == \E to \in {from, from + 1} \cap Tiles : Burn(from..to)

\* igniteWeb: the first web that covers the player, the whole of it
Ignite(c) ==
    /\ c \in up \cap Armed /\ Webbed(effects, c)
    /\ LET holds == {s \in 1..Slots : effects[s].kind = "web" /\ Covers(effects[s], c)}
       IN Burn(effects[CHOOSE s \in holds : \A r \in holds : s <= r].tiles)

(***************************************************************************)
(* attemptEscapeWeb asks for a web to break out of, cutFreeFromWeb for a   *)
(* weapon only; the creature stays where it is.                            *)
(***************************************************************************)
Escape(c) ==
    /\ c \in stuck \cap up /\ Webbed(effects, c)
    /\ stuck' \in {stuck, stuck \ {c}}
    /\ UNCHANGED <<effects, at, up, fight>>

CutFree(c) ==
    /\ c \in stuck \cap up \cap Armed
    /\ stuck' = stuck \ {c}
    /\ UNCHANGED <<effects, at, up, fight>>

(***************************************************************************)
(* tickMapEffects at the end of a round: a web lasts as long as the fight. *)
(* clearMapEffects when a fight begins, ends or is given up.               *)
(***************************************************************************)
Tick ==
    /\ fight
    /\ effects' = [s \in 1..Slots |->
           CASE effects[s].kind # "fire" -> effects[s]
             [] effects[s].rounds = 1 -> None
             [] OTHER -> [effects[s] EXCEPT !.rounds = @ - 1]]
    /\ UNCHANGED <<at, stuck, up, fight>>

Clear ==
    /\ effects' = [s \in 1..Slots |-> None] /\ stuck' = {}
    /\ fight' = ~fight /\ UNCHANGED <<at, up>>

\* Blows and cures.
Fall(c) == c \in up /\ up' = up \ {c} /\ UNCHANGED <<effects, at, stuck, fight>>
Revive(c) == c \notin up /\ up' = up \cup {c} /\ UNCHANGED <<effects, at, stuck, fight>>

EffectNext ==
    \/ \E c \in Creatures : \/ StartTurn(c) \/ Ignite(c) \/ Escape(c) \/ CutFree(c)
                            \/ Fall(c) \/ Revive(c)
                            \/ \E t \in Tiles : Step(c, t)
    \/ \E t \in Tiles : CastWeb(t) \/ CastWall(t) \/ FireSpell(t)
    \/ Tick \/ Clear

EffectSpec == EffectInit /\ [][EffectNext]_effectVars

-----------------------------------------------------------------------------
(***************************************************************************)
(* A creature is stuck only while a web covers it: one that were stuck     *)
(* with no web around could neither walk nor try to break free.            *)
(***************************************************************************)
HeldByWeb == \A c \in stuck : Webbed(effects, c)
=============================================================================
