----------------------------- MODULE Conditions -----------------------------
(***************************************************************************)
(* What lies on one creature (src/src/characters/conditions.cpp): a short  *)
(* list of conditions, one of timed damage, one of energy protections and  *)
(* one of resistances, each with its rounds, a slow poison, and the start  *)
(* of a turn, where all of them run down together.  An entry leaves its    *)
(* list and the ones behind it move up while the loop is under way.        *)
(***************************************************************************)
EXTENDS Naturals, Sequences

CONSTANTS
    Types,         \* the conditions in use: "flat", "sleep", "venom", "poison", others
    Energies,      \* the kinds of energy
    Places,        \* MAX_CONDITIONS_PER_CHARACTER: 12 in the code
    Wards,         \* MAX_ENERGY_PROTECTIONS, MAX_ENERGY_RESISTANCES: 4 and 5
    Burns,         \* MAX_TIMED_DAMAGE_EFFECTS: 4
    Rounds,        \* bound: the rounds something may last; 0 is until removed
    Load,          \* bound: how much lies on the creature at once
    SaveEvery      \* turns between two saves against the poison: 10 in the code

VARIABLES
    table,     \* conditions.conditions: a sequence of [type, rounds]
    burns,     \* timedDamage: a sequence of [type, rounds]
    shields,   \* energyProtections: a sequence of [type, rounds, left]
    resists,   \* energyResistances: a sequence of [type, rounds]
    venom,     \* the poison affliction: stage and turns to the next save
    up,        \* STATE_ALIVE
    due        \* history: turns each thing should still last, counted by itself

conditionVars == <<table, burns, shields, resists, venom, up, due>>

Forever == Rounds + 1    \* longer than anything that is counted
Healthy == [stage |-> 0, wait |-> 0]
Longest == 1..Rounds

ConditionInit ==
    /\ table = <<>> /\ burns = <<>> /\ shields = <<>> /\ resists = <<>>
    /\ venom = Healthy /\ up = TRUE
    /\ due = [cond |-> [t \in Types |-> 0], shield |-> [e \in Energies |-> 0],
              resist |-> [e \in Energies |-> 0]]

Where(list, t) == {k \in DOMAIN list : list[k].type = t}
Has(t) == Where(table, t) # {}
Larger(m, n) == IF m > n THEN m ELSE n
Laden == Len(table) + Len(burns) + Len(shields) + Len(resists) >= Load

(***************************************************************************)
(* addCondition: the longer time stands, and none at all is the longest.   *)
(* A full list takes nothing.                                              *)
(***************************************************************************)
Together(old, new) == IF 0 \in {old, new} THEN 0 ELSE Larger(old, new)
MayTake(list, t, places) == Where(list, t) # {} \/ Len(list) < places

Put(list, t, n) ==
    IF Where(list, t) # {}
    THEN [k \in DOMAIN list |-> IF list[k].type = t
              THEN [list[k] EXCEPT !.rounds = Together(@, n)] ELSE list[k]]
    ELSE Append(list, [type |-> t, rounds |-> n])

Expect(d, n) == IF n = 0 \/ d = Forever THEN Forever ELSE Larger(d, n)

AddCondition(t, n) ==
    /\ t \notin {"venom"} /\ (Laden => Has(t))
    /\ IF MayTake(table, t, Places)
       THEN table' = Put(table, t, n) /\ due' = [due EXCEPT !.cond[t] = Expect(@, n)]
       ELSE UNCHANGED <<table, due>>
    /\ UNCHANGED <<burns, shields, resists, venom, up>>

Without(list, t) == SelectSeq(list, LAMBDA c : c.type # t)

\* removeCondition: flat-footed at the first turn, the rest by spells and falls.
Remove(t) ==
    /\ Has(t) /\ t # "venom"
    /\ table' = Without(table, t) /\ due' = [due EXCEPT !.cond[t] = 0]
    /\ UNCHANGED <<burns, shields, resists, venom, up>>

(***************************************************************************)
(* applySlowingVenom: the poison is in the blood even where the list of    *)
(* conditions has no room for the slowness.                                *)
(***************************************************************************)
Bitten ==
    /\ Laden => Has("venom")
    /\ venom' = [stage |-> 1, wait |-> SaveEvery]
    /\ IF MayTake(table, "venom", Places)
       THEN table' = Put(table, "venom", 0) /\ due' = [due EXCEPT !.cond["venom"] = Forever]
       ELSE UNCHANGED <<table, due>>
    /\ UNCHANGED <<burns, shields, resists, up>>

(***************************************************************************)
(* addTimedDamageEffect replaces; addEnergyResistance and                  *)
(* addEnergyProtection keep the larger amount and the longer time.         *)
(***************************************************************************)
Ignite(e, n) ==
    /\ ~Laden \/ Where(burns, e) # {}
    /\ MayTake(burns, e, Burns)
    /\ burns' = IF Where(burns, e) # {}
                THEN [k \in DOMAIN burns |-> IF burns[k].type = e
                          THEN [burns[k] EXCEPT !.rounds = n] ELSE burns[k]]
                ELSE Append(burns, [type |-> e, rounds |-> n])
    /\ UNCHANGED <<table, shields, resists, venom, up, due>>

Resist(e, n) ==
    /\ ~Laden \/ Where(resists, e) # {}
    /\ MayTake(resists, e, Wards)
    /\ resists' = Put(resists, e, n) /\ due' = [due EXCEPT !.resist[e] = Larger(@, n)]
    /\ UNCHANGED <<table, burns, shields, venom, up>>

Protect(e, n, left) ==
    /\ ~Laden \/ Where(shields, e) # {}
    /\ MayTake(shields, e, Wards)
    /\ shields' = IF Where(shields, e) # {}
                  THEN [k \in DOMAIN shields |-> IF shields[k].type = e
                            THEN [shields[k] EXCEPT !.rounds = Larger(@, n), !.left = Larger(@, left)]
                            ELSE shields[k]]
                  ELSE Append(shields, [type |-> e, rounds |-> n, left |-> left])
    /\ due' = [due EXCEPT !.shield[e] = Larger(@, n)]
    /\ UNCHANGED <<table, burns, resists, venom, up>>

(***************************************************************************)
(* applyEnergyMitigation and updateConditionsAfterDamage: protection is    *)
(* used up first and leaves when nothing is left of it, resistance takes   *)
(* its part of the rest, and what reaches the creature wakes it.           *)
(***************************************************************************)
LeftOf(e) == IF Where(shields, e) = {} THEN 0
             ELSE shields[CHOOSE k \in Where(shields, e) : TRUE].left
Worn(e, n) == SelectSeq([k \in DOMAIN shields |-> IF shields[k].type = e
                             THEN [shields[k] EXCEPT !.left = IF n > @ THEN 0 ELSE @ - n] ELSE shields[k]],
                        LAMBDA s : s.left > 0)

\* Whether anything is left of the hit once the resistance has had its part.
Reaching(e, n) == IF n <= LeftOf(e) THEN {FALSE}
                  ELSE IF Where(resists, e) = {} THEN {TRUE} ELSE BOOLEAN

Hit(e, n) ==
    /\ shields' = Worn(e, n)
    /\ \E reaches \in Reaching(e, n) :
          /\ due' = [due EXCEPT !.shield[e] = IF Where(Worn(e, n), e) = {} THEN 0 ELSE @,
                                !.cond["sleep"] = IF reaches THEN 0 ELSE @]
          /\ table' = IF reaches THEN Without(table, "sleep") ELSE table
          /\ up' \in (IF reaches THEN {up, FALSE} ELSE {up})
    /\ UNCHANGED <<burns, resists, venom>>

(***************************************************************************)
(* tickConditions: each list once, an entry that runs out leaves it and    *)
(* the loop looks at the same place again.                                 *)
(***************************************************************************)
Older(c) == IF c.rounds = 0 THEN c ELSE [c EXCEPT !.rounds = @ - 1]
RunsOut(c) == c.rounds = 1

\* The loop goes on to the next place, past the entry that moved up.
TickedPast(list) ==
    LET passed[k \in 1..Len(list)] == k > 1 /\ ~passed[k - 1] /\ RunsOut(list[k - 1])
        keep == SelectSeq([k \in DOMAIN list |-> k], LAMBDA k : passed[k] \/ ~RunsOut(list[k]))
    IN [j \in DOMAIN keep |-> IF passed[keep[j]] THEN list[keep[j]] ELSE Older(list[keep[j]])]

Ticked(list) ==
    LET stay == SelectSeq(list, LAMBDA c : ~RunsOut(c))
    IN [k \in DOMAIN stay |-> Older(stay[k])]

Sooner(d) == IF d = Forever \/ d = 0 THEN d ELSE d - 1

(***************************************************************************)
(* processConditionsAtTurnStart: the save against the venom, the timed     *)
(* damage that falls due, the hurt of a poison that wakes the sleeper, and *)
(* the tick.  A creature that is down does none of it.                     *)
(***************************************************************************)
\* <<the poison, whether the slowness leaves, whether it is put on again>>
Saves ==
    IF venom.stage = 0 THEN {<<venom, FALSE, FALSE>>}
    ELSE IF venom.wait > 1 THEN {<<[venom EXCEPT !.wait = @ - 1], FALSE, FALSE>>}
    ELSE {<<Healthy, TRUE, FALSE>>,
          IF venom.stage < 2 THEN <<[stage |-> 2, wait |-> SaveEvery], FALSE, TRUE>>
          ELSE <<[venom EXCEPT !.wait = SaveEvery], FALSE, FALSE>>}

Slowed(v) == IF v[2] THEN Without(table, "venom")
             ELSE IF v[3] /\ MayTake(table, "venom", Places) THEN Put(table, "venom", 0)
             ELSE table
Awake(list) == IF Where(list, "poison") # {} THEN Without(list, "sleep") ELSE list

TurnStart ==
    /\ up
    /\ \E v \in Saves :
          LET list == Awake(Slowed(v))
              given == [t \in Types |->
                            CASE t = "sleep" /\ Where(table, "poison") # {} -> 0
                              [] t = "venom" /\ v[2] -> 0
                              [] t = "venom" /\ v[3] /\ Where(Slowed(v), t) # {} -> Forever
                              [] OTHER -> due.cond[t]]
          IN /\ venom' = v[1]
             /\ table' = Ticked(list)
             /\ due' = [cond |-> [t \in Types |-> Sooner(given[t])],
                        shield |-> [e \in Energies |-> Sooner(due.shield[e])],
                        resist |-> [e \in Energies |-> Sooner(due.resist[e])]]
    /\ burns' = Ticked(burns)
    /\ shields' = Ticked(shields) /\ resists' = Ticked(resists)
    /\ UNCHANGED up

Raise == ~up /\ up' = TRUE /\ UNCHANGED <<table, burns, shields, resists, venom, due>>

\* clearConditions, when a character is made
ClearAll ==
    /\ table' = <<>> /\ burns' = <<>> /\ shields' = <<>> /\ resists' = <<>>
    /\ venom' = Healthy
    /\ due' = [cond |-> [t \in Types |-> 0], shield |-> [e \in Energies |-> 0],
               resist |-> [e \in Energies |-> 0]]
    /\ UNCHANGED up

ConditionNext ==
    \/ \E t \in Types : Remove(t) \/ \E n \in Longest \cup {0} : AddCondition(t, n)
    \/ \E e \in Energies, n \in Longest :
          \/ Ignite(e, n) \/ Resist(e, n) \/ Hit(e, n)
          \/ \E left \in Longest : Protect(e, n, left)
    \/ Bitten \/ TurnStart \/ Raise \/ ClearAll

ConditionSpec == ConditionInit /\ [][ConditionNext]_conditionVars

-----------------------------------------------------------------------------
(***************************************************************************)
(* Everything that was laid on the creature lasts exactly as many of its   *)
(* turns as the longest of what was laid on, neither a turn more because   *)
(* an entry before it left the list nor one less, and lies there once.     *)
(***************************************************************************)
Lasts(list, t, d) ==
    IF d = 0 THEN Where(list, t) = {}
    ELSE \E k \in Where(list, t) :
            /\ Where(list, t) = {k}
            /\ list[k].rounds = IF d = Forever THEN 0 ELSE d

LastsAsGiven ==
    /\ \A t \in Types : Lasts(table, t, due.cond[t])
    /\ \A e \in Energies : Lasts(shields, e, due.shield[e]) /\ Lasts(resists, e, due.resist[e])
    /\ Has("venom") => venom.stage > 0
=============================================================================
