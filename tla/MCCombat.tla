------------------------------ MODULE MCCombat ------------------------------
(***************************************************************************)
(* Two players and two monsters of one room.  A case says who of them is   *)
(* left (the other players are in Town, the other monsters dead already)   *)
(* and how much may befall them.                                           *)
(***************************************************************************)
EXTENDS Combat, TLC

CONSTANTS p1, p2, m1, m2, hall, crypt, Cases

Encounters == <<<<{p1, m1}, 2>>, <<{p1, p2, m1}, 1>>, <<{p1, m1, m2}, 0>>>>
Duel == <<<<{p1, m1}, 1>>>>

\* Nothing tells two players, or two monsters of one room, from each other.
Alike == Permutations({p1, p2}) \cup Permutations({m1, m2})

MCLair == (m1 :> hall) @@ (m2 :> hall)

MCInit ==
    /\ combat = NoCombat /\ begun = NoTurns
    /\ turn = [c \in Combatants |-> Idle]
    /\ \E i \in 1 .. Len(Cases) :
          LET S == Cases[i][1] IN
          /\ budget = Cases[i][2]
          /\ life = [c \in Combatants |->
                       IF c \in Monsters \ S THEN "dead" ELSE "alive"]
          /\ room = [p \in Players |-> IF p \in S THEN hall ELSE None]
    /\ aware = {}
    /\ online = [p \in Players |-> TRUE]
    /\ grace = [p \in Players |-> "none"]

\* The run does not follow an encounter that goes on without a living monster.
Fought == combat.active => LivingEnemies(world) # {}

MCSpec == MCInit /\ [][Next]_vars /\ WF_vars(Tick)
=============================================================================
