---------------------------- MODULE MCCombatTurns ----------------------------
EXTENDS CombatTurns, TLC
CONSTANTS h, c1, c2, m1, m2, r1, r2
MCLair == m1 :> r1 @@ m2 :> r2
Together == [p \in {h, c1, c2} |-> r1]
Apart == [Together EXCEPT ![h] = r2]
Budget(ps, where, events, requests, casts, doors, leaves, disturbances) ==
  [party |-> ps, place |-> where, events |-> events, requests |-> requests, casts |-> casts,
   doors |-> doors, leaves |-> leaves, disturbances |-> disturbances]
\* A long fight, one event given up, an opening ability and a departure, one whose caster
\* comes to its turn, a door with enemies behind it, and two clients with a loss and with a door.
MCBudgets ==
  {Budget({c1}, Together, 4, 2, 0, 0, 0, 1),
   Budget({c1}, Together, 3, 1, 0, 0, 0, 2),
   Budget({c1}, Together, 2, 1, 1, 0, 1, 1),
   Budget({c1}, Together, 4, 2, 1, 0, 0, 0),
   Budget({c1}, Apart, 3, 1, 0, 1, 0, 1),
   Budget({c1, c2}, Together, 2, 1, 0, 0, 0, 1),
   Budget({c1, c2}, Together, 2, 1, 0, 1, 0, 0)}
=============================================================================
