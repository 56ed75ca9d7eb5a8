-------------------------- MODULE MCPartyActivity --------------------------
(* TLC instance of PartyActivity: two clients, and either the ways between   *)
(* two rooms or what happens in one.                                         *)
EXTENDS PartyActivity, TLC

CONSTANTS c1, c2

Two == {c1, c2}
Same == Permutations(Two)

Plan(doors, spellsCast, events, faults) ==
  [doors |-> doors, spells |-> spellsCast, turns |-> events, disturbances |-> faults]

Travels == {Plan(2, 0, 0, 1), Plan(0, 1, 1, 1), Plan(1, 2, 0, 0), Plan(0, 2, 0, 1)}
Fights == {Plan(0, 1, 2, 0)}
==============================================================================
