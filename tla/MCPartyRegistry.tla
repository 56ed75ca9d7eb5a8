--------------------------- MODULE MCPartyRegistry ---------------------------
(* TLC instance of PartyRegistry: two slots of two players each, so that     *)
(* slots are reused while callers still hold credentials of earlier parties. *)
EXTENDS PartyRegistry, TLC

CONSTANTS c1, c2

MCCodes == {c1, c2}

CodeSymmetry == Permutations(MCCodes)

=============================================================================
