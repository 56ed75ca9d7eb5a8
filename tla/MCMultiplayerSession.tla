------------------------- MODULE MCMultiplayerSession -------------------------
EXTENDS MultiplayerSession, TLC

Symmetry == Permutations(Devices)

=============================================================================
