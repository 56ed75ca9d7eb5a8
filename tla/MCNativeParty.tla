---------------------------- MODULE MCNativeParty ----------------------------
EXTENDS NativeParty

MCAdventures == {"Dungeon"}
MCResters == {0}
MCTraders == {1}
MCFighters == {0}

=============================================================================
