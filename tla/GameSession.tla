----------------------------- MODULE GameSession -----------------------------
(***************************************************************************)
(* The participant slots of a GameSession, as operators on a record.  A    *)
(* participant is known to its owner by a handle [id, generation]; a slot  *)
(* is reused after leave, its generation never is.                         *)
(*                                                                         *)
(* An operation is a pair of operators: when it succeeds, and the record   *)
(* it leaves.  When it does not succeed the record is unchanged.           *)
(***************************************************************************)
EXTENDS Integers, FiniteSets

CONSTANTS
  MaxPlayers,             \* MAX_MULTIPLAYER_PLAYERS = 4
  MaxSessionSequence,     \* UINT64_MAX for the event sequence
  MaxSessionGeneration    \* UINT64_MAX for the slot generations

ASSUME MaxPlayersAssumption == MaxPlayers \in Nat \ {0}
ASSUME MaxSessionSequenceAssumption == MaxSessionSequence \in Nat \ {0, 1}
ASSUME MaxSessionGenerationAssumption == MaxSessionGeneration \in Nat \ {0}

Players == 0..(MaxPlayers - 1)

SessionSlot ==
  [occupied : BOOLEAN, connected : BOOLEAN, generation : 0..MaxSessionGeneration]

SessionHandle == [id : Players, generation : 0..MaxSessionGeneration]

Session ==
  [initialized : BOOLEAN,
   players : [Players -> SessionSlot],
   nextGeneration : 1..MaxSessionGeneration,
   nextSequence : 1..MaxSessionSequence]

FreeSlot == [occupied |-> FALSE, connected |-> FALSE, generation |-> 0]

Constructed ==
  [initialized |-> FALSE, players |-> [p \in Players |-> FreeSlot],
   nextGeneration |-> 1, nextSequence |-> 1]

\* initialize: players and history start over, with one Status event; the
\* generation counter goes on.
Initialized(s) ==
  [s EXCEPT !.initialized = TRUE,
            !.players = [p \in Players |-> FreeSlot],
            !.nextSequence = 2]

SessionCanEmit(s) == s.nextSequence < MaxSessionSequence

\* The lowest numbered of a set of slots: join scans from 0.
FirstOf(S) == CHOOSE p \in S : \A q \in S : p <= q

OpenSlots(s) == {p \in Players : ~s.players[p].occupied}

SessionCanJoin(s) ==
  /\ s.initialized
  /\ OpenSlots(s) # {}
  /\ SessionCanEmit(s)
  /\ s.nextGeneration < MaxSessionGeneration

SessionJoinHandle(s) ==
  [id |-> FirstOf(OpenSlots(s)), generation |-> s.nextGeneration]

SessionJoined(s) ==
  [s EXCEPT !.players[FirstOf(OpenSlots(s))] =
              [occupied |-> TRUE, connected |-> TRUE, generation |-> s.nextGeneration],
            !.nextGeneration = @ + 1,
            !.nextSequence = @ + 1]

SessionValid(s, h) ==
  /\ s.initialized
  /\ s.players[h.id].occupied
  /\ s.players[h.id].generation = h.generation

SessionCanDisconnect(s, h) ==
  SessionValid(s, h) /\ s.players[h.id].connected /\ SessionCanEmit(s)

SessionDisconnected(s, h) ==
  [s EXCEPT !.players[h.id].connected = FALSE, !.nextSequence = @ + 1]

SessionCanReconnect(s, h) ==
  SessionValid(s, h) /\ ~s.players[h.id].connected /\ SessionCanEmit(s)

SessionReconnected(s, h) ==
  [s EXCEPT !.players[h.id].connected = TRUE, !.nextSequence = @ + 1]

SessionCanLeave(s, h) == SessionValid(s, h) /\ SessionCanEmit(s)

\* Mutant of SessionLeft: the slot stays occupied by the player who left.
SessionLeftOccupied(s, h) ==
  [s EXCEPT !.players[h.id].connected = FALSE, !.nextSequence = @ + 1]

SessionLeft(s, h) ==
  [s EXCEPT !.players[h.id] = FreeSlot, !.nextSequence = @ + 1]

\* A series of leave calls for the handles H, lowest id first, each of which
\* fails on its own: a stale handle, or no sequence number left to emit with.
SessionAllLeft(s, H) ==
  LET valid == {h \in H : SessionValid(s, h)}
      room == MaxSessionSequence - s.nextSequence
      gone == {h.id : h \in {g \in valid :
                 Cardinality({f \in valid : f.id < g.id}) < room}}
  IN  [s EXCEPT !.players = [p \in Players |->
                   IF p \in gone THEN FreeSlot ELSE s.players[p]],
                !.nextSequence = IF Cardinality(valid) <= room
                                   THEN @ + Cardinality(valid)
                                   ELSE MaxSessionSequence]

SessionConnected(s) ==
  {p \in Players : s.players[p].occupied /\ s.players[p].connected}

=============================================================================
