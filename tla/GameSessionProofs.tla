-------------------------- MODULE GameSessionProofs --------------------------
(***************************************************************************)
(* Lemmas about the operators of a GameSession, for any number of players  *)
(* and any largest sequence number and generation.  The proofs about the   *)
(* PartyRegistry and about the Service rest on them.                       *)
(***************************************************************************)
EXTENDS GameSession, FiniteSetTheorems, WellFoundedInduction, TLAPS

\* A scan from 0 finds a slot whenever there is one.
LEMMA FirstOfExists ==
  ASSUME NEW S, S \subseteq Nat, S # {}
  PROVE  FirstOf(S) \in S
<1>1. \E p \in S : \A q \in S : ~(<<q, p>> \in OpToRel(<, Nat))
  BY WFMin, NatLessThanWellFounded
<1>2. PICK p \in S : \A q \in S : ~(<<q, p>> \in OpToRel(<, Nat))
  BY <1>1
<1>3. \A q \in S : p <= q
  <2> SUFFICES ASSUME NEW q \in S PROVE p <= q
    OBVIOUS
  <2>1. p \in Nat /\ q \in Nat
    OBVIOUS
  <2>2. <<q, p>> \in Nat \X Nat
    BY <2>1
  <2>3. ~(q < p)
    BY <1>2, <2>2 DEF OpToRel
  <2> QED
    BY <2>1, <2>3
<1> QED
  BY <1>3 DEF FirstOf

LEMMA PlayersFinite == Players \subseteq Nat /\ IsFiniteSet(Players)
  BY FS_Interval, MaxPlayersAssumption DEF Players

LEMMA ConstructedType == Constructed \in Session
  BY MaxSessionSequenceAssumption, MaxSessionGenerationAssumption
  DEF Constructed, Session, SessionSlot, FreeSlot

LEMMA InitializedType ==
  ASSUME NEW s \in Session
  PROVE  Initialized(s) \in Session
<1>1. [p \in Players |-> FreeSlot] \in [Players -> SessionSlot]
  BY MaxSessionGenerationAssumption DEF FreeSlot, SessionSlot
<1>2. 2 \in 1..MaxSessionSequence
  BY MaxSessionSequenceAssumption
<1> QED
  BY <1>1, <1>2 DEF Initialized, Session

LEMMA JoinedType ==
  ASSUME NEW s \in Session, SessionCanJoin(s)
  PROVE  /\ SessionJoined(s) \in Session
         /\ SessionJoinHandle(s) \in SessionHandle
<1>1. OpenSlots(s) \subseteq Players /\ OpenSlots(s) # {}
  BY DEF OpenSlots, SessionCanJoin
<1>2. FirstOf(OpenSlots(s)) \in Players
  BY <1>1, PlayersFinite, FirstOfExists
<1> DEFINE p == FirstOf(OpenSlots(s))
<1>3. p \in Players
  BY <1>2
<1> HIDE DEF p
<1>4. s.nextGeneration + 1 \in 1..MaxSessionGeneration
      /\ s.nextGeneration \in 0..MaxSessionGeneration
      /\ s.nextSequence + 1 \in 1..MaxSessionSequence
  BY MaxSessionSequenceAssumption, MaxSessionGenerationAssumption
  DEF SessionCanJoin, SessionCanEmit, Session
<1>5. [s EXCEPT !.players[p] = [occupied |-> TRUE, connected |-> TRUE,
                                generation |-> s.nextGeneration],
                !.nextGeneration = @ + 1,
                !.nextSequence = @ + 1] \in Session
  BY <1>3, <1>4 DEF Session, SessionSlot
<1> QED
  BY <1>3, <1>4, <1>5 DEF SessionJoined, SessionJoinHandle, SessionHandle, p

\* Rewriting one slot and emitting one event keeps the type of a session.
LEMMA SlotRewriteType ==
  ASSUME NEW s \in Session, NEW p \in Players, NEW slot \in SessionSlot,
         SessionCanEmit(s)
  PROVE  [s EXCEPT !.players[p] = slot, !.nextSequence = @ + 1] \in Session
<1>1. [s.players EXCEPT ![p] = slot] \in [Players -> SessionSlot]
  BY DEF Session
<1>2. s.nextSequence + 1 \in 1..MaxSessionSequence
  BY MaxSessionSequenceAssumption DEF SessionCanEmit, Session
<1> QED
  BY <1>1, <1>2 DEF Session

LEMMA DisconnectedType ==
  ASSUME NEW s \in Session, NEW h \in SessionHandle, SessionCanDisconnect(s, h)
  PROVE  SessionDisconnected(s, h) \in Session
<1>1. h.id \in Players /\ s.players[h.id] \in SessionSlot
  BY DEF SessionHandle, Session
<1> DEFINE slot == [s.players[h.id] EXCEPT !.connected = FALSE]
<1>2. slot \in SessionSlot
  BY <1>1 DEF SessionSlot
<1>3. SessionDisconnected(s, h) = [s EXCEPT !.players[h.id] = slot, !.nextSequence = @ + 1]
  BY DEF SessionDisconnected
<1> HIDE DEF slot
<1> QED
  BY <1>1, <1>2, <1>3, SlotRewriteType DEF SessionCanDisconnect

LEMMA ReconnectedType ==
  ASSUME NEW s \in Session, NEW h \in SessionHandle, SessionCanReconnect(s, h)
  PROVE  SessionReconnected(s, h) \in Session
<1>1. h.id \in Players /\ s.players[h.id] \in SessionSlot
  BY DEF SessionHandle, Session
<1> DEFINE slot == [s.players[h.id] EXCEPT !.connected = TRUE]
<1>2. slot \in SessionSlot
  BY <1>1 DEF SessionSlot
<1>3. SessionReconnected(s, h) = [s EXCEPT !.players[h.id] = slot, !.nextSequence = @ + 1]
  BY DEF SessionReconnected
<1> HIDE DEF slot
<1> QED
  BY <1>1, <1>2, <1>3, SlotRewriteType DEF SessionCanReconnect

LEMMA LeftType ==
  ASSUME NEW s \in Session, NEW h \in SessionHandle, SessionCanLeave(s, h)
  PROVE  SessionLeft(s, h) \in Session
<1>1. h.id \in Players /\ FreeSlot \in SessionSlot
  BY MaxSessionGenerationAssumption DEF SessionHandle, FreeSlot, SessionSlot
<1> QED
  BY <1>1, SlotRewriteType DEF SessionCanLeave, SessionLeft

LEMMA AllLeftType ==
  ASSUME NEW s \in Session, NEW H, IsFiniteSet(H)
  PROVE  SessionAllLeft(s, H) \in Session
<1> DEFINE valid == {h \in H : SessionValid(s, h)}
           room == MaxSessionSequence - s.nextSequence
           gone == {h.id : h \in {g \in valid :
                      Cardinality({f \in valid : f.id < g.id}) < room}}
           players == [p \in Players |-> IF p \in gone THEN FreeSlot ELSE s.players[p]]
           next == IF Cardinality(valid) <= room
                     THEN s.nextSequence + Cardinality(valid) ELSE MaxSessionSequence
<1>1. IsFiniteSet(valid)
  BY FS_Subset
<1>2. Cardinality(valid) \in Nat
  BY <1>1, FS_CardinalityType
<1>3. players \in [Players -> SessionSlot]
  BY MaxSessionGenerationAssumption DEF Session, SessionSlot, FreeSlot
<1>4. next \in 1..MaxSessionSequence
  <2> HIDE DEF valid
  <2> QED
    BY <1>2, MaxSessionSequenceAssumption DEF Session
<1>5. SessionAllLeft(s, H) = [s EXCEPT !.players = players, !.nextSequence = next]
  BY DEF SessionAllLeft
<1> HIDE DEF players, next
<1> QED
  BY <1>3, <1>4, <1>5 DEF Session

-----------------------------------------------------------------------------
(* What an operation leaves, player by player *)

LEMMA InitializedFields ==
  ASSUME NEW s \in Session
  PROVE  /\ Initialized(s).initialized
         /\ \A p \in Players : Initialized(s).players[p] = FreeSlot
  BY DEF Initialized, Session

LEMMA JoinedFields ==
  ASSUME NEW s \in Session, SessionCanJoin(s)
  PROVE  LET h == SessionJoinHandle(s)
             t == SessionJoined(s)
         IN  /\ h.id \in Players /\ ~s.players[h.id].occupied
             /\ h.generation = s.nextGeneration
             /\ t.initialized
             /\ t.nextSequence = s.nextSequence + 1
             /\ \A p \in Players : t.players[p] =
                  IF p = h.id THEN [occupied |-> TRUE, connected |-> TRUE,
                                    generation |-> h.generation]
                              ELSE s.players[p]
<1>1. FirstOf(OpenSlots(s)) \in OpenSlots(s)
  BY PlayersFinite, FirstOfExists DEF OpenSlots, SessionCanJoin
<1> DEFINE p == FirstOf(OpenSlots(s))
<1>2. p \in Players /\ ~s.players[p].occupied
  BY <1>1 DEF OpenSlots
<1> HIDE DEF p
<1> QED
  BY <1>2 DEF SessionJoinHandle, SessionJoined, SessionCanJoin, Session, p

LEMMA DisconnectedFields ==
  ASSUME NEW s \in Session, NEW h \in SessionHandle
  PROVE  LET t == SessionDisconnected(s, h)
         IN  /\ t.initialized = s.initialized
             /\ t.nextSequence = s.nextSequence + 1
             /\ \A p \in Players : t.players[p] =
                  IF p = h.id THEN [s.players[p] EXCEPT !.connected = FALSE] ELSE s.players[p]
  BY DEF SessionDisconnected, Session, SessionHandle

LEMMA ReconnectedFields ==
  ASSUME NEW s \in Session, NEW h \in SessionHandle
  PROVE  LET t == SessionReconnected(s, h)
         IN  /\ t.initialized = s.initialized
             /\ t.nextSequence = s.nextSequence + 1
             /\ \A p \in Players : t.players[p] =
                  IF p = h.id THEN [s.players[p] EXCEPT !.connected = TRUE] ELSE s.players[p]
  BY DEF SessionReconnected, Session, SessionHandle

LEMMA LeftFields ==
  ASSUME NEW s \in Session, NEW h \in SessionHandle
  PROVE  LET t == SessionLeft(s, h)
         IN  /\ t.initialized = s.initialized
             /\ t.nextSequence = s.nextSequence + 1
             /\ \A p \in Players : t.players[p] = IF p = h.id THEN FreeSlot ELSE s.players[p]
  BY DEF SessionLeft, Session, SessionHandle

=============================================================================
