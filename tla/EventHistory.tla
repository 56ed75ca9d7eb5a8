---------------------------- MODULE EventHistory ----------------------------
(***************************************************************************)
(* The bounded event history that GameSession and PartyRegistry both keep: *)
(* a fixed array used as a ring, a uint64 sequence number per event, and   *)
(* eventsSince(cursor) for a poller that wants what it has not seen.       *)
(*                                                                         *)
(* The state machine is one history (of one session, or of one generation  *)
(* of a party) and one poller that calls eventsSince at any time, takes    *)
(* what it is given and resumes from the newest sequence number.  What an  *)
(* event says is left out: an event is its sequence number.                *)
(***************************************************************************)
EXTENDS Integers

CONSTANTS
  Capacity,       \* SESSION_EVENT_CAPACITY = PARTY_EVENT_CAPACITY = 32
  MaxSequence     \* UINT64_MAX

ASSUME CapacityAssumption == Capacity \in Nat \ {0}
ASSUME MaxSequenceAssumption == MaxSequence \in Nat \ {0}

VARIABLES
  events,         \* the array: the sequence number in each cell, 0 if unused
  eventStart,     \* index of the oldest retained event
  eventCount,     \* how many cells are in use
  nextSequence,   \* the sequence number the next event gets
  cursor,         \* poller: the newest sequence number it knows of
  seen,           \* poller: the events it was handed
  missed          \* poller: the events a HistoryGap told it are lost

ring == <<events, eventStart, eventCount, nextSequence>>
vars == <<events, eventStart, eventCount, nextSequence, cursor, seen, missed>>

Init ==
  /\ events = [i \in 0..(Capacity - 1) |-> 0]
  /\ eventStart = 0
  /\ eventCount = 0
  /\ nextSequence = 1
  /\ cursor = 0
  /\ seen = {}
  /\ missed = {}

CanEmit == nextSequence <= MaxSequence - 1

\* Every index into the array is taken modulo the capacity.
Wrap(i) == i % Capacity

\* Mutant of WriteIndex: ignores where the ring starts.
WriteIndexFromZero == Wrap(eventCount)

WriteIndex == Wrap(eventStart + eventCount)

Emit ==
  /\ CanEmit
  /\ events' = [events EXCEPT ![WriteIndex] = nextSequence]
  /\ nextSequence' = nextSequence + 1
  /\ \/ /\ eventCount < Capacity
        /\ eventCount' = eventCount + 1
        /\ UNCHANGED eventStart
     \/ /\ eventCount = Capacity
        /\ eventStart' = Wrap(eventStart + 1)
        /\ UNCHANGED eventCount
  /\ UNCHANGED <<cursor, seen, missed>>

-----------------------------------------------------------------------------

Newest == nextSequence - 1
Oldest == events[eventStart]

\* The i-th retained event, counted from the oldest one.
Retained(i) == events[Wrap(eventStart + i)]

EventsAfter(c) ==
  {e \in {Retained(i) : i \in 0..(eventCount - 1)} : e > c}

\* Mutant of Gap: off by one, a single lost event goes unreported.
GapLate(c) == eventCount > 0 /\ c + 2 < Oldest

\* PartyRegistry's test, after its early return for a history with no event.
Gap(c) == eventCount > 0 /\ c + 1 < Oldest

\* GameSession's test.
SessionGap(c) == c < Oldest - 1

Poll ==
  /\ cursor <= Newest                                 \* else InvalidCursor
  /\ seen' = seen \cup EventsAfter(cursor)
  /\ missed' = missed \cup {e \in 1..(Oldest - 1) : Gap(cursor) /\ e > cursor}
  /\ cursor' = Newest
  /\ UNCHANGED ring

Next == Emit \/ Poll

Spec == Init /\ [][Next]_vars

-----------------------------------------------------------------------------

TypeOK ==
  /\ events \in [0..(Capacity - 1) -> 0..MaxSequence]
  /\ eventStart \in 0..(Capacity - 1)
  /\ eventCount \in 0..Capacity
  /\ nextSequence \in 1..MaxSequence
  /\ cursor \in 0..MaxSequence
  /\ seen \subseteq 1..MaxSequence
  /\ missed \subseteq 1..MaxSequence

\* The ring holds exactly the newest events, in order and without a hole:
\* emit's index arithmetic never overwrites a cell that is still retained and
\* eventStart always designates the oldest event.
RetainsNewest ==
  /\ eventCount = IF Newest < Capacity THEN Newest ELSE Capacity
  /\ \A i \in 0..(eventCount - 1) : Retained(i) = nextSequence - eventCount + i

\* A poller that reads the gap flag of eventsSince accounts for every event up
\* to its cursor exactly once: it was handed the event, or it was told that the
\* event is lost, never neither and never both.
NoSilentLoss ==
  /\ seen \cup missed = 1..cursor
  /\ seen \cap missed = {}

\* GameSession::eventsSince and PartyRegistry::eventsSince write the gap test
\* differently; they agree on every cursor either accepts, once the history has
\* its first event (GameSession::initialize emits one).
GapTestsAgree ==
  eventCount > 0 => \A c \in 0..Newest : Gap(c) <=> SessionGap(c)

=============================================================================
