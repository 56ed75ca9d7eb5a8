---------------------------- MODULE DungeonGraph ----------------------------
(***************************************************************************)
(* How the rooms of a dungeon are joined (src/src/dungeon/                 *)
(* dungeongraph_core.h, generateLayout): a chain, a branch off it, further *)
(* rooms, the boss in the farthest dead end, optional loops and the        *)
(* treasure behind the boss, with a new attempt whenever one of these      *)
(* finds no place; then which exit of a puzzle room is locked.  Two rooms  *)
(* that are joined lie side by side, so a link is a pair of rooms and its  *)
(* direction follows from where they lie.                                  *)
(***************************************************************************)
EXTENDS Integers, Sequences, FiniteSets
LOCAL INSTANCE SequencesExt

CONSTANTS
    Sizes,        \* MIN_DUNGEON_ROOMS..MAX_DUNGEON_ROOMS
    BossDistance, \* MIN_BOSS_GRAPH_DISTANCE
    Attempts      \* MAX_DUNGEON_GENERATION_ATTEMPTS

VARIABLES
    size,     \* targetRoomCount
    attempt,  \* of generateLayout
    step,     \* "place", "boss", "loops", "treasure", "done", "refused", "failed"
    at,       \* where the rooms placed so far lie, by index
    links,    \* pairs of rooms that are joined
    boss,     \* bossRoom
    left      \* pairs that addOptionalLoops has still to look at

graphVars == <<size, attempt, step, at, links, boss, left>>

NoRoomYet == -1
Directions == <<"north", "east", "south", "west">>
Offset(d) == CASE d = "north" -> <<0, -1>> [] d = "east" -> <<1, 0>>
               [] d = "south" -> <<0, 1>> [] d = "west" -> <<-1, 0>>
Beyond(place, d) == <<place[1] + Offset(d)[1], place[2] + Offset(d)[2]>>

Placed == DOMAIN at
Taken == {at[i] : i \in Placed}
Toward(i, d) == {j \in Placed : at[j] = Beyond(at[i], d)}

(***************************************************************************)
(* Degrees and distances                                                   *)
(***************************************************************************)
Joined(i) == {j \in Placed : {i, j} \in links}
Degree(i) == Cardinality(Joined(i))
HasBranch == \E i \in Placed : Degree(i) >= 3

\* getRoomDistanceFromEntrance: the rooms within reach, with their distances.
Reached(es) ==
    FoldLeft(LAMBDA seen, n :
                 LET rim == {p[1] : p \in {q \in seen : q[2] = n - 1}}
                     old == {p[1] : p \in seen}
                 IN  seen \cup {<<j, n>> : j \in {i \in Placed \ old : \E k \in rim : {i, k} \in es}},
             {<<0, 0>>}, [n \in 1..Cardinality(Placed) |-> n])

DistanceIn(reached, i) ==
    LET hits == {p[2] : p \in {q \in reached : q[1] = i}}
    IN  IF hits = {} THEN 255 ELSE CHOOSE n \in hits : TRUE
Distance(es, i) == DistanceIn(Reached(es), i)
ReachedRooms(es) == {p[1] : p \in Reached(es)}

(***************************************************************************)
(* findFreeTreasureDirection: where there is room beside i.                *)
(***************************************************************************)
FreeDirections(i) == {d \in {Directions[k] : k \in 1..4} : Beyond(at[i], d) \notin Taken}

\* placeConnectedRoom
PlaceBeside(i, d) ==
    LET n == Cardinality(Placed)
    IN  /\ at' = [k \in 0..n |-> IF k = n THEN Beyond(at[i], d) ELSE at[k]]
        /\ links' = links \cup {{i, n}}

FreshStart ==
    [at |-> [k \in 0..1 |-> IF k = 0 THEN <<0, 0>> ELSE <<1, 0>>], links |-> {{0, 1}}]

GraphInit ==
    /\ size \in Sizes /\ attempt = 1 /\ step = "place"
    /\ at = FreshStart.at /\ links = FreshStart.links
    /\ boss = NoRoomYet /\ left = <<>>

\* generateTopology returns false, generateLayout calls it again.
TryAgain ==
    IF attempt < Attempts
    THEN /\ attempt' = attempt + 1 /\ step' = "place"
         /\ at' = FreshStart.at /\ links' = FreshStart.links
         /\ boss' = NoRoomYet /\ left' = <<>> /\ UNCHANGED size
    ELSE step' = "failed" /\ UNCHANGED <<size, attempt, at, links, boss, left>>

(***************************************************************************)
(* The rooms but the last one.  Which parent and direction are tried first *)
(* is random, and the others are tried after them.                         *)
(***************************************************************************)
Parents(n) == CASE n <= 4 -> {n - 1} [] n = 5 -> 1..3 [] OTHER -> 1..(n - 1)

Place ==
    LET n == Cardinality(Placed)
        free == {p \in Parents(n) : FreeDirections(p) # {}}
    IN  /\ step = "place" /\ n < size - 1
        /\ IF free = {} THEN TryAgain
           ELSE /\ \E p \in free : \E d \in FreeDirections(p) : PlaceBeside(p, d)
                /\ UNCHANGED <<size, attempt, step, boss, left>>

(***************************************************************************)
(* The last of the farthest dead ends with a place beside it.              *)
(***************************************************************************)
Eligible(i) == Degree(i) = 1 /\ FreeDirections(i) # {}
Farther(reached, i, j) ==
    \/ DistanceIn(reached, i) > DistanceIn(reached, j)
    \/ DistanceIn(reached, i) = DistanceIn(reached, j) /\ i >= j

\* Pairs side by side without a door, by the lower room and the direction;
\* the boss room gets no loop.
MayJoin(b, i, j) == j > i /\ b \notin {i, j} /\ {i, j} \notin links

LoopPairs(b) ==
    FlattenSeq([i \in 1..(Cardinality(Placed) - 1) |->
        FlattenSeq([k \in 1..4 |->
            LET there == {j \in Toward(i, Directions[k]) : MayJoin(b, i, j)}
            IN  IF there = {} THEN <<>> ELSE <<{i} \cup there>>])])

ChooseBoss ==
    LET ends == {i \in Placed \ {0} : Eligible(i)}
        reached == Reached(links)
        b == CHOOSE i \in ends : \A j \in ends : Farther(reached, i, j)
    IN  /\ step = "place" /\ Cardinality(Placed) = size - 1
        /\ IF ends = {} \/ DistanceIn(reached, b) < BossDistance THEN TryAgain
           ELSE /\ boss' = b /\ left' = LoopPairs(b) /\ step' = "loops"
                /\ UNCHANGED <<size, attempt, at, links>>

(***************************************************************************)
(* addOptionalLoops: one in four, unless it brings the boss too near.      *)
(***************************************************************************)
TooNear(es) == Distance(es, boss) < BossDistance

Loop(wanted) ==
    /\ step = "loops" /\ left # <<>>
    /\ links' = IF wanted /\ ~TooNear(links \cup {Head(left)}) THEN links \cup {Head(left)} ELSE links
    /\ left' = Tail(left)
    /\ UNCHANGED <<size, attempt, step, at, boss>>

(***************************************************************************)
(* validateTopologyDetailed                                                *)
(***************************************************************************)
Treasure == size - 1
ValidTopology ==
    /\ \A i, j \in Placed : at[i] = at[j] => i = j
    /\ ReachedRooms(links) = Placed
    /\ HasBranch
    /\ Distance(links, boss) >= BossDistance
    /\ Degree(boss) = 2 /\ Joined(Treasure) = {boss}

\* The treasure, the check of the whole, and the riddle.
PlaceTreasure ==
    /\ step = "loops" /\ left = <<>>
    /\ IF FreeDirections(boss) = {} THEN TryAgain
       ELSE /\ \E d \in FreeDirections(boss) : PlaceBeside(boss, d)
            /\ step' = "treasure"
            /\ UNCHANGED <<size, attempt, boss, left>>

\* A refusal would begin another attempt; the property below says there is none.
Validate ==
    /\ step = "treasure"
    /\ IF ValidTopology THEN step' = "done" ELSE step' = "refused"
    /\ UNCHANGED <<size, attempt, at, links, boss, left>>

GraphNext ==
    \/ Place \/ ChooseBoss \/ PlaceTreasure \/ Validate
    \/ \E wanted \in BOOLEAN : Loop(wanted)

GraphSpec == GraphInit /\ [][GraphNext]_graphVars

(***************************************************************************)
(* Riddle and locks                                                        *)
(***************************************************************************)
\* findRiddleRoomTowardBoss
RiddleRoom ==
    LET beside == Joined(boss) \ {0, Treasure}
    IN  CHOOSE i \in beside : \A j \in beside : i <= j

\* populateRoomConnections
Connections == <<"north", "south", "west", "east">>
Exits(i) == {k \in 1..4 : Toward(i, Connections[k]) \cap Joined(i) # {}}
ExitTo(i, k) == CHOOSE j \in Joined(i) : j \in Toward(i, Connections[k])

\* selectPuzzleLockedExitDirection: the first exit that leads farther in.
AheadOf(reached, i) ==
    {k \in Exits(i) : DistanceIn(reached, ExitTo(i, k)) > DistanceIn(reached, i)}
LockedExit(reached, i) ==
    LET ahead == AheadOf(reached, i)
        among == IF i = RiddleRoom THEN {k \in Exits(i) : ExitTo(i, k) = boss}
                 ELSE IF ahead # {} THEN ahead ELSE Exits(i)
    IN  ExitTo(i, CHOOSE k \in among : \A m \in among : k <= m)

Middle == Placed \ {0, boss, Treasure}

(***************************************************************************)
(* What the generator gives to the check at its end is never refused.      *)
(* Nobody comes to the boss but through the riddle, nor to the treasure    *)
(* but through the boss; and were all the middle rooms unsolved puzzles,   *)
(* one could walk home from each that is not a dead end.                   *)
(***************************************************************************)
Passable ==
    LET reached == Reached(links)
        locks == {<<i, LockedExit(reached, i)>> : i \in Middle}
    IN  {<<i, j>> \in Placed \X Placed : {i, j} \in links /\ <<i, j>> \notin locks}

HomeFrom(ways, i) ==
    0 \in FoldLeft(LAMBDA near, n : near \cup {w[2] : w \in {v \in ways : v[1] \in near}},
                   {i}, [n \in 1..Cardinality(Placed) |-> n])

WayThrough ==
    /\ step # "refused"
    /\ step = "done" =>
          /\ boss \notin ReachedRooms(links \ {{RiddleRoom, boss}})
          /\ ReachedRooms(links \ {{boss, Treasure}}) = Placed \ {Treasure}
          /\ LET ways == Passable IN \A i \in Middle : Degree(i) > 1 => HomeFrom(ways, i)
=============================================================================
