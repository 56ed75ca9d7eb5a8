---------------------------- MODULE NumberTiles -----------------------------
(***************************************************************************)
(* The number room (src/src/dungeon/numbertilepuzzle.cpp): a field that    *)
(* has to be crossed from its near edge to its far one, on tiles whose     *)
(* digit obeys a rule, or, under a stateful rule, in the order of a        *)
(* required sequence.  A tile is the set of steps of that sequence its     *)
(* digit is right for; under a stateless rule it is safe at all of them or *)
(* at none.  Walls close the room beside the two edges, so a field and the *)
(* floor beside it are left over the edges alone.  The room knows one      *)
(* crossing, whoever walks.                                                *)
(***************************************************************************)
EXTENDS Naturals, Sequences, FiniteSets

CONSTANTS
    Walkers,
    Levels,
    Depth,       \* from edge to edge; a required sequence has as many steps
    Width

VARIABLES
    field,     \* the room: [tiles, stateful, active, step, complete]
    party,     \* the players in the room
    at,        \* where they are: <<depth, lateral>>, the field is 1.. 1..
    trail      \* history: the tiles of the crossing under way, the last Depth

numberVars == <<field, party, at, trail>>

Steps == 1..Depth
Tiles == (1..Depth) \X (1..Width)
Middle == (Width \div 2) + 1
Landing == <<0, Middle>>
Floor == {p \in (0..(Depth + 1)) \X (0..(Width + 1)) :
              p[1] \in {0, Depth + 1} => p[2] \in 1..Width}
Near(t) == t[1] = 1
Far(t) == t[1] = Depth
Beyond(p) == p[1] > Depth

Adjacent(p) ==
    {q \in Floor : \/ q[1] = p[1] /\ q[2] \in {p[2] - 1, p[2] + 1}
                   \/ q[2] = p[2] /\ q[1] \in {p[1] - 1, p[1] + 1}}

(***************************************************************************)
(* Rules                                                                   *)
(***************************************************************************)
\* getNumberPuzzleDigitRange
Digits(level) == CASE level <= 4 -> 1..6 [] level \in 5..9 -> 0..7 [] OTHER -> 0..9

\* evaluateNumberTileRule: the digits that hold, and from which level on the
\* rule is used.
Stateless ==
    [odd       |-> [from |-> 1,  safe |-> {1, 3, 5, 7, 9}],
     even      |-> [from |-> 1,  safe |-> {0, 2, 4, 6, 8}],
     three     |-> [from |-> 1,  safe |-> {3}],
     six       |-> [from |-> 1,  safe |-> {6}],
     above3    |-> [from |-> 1,  safe |-> 4..9],
     below4    |-> [from |-> 1,  safe |-> 0..3],
     of2       |-> [from |-> 1,  safe |-> {0, 2, 4, 6, 8}],
     of3       |-> [from |-> 1,  safe |-> {0, 3, 6, 9}],
     prime     |-> [from |-> 5,  safe |-> {2, 3, 5, 7}],
     of4       |-> [from |-> 5,  safe |-> {0, 4, 8}],
     above5    |-> [from |-> 5,  safe |-> 6..9],
     below5    |-> [from |-> 5,  safe |-> 0..4],
     between   |-> [from |-> 5,  safe |-> 3..7],
     composite |-> [from |-> 10, safe |-> {4, 6, 8, 9}],
     divides12 |-> [from |-> 10, safe |-> {1, 2, 3, 4, 6}],
     divides18 |-> [from |-> 10, safe |-> {1, 2, 3, 6, 9}],
     evenSq    |-> [from |-> 10, safe |-> {0, 2, 4, 6, 8}],
     oddSq     |-> [from |-> 10, safe |-> {1, 3, 5, 7, 9}],
     seven     |-> [from |-> 10, safe |-> {7}]]

Stateful == [dbl3 |-> 10, dblless |-> 10, tri2 |-> 14, sq1 |-> 14, alt |-> 14, sum |-> 18]

\* isNumberTileRuleEligible, selectNumberTileRuleForLevel
Eligible(level) ==
    {r \in DOMAIN Stateless :
        /\ Stateless[r].from <= level
        /\ Digits(level) \cap Stateless[r].safe \notin {{}, Digits(level)}}
    \cup {r \in DOMAIN Stateful : Stateful[r] <= level}

\* getExpectedNextNumberPuzzleDigit, after i digits
Expected(rule, previous, current, i) ==
    CASE rule = "dbl3"    -> (2 * current + 3) % 10
      [] rule = "tri2"    -> (3 * current + 2) % 10
      [] rule = "sq1"     -> (current * current + 1) % 10
      [] rule = "sum"     -> (previous + current) % 10
      [] rule = "alt"     -> (IF i % 2 = 1 THEN 2 * current ELSE current + 3) % 10
      [] rule = "dblless" -> (2 * current + 9) % 10

\* buildStatefulSequence
Required(rule, a, b) ==
    LET f[i \in 0..Depth] ==
          IF i = 0 THEN <<a, IF rule = "sum" THEN b ELSE a>>
          ELSE <<f[i - 1][2], Expected(rule, f[i - 1][1], f[i - 1][2], i - 1)>>
    IN  [i \in Steps |-> f[i][2]]

Useful(s) ==
    /\ \E i \in Steps : s[i] # s[1]
    /\ \E i \in 3..Depth : s[i] # s[2 - (i % 2)]

\* Which steps of the sequence have the digit of step i.
Sequences(rule) ==
    {[i \in Steps |-> {j \in Steps : s[j] = s[i]}] :
        s \in {t \in {Required(rule, a, b) : a \in 0..9, b \in 0..9} : Useful(t)}}

(***************************************************************************)
(* configureNumberTilePuzzleRoom: a straight path under a stateful rule,   *)
(* one that drifts under a stateless one, and a right digit at least once  *)
(* beside it.  What has no safe path is not built.                         *)
(***************************************************************************)
\* validateNumberPuzzleSafePath: the tiles after k steps of the sequence, or
\* within k steps on safe tiles.
Reachable(tiles, stateful) ==
    LET f[k \in 1..Cardinality(Tiles)] ==
          IF k = 1 THEN {t \in Tiles : Near(t) /\ 1 \in tiles[t]}
          ELSE {t \in Tiles :
                  /\ tiles[t] # {} /\ (stateful => k \in tiles[t])
                  /\ \E u \in f[k - 1] : t \in Adjacent(u) \/ (t = u /\ ~stateful)}
    IN  f
SafePath(tiles, stateful) ==
    \E t \in Reachable(tiles, stateful)[IF stateful THEN Depth ELSE Cardinality(Tiles)] : Far(t)

Beside == {t \in Tiles : t[2] # Middle}

StatefulFields(rule) ==
    UNION {{[t \in Tiles |-> IF t \in Beside THEN other[t] ELSE s[t[1]]] :
               other \in {o \in [Beside -> {{}} \cup {s[i] : i \in Steps}] :
                             \E u \in Beside : o[u] # {}}} :
           s \in Sequences(rule)}

Drifts == {w \in [Steps -> 1..Width] :
              /\ w[1] = Middle
              /\ \A d \in 2..Depth : w[d] \in {w[d - 1] - 1, w[d - 1], w[d - 1] + 1}}

StatelessFields ==
    UNION {LET path == {<<d, w[d]>> : d \in Steps}
           IN  {[t \in Tiles |-> IF t \in path \cup more THEN Steps ELSE {}] :
                   more \in (SUBSET (Tiles \ path)) \ {{}, Tiles \ path}} : w \in Drifts}

Fields(level, stateful) ==
    LET rules == Eligible(level) \cap IF stateful THEN DOMAIN Stateful ELSE DOMAIN Stateless
    IN  IF stateful THEN UNION {StatefulFields(rule) : rule \in rules}
        ELSE IF rules = {} THEN {} ELSE StatelessFields

NumberInit ==
    /\ \E level \in Levels, stateful \in BOOLEAN : \E tiles \in Fields(level, stateful) :
          /\ SafePath(tiles, stateful)
          /\ field = [tiles |-> tiles, stateful |-> stateful,
                      active |-> FALSE, step |-> 0, complete |-> FALSE]
    /\ party \in {P \in SUBSET Walkers : P # {}}
    /\ at \in [party -> {<<0, l>> : l \in 1..Width}]
    /\ \A p, q \in party : p # q => at[p] # at[q]
    /\ trail = <<>>

LastOf(s) == IF Len(s) > Depth THEN Tail(s) ELSE s

\* resetStatefulTraversal, and its short form for the other rules.
Broken(f) == [f EXCEPT !.active = FALSE, !.step = 0]

(***************************************************************************)
(* tryEnterCurrentNumberPuzzleTile                                         *)
(***************************************************************************)
Admits(t) ==
    IF field.stateful THEN field.step < Depth /\ field.step + 1 \in field.tiles[t]
    ELSE field.tiles[t] # {}

\* A wrong step under a stateful rule sends the walker back to the landing,
\* whoever stands there.
Reject(w, t) ==
    /\ field.active \/ Near(t)
    /\ ~Admits(t) /\ field.stateful
    /\ field' = Broken(field) /\ trail' = <<>>
    /\ at' = [at EXCEPT ![w] = Landing]

Enter(w, t) ==
    /\ field.active \/ Near(t)
    /\ Admits(t)
    /\ field' = [field EXCEPT !.active = TRUE,
                              !.step = IF field.stateful THEN @ + 1 ELSE @]
    /\ trail' = LastOf(Append(trail, t))
    /\ at' = [at EXCEPT ![w] = t]

(***************************************************************************)
(* handleCurrentNumberPuzzleMovement.  It is asked about every step of any *)
(* player in the room.                                                     *)
(***************************************************************************)

SequenceComplete == ~field.stateful \/ field.step = Depth

Leave(w, p) ==
    /\ at' = [at EXCEPT ![w] = p]
    /\ IF ~field.active THEN UNCHANGED <<field, trail>>
       ELSE IF at[w] \in Tiles /\ Far(at[w]) /\ Beyond(p) /\ SequenceComplete
       THEN field' = [field EXCEPT !.complete = TRUE, !.active = FALSE] /\ UNCHANGED trail
       ELSE field' = Broken(field) /\ trail' = <<>>

\* tryMovePlayerAuthoritative, as far as this room goes.  Once the field has
\* been crossed the model stops: the exit is open from then on.
WalkTo(w, p) ==
    /\ ~field.complete /\ p \in Adjacent(at[w])
    /\ \A v \in party : at[v] # p
    /\ IF p \in Tiles THEN Enter(w, p) \/ Reject(w, p) ELSE Leave(w, p)
    /\ UNCHANGED party

NumberNext == \E w \in party : \E p \in Floor : WalkTo(w, p)

NumberSpec == NumberInit /\ [][NumberNext]_numberVars

(***************************************************************************)
(* The exit opens to a crossing alone: no wrong tile was trodden, and a    *)
(* required sequence was walked in its order, though several may have      *)
(* shared the walk.  One alone also walked in a row to the far edge, and   *)
(* is never shut in behind the field.                                      *)
(***************************************************************************)
Solo == Cardinality(party) = 1

CrossedInOrder ==
    /\ \A i \in DOMAIN trail : field.tiles[trail[i]] # {}
    /\ field.complete =>
          /\ field.stateful => /\ Len(trail) = Depth
                               /\ \A i \in Steps : i \in field.tiles[trail[i]]
          /\ Solo => Far(trail[Len(trail)])
    /\ Solo =>
          /\ field.complete \/ \A w \in party : ~Beyond(at[w])
          /\ \A i \in 2..Len(trail) : trail[i] \in Adjacent(trail[i - 1])
=============================================================================
