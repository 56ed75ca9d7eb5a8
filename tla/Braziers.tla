------------------------------ MODULE Braziers ------------------------------
(***************************************************************************)
(* The brazier room (src/src/dungeon/brazierpuzzle.cpp): a row of four or  *)
(* five braziers, of which each touch changes up to three.  The mask of    *)
(* lit ones is the set of their indices.                                   *)
(***************************************************************************)
EXTENDS Naturals, FiniteSets

CONSTANTS Counts              \* 4 and 5 in the code

VARIABLES
    row,       \* the room: [n, lit, complete, sealed]
    touches    \* history: braziers touched, up to four

brazierVars == <<row, touches>>

All(n) == 0..(n - 1)

\* toggleBrazierMask
Touched(n, lit, i) ==
    LET near == {i - 1, i, i + 1} \cap All(n) IN (lit \ near) \cup (near \ lit)

\* getBrazierMinimumSolutionMoves: the breadth-first search, a layer at a time.
Within(n) ==
    LET f[k \in 0..n] ==
          IF k = 0 THEN {All(n)}
          ELSE f[k - 1] \cup {Touched(n, m, i) : m \in f[k - 1], i \in All(n)}
    IN  f

MinimumMoves(n, lit) ==
    LET near == {k \in 0..n : lit \in Within(n)[k]}
    IN  IF near = {} THEN n + 1 ELSE CHOOSE k \in near : \A j \in near : k <= j

MinimumDistance(n) == IF n = 4 THEN 2 ELSE 3

\* generateBrazierScramble, by scrambling or by its table of candidates.
Scrambles(n) ==
    {lit \in SUBSET All(n) : MinimumMoves(n, lit) \in MinimumDistance(n)..n}

BrazierInit ==
    /\ \E n \in Counts : \E lit \in Scrambles(n) :
          row = [n |-> n, lit |-> lit, complete |-> FALSE, sealed |-> TRUE]
    /\ touches = 0

\* areAllBrazierPuzzleBraziersLit
AllLit(n, lit, i) == lit = All(n)

\* interactWithCurrentBrazierPuzzleAt: the reward is unlocked with the last.
TouchBrazier(i) ==
    /\ ~row.complete /\ i \in All(row.n)
    /\ LET lit == Touched(row.n, row.lit, i)
           done == AllLit(row.n, lit, i)
       IN  row' = [row EXCEPT !.lit = lit, !.complete = done, !.sealed = ~done]
    /\ touches' = IF touches < 4 THEN touches + 1 ELSE touches

BrazierNext == \E i \in 0..4 : TouchBrazier(i)

BrazierSpec == BrazierInit /\ [][BrazierNext]_brazierVars

(***************************************************************************)
(* Whatever the players touched, some set of braziers is left whose touch  *)
(* lights them all (with five, half of all masks have none), and the room  *)
(* was not given away: it took the number of touches its size promises.    *)
(***************************************************************************)
Undone(n, lit, S) ==
    {j \in All(n) : (j \in lit) = (Cardinality(S \cap {j - 1, j, j + 1}) % 2 = 0)}

NeverStuck ==
    /\ \E S \in SUBSET All(row.n) : Undone(row.n, row.lit, S) = All(row.n)
    /\ ~row.sealed => touches >= MinimumDistance(row.n)
=============================================================================
