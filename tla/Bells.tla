------------------------------- MODULE Bells --------------------------------
(***************************************************************************)
(* The bell room (src/src/dungeon/bellpuzzle.cpp): three bells, a sequence *)
(* that has to be struck in full, and a key that needs a place on a floor  *)
(* that others may have filled.  The sequence belongs to the dungeon, the  *)
(* count of bells struck so far to the visit.                              *)
(***************************************************************************)
EXTENDS Naturals, Sequences, FiniteSets

CONSTANTS Tones, Lengths          \* 3..7 in the code, by the player's level

VARIABLES
    bells,     \* the room: [seq, progress, entered, key]
    struck     \* history: the last of what was heard, arrivals included

bellVars == <<bells, struck>>

\* getBellSequenceLengthForLevel
LengthFor(level) ==
    CASE level <= 3  -> 3
      [] level \in 4..6   -> 4
      [] level \in 7..10  -> 5
      [] level \in 11..15 -> 6
      [] OTHER            -> 7

\* isValidBellSequence: two tones at least, and none three times in a row.
ValidSequence(s) ==
    /\ Len(s) \in 3..7
    /\ Cardinality({s[i] : i \in DOMAIN s}) >= 2
    /\ \A i \in 1..(Len(s) - 2) : ~(s[i] = s[i + 1] /\ s[i + 1] = s[i + 2])

\* buildBellSequenceFromRolls: the first valid candidate of the rolls, or the
\* scale, which is valid.
Sequences(n) == {s \in [1..n -> Tones] : ValidSequence(s)}

BellInit ==
    /\ \E n \in Lengths, level \in {1, 5} :
          /\ LengthFor(level) = n
          /\ \E s \in Sequences(n) :
                bells = [seq |-> s, progress |-> "unsolved", entered |-> 0, key |-> FALSE]
    /\ struck = <<>>

Heard(x) ==
    LET n == Len(bells.seq)
        s == Append(struck, x)
    IN  struck' = IF Len(s) > n THEN Tail(s) ELSE s

\* submitBellTone, after a tone that is not the next one.
ForgiveWrongTone(b, tone) == b

StartOver(b, tone) == [b EXCEPT !.entered = 0]

\* strikeCurrentBellAt.  Where the key finds neither floor nor entity slot the
\* room stays unsolved, and the sequence may be struck once more.
StrikeBell(tone) ==
    /\ bells.progress = "unsolved"
    /\ Heard(tone)
    /\ LET b == bells
       IN  IF b.seq[b.entered + 1] # tone THEN bells' = StartOver(b, tone)
           ELSE IF b.entered + 1 < Len(b.seq)
           THEN bells' = [b EXCEPT !.entered = @ + 1]
           ELSE bells' \in {[b EXCEPT !.entered = 0],
                            [b EXCEPT !.entered = 0, !.progress = "presented",
                                      !.key = TRUE]}

\* collectCurrentBellKey
CollectBellKey ==
    /\ bells.key /\ bells.progress = "presented"
    /\ bells' = [bells EXCEPT !.key = FALSE, !.progress = "collected"]
    /\ UNCHANGED struck

\* tryUnlockCurrentBellExit
UnlockBellExit ==
    /\ bells.progress = "collected"
    /\ bells' = [bells EXCEPT !.progress = "complete"]
    /\ UNCHANGED struck

\* loadRoom: who comes back begins anew.
ReturnToBells ==
    /\ bells' = [bells EXCEPT !.entered = 0]
    /\ IF bells.progress = "unsolved" THEN Heard("arrival") ELSE UNCHANGED struck

BellNext ==
    \/ \E t \in Tones : StrikeBell(t)
    \/ CollectBellKey \/ UnlockBellExit \/ ReturnToBells

BellSpec == BellInit /\ [][BellNext]_bellVars

(***************************************************************************)
(* The exit opens to those alone who struck the sequence, without a wrong  *)
(* bell in between and in one visit, however often they began.             *)
(***************************************************************************)
TheSequenceWasStruck == bells.progress # "unsolved" => struck = bells.seq
=============================================================================
