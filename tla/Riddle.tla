------------------------------- MODULE Riddle -------------------------------
(***************************************************************************)
(* Bertram's room (src/src/dungeon/riddlepuzzle.cpp) and the menus of the  *)
(* players who stand around him (src/src/input/riddlemenu.cpp).  The room  *)
(* is one; each controller keeps a menu of its own, and what it offers may *)
(* be out of date when it is answered.  The right answer is known by what  *)
(* it is, not by its place in the shuffled list, and prices are counted in *)
(* units that grow with the number of attempts.                            *)
(***************************************************************************)
EXTENDS Naturals, FiniteSets

CONSTANTS
    Talkers,       \* the controllers in the room
    Thresholds,    \* attempts the cat may be sure to escape: 3..5 in the code
    Gold           \* bound: the units a player owns

ASSUME RiddleAssumption == Thresholds \subseteq Nat

MaxAttempts == 4                        \* MAX_RIDDLE_ATTEMPTS
Sure == 4                               \* attempts after those, the cat is caught

VARIABLES
    room,      \* the room's npcSpawn, with the key and the cat on its floor
    talk,      \* the menu each player has open: "none", "riddle", "retry", "door"
    purse,     \* gold of each player
    granted,   \* history: guesses that were paid for or earned
    keys       \* history: keys that were put down

riddleVars == <<room, talk, purse, granted, keys>>

Cost(attempts) == attempts

RiddleInit ==
    /\ room = [state |-> "unsolved", result |-> "unanswered", attempts |-> 0,
               flags |-> {}, key |-> FALSE, cat |-> FALSE,
               tries |-> 0, threshold |-> 0]
    /\ talk = [p \in Talkers |-> "none"]
    /\ purse \in [Talkers -> {0, Gold}]
    /\ granted = 0 /\ keys = 0

Close(p) == talk' = [talk EXCEPT ![p] = "none"]

(***************************************************************************)
(* openBertramRiddle: a player faces him and presses A.                    *)
(***************************************************************************)
Spent == room.attempts >= MaxAttempts
Offer == CASE "retry" \in room.flags -> IF Spent THEN "none" ELSE "retry"
           [] OTHER -> IF Spent \/ room.result # "unanswered" THEN "none" ELSE "riddle"

Ask(p) ==
    /\ talk[p] = "none" /\ room.state = "unsolved"
    /\ IF "caught" \in room.flags
       THEN room' = [room EXCEPT !.flags = @ \ {"caught"}] /\ UNCHANGED talk
       ELSE talk' = [talk EXCEPT ![p] = Offer] /\ UNCHANGED room
    /\ UNCHANGED <<purse, granted, keys>>

Back(p) ==
    /\ talk[p] # "none" /\ Close(p)
    /\ UNCHANGED <<room, purse, granted, keys>>

(***************************************************************************)
(* answerActiveBertramRiddle and handleCurrentBertramRiddleResult.  The    *)
(* answer is written down before the room is asked whether one is awaited; *)
(* where no floor is left for the key it stays written down.               *)
(***************************************************************************)
\* Without the question whether a guess is due.
AwaitedAnyway == room.state = "unsolved" /\ ~Spent

Awaited == room.state = "unsolved" /\ "retry" \notin room.flags /\ ~Spent

Answered(right, fits) ==
    LET n == room.attempts + 1
    IN  CASE ~Awaited -> [room EXCEPT !.result = IF right THEN "right" ELSE "wrong"]
          [] Awaited /\ ~right ->
               [room EXCEPT !.attempts = n,
                            !.flags = @ \cup IF n < MaxAttempts THEN {"retry"} ELSE {}]
          [] Awaited /\ right /\ ~fits ->
               [room EXCEPT !.attempts = n, !.result = "right"]
          [] OTHER ->
               [room EXCEPT !.attempts = n, !.result = "right",
                            !.state = "presented", !.key = TRUE]

AnswerRiddle(p, right) ==
    /\ talk[p] = "riddle"
    /\ IF room.result # "unanswered" THEN UNCHANGED <<room, talk, keys>>
       ELSE \E fits \in BOOLEAN :
               /\ room' = Answered(right, fits) /\ Close(p)
               /\ keys' = keys + IF room'.key /\ ~room.key THEN 1 ELSE 0
    /\ UNCHANGED <<purse, granted>>

(***************************************************************************)
(* Another guess: for gold (payForCurrentRiddleRetry) or for the cat       *)
(* (startCurrentRiddleCatChase, attemptCatchCurrentRiddleCat).             *)
(***************************************************************************)
Pay(p) ==
    /\ talk[p] = "retry" /\ Close(p)
    /\ IF "retry" \in room.flags /\ ~Spent /\ purse[p] >= Cost(room.attempts)
       THEN /\ purse' = [purse EXCEPT ![p] = @ - Cost(room.attempts)]
            /\ room' = [room EXCEPT !.flags = @ \ {"retry", "caught"}]
            /\ granted' = granted + 1
       ELSE UNCHANGED <<purse, room, granted>>
    /\ UNCHANGED keys

\* Nothing happens where no tile is free or no slot for an entity.
ChaseCat(p) ==
    /\ talk[p] = "retry" /\ Close(p)
    /\ \/ /\ "chase" \notin room.flags /\ "retry" \in room.flags /\ ~Spent
          /\ \E t \in Thresholds :
                room' = [room EXCEPT !.cat = TRUE, !.tries = 0, !.threshold = t,
                                     !.flags = (@ \cup {"chase"}) \ {"caught"}]
       \/ UNCHANGED room
    /\ UNCHANGED <<purse, granted, keys>>

\* It runs, or is cornered and stays; from some attempt on it cannot escape.
CatFlees ==
    /\ room.tries < room.threshold + Sure
    /\ room' = [room EXCEPT !.tries = @ + 1] /\ UNCHANGED granted

CatIsCaught ==
    /\ room.tries >= room.threshold
    /\ room' = [room EXCEPT !.tries = @ + 1, !.cat = FALSE,
                            !.flags = (@ \ {"chase", "retry"}) \cup {"caught"}]
    /\ granted' = granted + IF "retry" \in room.flags THEN 1 ELSE 0

CatchCat(p) ==
    /\ talk[p] = "none" /\ room.cat /\ "chase" \in room.flags
    /\ CatFlees \/ CatIsCaught
    /\ UNCHANGED <<talk, purse, keys>>

(***************************************************************************)
(* The key and the door                                                    *)
(***************************************************************************)
TakeKey(p) ==
    /\ talk[p] = "none" /\ room.key /\ room.state = "presented"
    /\ room' = [room EXCEPT !.key = FALSE, !.state = "collected"]
    /\ UNCHANGED <<talk, purse, granted, keys>>

UseKey(p) ==
    /\ talk[p] = "none" /\ room.state = "collected"
    /\ room' = [room EXCEPT !.state = "complete"]
    /\ UNCHANGED <<talk, purse, granted, keys>>

FaceDoor(p) ==
    /\ talk[p] = "none" /\ room.state # "complete"
    /\ talk' = [talk EXCEPT ![p] = "door"]
    /\ UNCHANGED <<room, purse, granted, keys>>

\* attemptCurrentRiddlemanDoorBypass, retireCurrentRiddleCat
Bypassed == [room EXCEPT !.state = "complete", !.cat = FALSE,
                         !.flags = @ \ {"chase", "retry", "caught"}]

\* pickRiddlemanDoorLock
PickLock(p, beaten) ==
    /\ talk[p] = "door" /\ Close(p)
    /\ room' = IF beaten /\ room.state # "complete" THEN Bypassed ELSE room
    /\ UNCHANGED <<purse, granted, keys>>

RiddleNext ==
    \E p \in Talkers :
        \/ Ask(p) \/ Back(p) \/ Pay(p) \/ ChaseCat(p) \/ CatchCat(p)
        \/ TakeKey(p) \/ UseKey(p) \/ FaceDoor(p)
        \/ \E b \in BOOLEAN : AnswerRiddle(p, b) \/ PickLock(p, b)

RiddleSpec == RiddleInit /\ [][RiddleNext]_riddleVars

(***************************************************************************)
(* Several players may have the riddle or the terms open at once.  Still   *)
(* every counted guess after the first was paid for or earned, nothing is  *)
(* charged twice for one, and the key is put down once.                    *)
(***************************************************************************)
NoFreeGuess ==
    /\ room.attempts <= 1 + granted
    /\ "retry" \in room.flags => granted < room.attempts
    /\ keys <= 1
=============================================================================
