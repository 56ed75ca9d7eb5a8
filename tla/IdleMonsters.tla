---------------------------- MODULE IdleMonsters ----------------------------
(***************************************************************************)
(* What the monsters of a room do while nobody fights them                 *)
(* (src/src/map/monsteridle.cpp): each has a timer of its own and takes a  *)
(* step of its patrol or of its wandering when that runs out, until it     *)
(* meets the player.  A fight and a screen over the map suspend all of     *)
(* them, in two flags that outlive the room.  The player may leave for the *)
(* town or for the next room, where the same code runs on other monsters;  *)
(* the timers of the ones left behind go on (entitypersistence.cpp).       *)
(* A corridor stands for the room; the fight itself is left out.  This is  *)
(* the handheld: natively no screen suspends the monsters, and contact is  *)
(* with any player.                                                        *)
(***************************************************************************)
EXTENDS Integers, SequencesExt

CONSTANTS
    Kinds,        \* the monsters in the order of the map: <<idleBehavior, ...>>
    Hostile,      \* the monsters that fight on contact
    Cells,        \* length of the corridor
    MinDelay,     \* MIN_IDLE_ACTION_MS
    MaxDelay,     \* MAX_IDLE_ACTION_MS
    PatrolSteps   \* MIN_PATROL_STEPS..MAX_PATROL_STEPS

VARIABLES
    mobs,         \* the living monsters and their timers
    hero,         \* the cell of the player; 0 when defeated or elsewhere
    scene,        \* where the player is, and whether a fight or a screen is on
    halted,       \* idleSuspendedByCombat, idleSuspendedByModal
    calm,         \* history: time since a frame saw a fight or a screen
    stayed,       \* history: the player has not left the room since
    acted         \* history: what the last frame had the monsters do

idleVars == <<mobs, hero, scene, halted, calm, stayed, acted>>

Mobs == DOMAIN Kinds
Unset == MaxDelay + 1                    \* nextIdleActionTime is 0
Delays == MinDelay .. MaxDelay           \* randomIdleDelay
Ways == {-1, 1}

Taken(ms, m) == {ms[k].at : k \in {j \in Mobs \ {m} : ms[j].up}}

\* attemptIdleStep with canMonsterMoveTo: a hostile monster that reaches the
\* player is aware of it, and the fight begins.
Stepped(f, m, way) ==
    LET to == f.ms[m].at + way
        how == IF to = hero THEN IF m \in Hostile THEN "contact" ELSE "blocked"
               ELSE IF to \in 1 .. Cells /\ to \notin Taken(f.ms, m) THEN "moved"
               ELSE "blocked"
    IN  [f EXCEPT !.fight = (how = "contact"),
                  !.ms[m].at = IF how = "moved" THEN to ELSE @,
                  !.ms[m].aware = @ \/ how = "contact",
                  !.acts = Append(@, <<m, how>>)]

\* updatePatrol
Patrolled(f, m) ==
    LET Step(g) == LET s == Stepped(g, m, g.ms[m].way)
                   IN  [s EXCEPT !.ms[m].left = IF Last(s.acts)[2] = "moved" THEN @ - 1 ELSE 0]
    IN  IF f.ms[m].left > 0 THEN {Step(f)}
        ELSE {Step([f EXCEPT !.ms[m].way = w, !.ms[m].left = n]) : w \in Ways, n \in PatrolSteps}

\* updateWander: the direction is drawn anew for each step.
Wandered(f, m) == {Stepped(f, m, w) : w \in Ways}

\* One monster of the loop of updateMonsterIdleBehavior.
Turn(f, m) ==
    LET At(d) == [f EXCEPT !.ms[m].wait = d]
    IN  CASE f.fight \/ ~f.ms[m].up \/ f.ms[m].aware -> {f}
          [] Kinds[m] \notin {"patrol", "wander"} -> {f}
          [] f.ms[m].wait = Unset -> {At(d) : d \in Delays}
          [] f.ms[m].wait \in 1 .. MaxDelay -> {f}
          [] OTHER -> UNION {IF Kinds[m] = "patrol" THEN Patrolled(At(d), m) ELSE Wandered(At(d), m)
                             : d \in Delays}

\* One after the other, until one of them has reached the player.
Turns(f) == FoldLeft(LAMBDA S, m : UNION {Turn(g, m) : g \in S}, {f}, [m \in Mobs |-> m])

\* Mutant of Rescheduled: the timers that ran out meanwhile stay as they are.
LeftOverdue(ms) == {ms}

\* rescheduleMovableMonsters: aware of the player or not.
Rescheduled(ms) ==
    {[m \in Mobs |-> IF ms[m].up /\ Kinds[m] \in {"patrol", "wander"}
                     THEN [ms[m] EXCEPT !.wait = d[m]] ELSE ms[m]] : d \in [Mobs -> Delays]}

-----------------------------------------------------------------------------
IdleInit ==
    /\ mobs = [m \in Mobs |-> [at |-> 2 * m, up |-> TRUE, aware |-> FALSE,
                               way |-> 1, left |-> 0, wait |-> Unset]]
    /\ hero = 1
    /\ scene = [at |-> "room", fight |-> FALSE, modal |-> FALSE]
    /\ halted = [fight |-> FALSE, modal |-> FALSE]
    /\ calm = MinDelay /\ stayed = FALSE /\ acted = <<>>

Passed(d) == [m \in Mobs |-> [mobs[m] EXCEPT !.wait = IF @ \in {Unset, 0} THEN @ ELSE @ - d]]

\* The frame only looks at the flags and at the clock.
Skips(ms) == mobs' = ms /\ acted' = <<>> /\ UNCHANGED scene

\* updateMonsterIdleBehavior, d later than the frame before.
Frame(d) ==
    LET ms == Passed(d)
        seen == scene.fight \/ (scene.modal /\ scene.at # "town" /\ ~halted.fight)
        Halt(flag) == halted' = [halted EXCEPT ![flag] = TRUE] /\ Skips(ms)
        Resume(flag) ==
            /\ halted' = [halted EXCEPT ![flag] = FALSE]
            /\ \E r \in IF scene.at = "room" THEN Rescheduled(ms) ELSE {ms} : Skips(r)
        Act == \E f \in Turns([ms |-> ms, fight |-> FALSE, acts |-> <<>>]) :
                  /\ mobs' = f.ms /\ acted' = f.acts
                  /\ scene' = [scene EXCEPT !.fight = f.fight]
                  /\ halted' = [halted EXCEPT !.fight = f.fight]
    IN  /\ calm' = IF seen THEN 0 ELSE IF calm + d > MinDelay THEN MinDelay ELSE calm + d
        /\ stayed' = (stayed \/ (seen /\ scene.at = "room"))
        /\ UNCHANGED hero
        /\ IF scene.fight THEN Halt("fight")
           ELSE IF scene.at = "town" THEN UNCHANGED halted /\ Skips(ms)
           ELSE IF halted.fight THEN Resume("fight")
           ELSE IF scene.modal THEN Halt("modal")
           ELSE IF halted.modal THEN Resume("modal")
           ELSE IF hero = 0 THEN UNCHANGED halted /\ Skips(ms)
           ELSE Act

\* Between two frames nothing idle happens.
Elsewhere == acted' = <<>> /\ UNCHANGED <<halted, calm>>

\* tryMovePlayer while exploring
Walk ==
    /\ hero # 0 /\ ~scene.fight /\ ~scene.modal
    /\ \E w \in Ways : /\ hero + w \in 1 .. Cells /\ hero + w \notin Taken(mobs, 0)
                       /\ hero' = hero + w
    /\ Elsewhere /\ UNCHANGED <<mobs, scene, stayed>>

\* openMenu and closeMenu, and the other screens of explorationIsModal.
Toggle ==
    /\ scene' = [scene EXCEPT !.modal = ~@]
    /\ Elsewhere /\ UNCHANGED <<mobs, hero, stayed>>

\* updateAwareness, and checkReinforcementAwareness in a fight that is on.
Notice(m) ==
    /\ hero # 0 /\ m \in Hostile /\ mobs[m].up /\ ~mobs[m].aware
    /\ mobs' = [mobs EXCEPT ![m].aware = TRUE]
    /\ scene' = [scene EXCEPT !.fight = TRUE]
    /\ Elsewhere /\ UNCHANGED <<hero, stayed>>

\* tryMovePlayer into a monster that was not revealed, hostile or not.
Bump(m) ==
    /\ hero # 0 /\ ~scene.fight /\ ~scene.modal
    /\ mobs[m].up /\ mobs[m].at - hero \in Ways
    /\ mobs' = [mobs EXCEPT ![m].aware = TRUE]
    /\ scene' = [scene EXCEPT !.fight = TRUE]
    /\ Elsewhere /\ UNCHANGED <<hero, stayed>>

\* What fell acts no more, so where and when is left out.
Fallen == [at |-> 0, up |-> FALSE, aware |-> TRUE, way |-> 1, left |-> 0, wait |-> Unset]

\* endCombat: some fell, or the player did.
EndCombat ==
    /\ scene.fight
    /\ scene' = [scene EXCEPT !.fight = FALSE]
    /\ \/ /\ \E D \in SUBSET {m \in Mobs : mobs[m].aware} :
               mobs' = [m \in Mobs |-> IF m \in D THEN Fallen ELSE mobs[m]]
          /\ UNCHANGED hero
       \/ hero' = 0 /\ UNCHANGED mobs
    /\ Elsewhere /\ UNCHANGED stayed

\* Out by a menu to the town, or by a door to the next room.
Leave ==
    /\ scene.at = "room" /\ ~scene.fight
    /\ \E p \in {"town", "next"} :
          /\ p = "next" => hero = Cells /\ ~scene.modal
          /\ scene' = [scene EXCEPT !.at = p, !.modal = FALSE]
    /\ hero' = 0
    /\ Elsewhere /\ UNCHANGED <<mobs, stayed>>

\* Back on a free cell: the entry, or where the way from the town leads.
Return ==
    /\ scene.at # "room" /\ ~scene.fight
    /\ \E c \in 1 .. Cells \ Taken(mobs, 0) : hero' = c
    /\ scene' = [scene EXCEPT !.at = "room", !.modal = FALSE]
    /\ stayed' = FALSE
    /\ Elsewhere /\ UNCHANGED mobs

IdleNext ==
    \/ \E d \in {0, 1} : Frame(d)
    \/ Walk
    \/ Toggle
    \/ \E m \in Mobs : Notice(m) \/ Bump(m)
    \/ EndCombat
    \/ Leave
    \/ Return

-----------------------------------------------------------------------------
\* Nobody moves at once when a fight or a screen ends, however long it took:
\* the monsters of a room the player has stayed in wait for a whole delay
\* (rescheduleMovableMonsters).  And when one of them reaches the player, no
\* other finishes a step in that frame.
IdleInTurn ==
    /\ acted # <<>> /\ stayed => calm >= MinDelay
    /\ \A i \in DOMAIN acted : acted[i][2] = "contact" => i = Len(acted) /\ scene.fight
    /\ \A m, k \in Mobs : m # k /\ mobs[m].up /\ mobs[k].up => mobs[m].at # mobs[k].at
=============================================================================
