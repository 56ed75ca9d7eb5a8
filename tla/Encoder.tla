------------------------------- MODULE Encoder -------------------------------
(***************************************************************************)
(* The rotary encoder of a handheld (src/src/input/encoderdecoder.h).  Its *)
(* two contacts open and close in turn, four quarters from one rest to the *)
(* next; a screen that polls sees them as they are at that moment.  The    *)
(* shaft may have gone on by two quarters since, to and fro, while another *)
(* screen did not ask, or a contact bounced; faster turns are left out, as *)
(* three quarters on look like one quarter back.                           *)
(***************************************************************************)
EXTENDS Integers

CONSTANTS
    Ends,         \* bound: the shaft turns this many quarters either way
    PerDetent     \* QUADRATURE_TRANSITIONS_PER_DETENT

VARIABLES
    shaft,        \* where the shaft is, in quarters
    phase,        \* previousPhase: the contacts <<CLK, DT>> at the last poll
    total,        \* transitionTotal
    step,         \* what the last poll returned
    origin        \* history: the shaft at the last step, skip or reset

encoderVars == <<shaft, phase, total, step, origin>>

\* The Gray code of the contacts, DT before CLK when the shaft goes up.
Contacts(q) == << <<1, 1>>, <<1, 0>>, <<0, 0>>, <<0, 1>> >>[(q % 4) + 1]
Successor(p) == CHOOSE q \in {0, 1} \X {0, 1} :
                   \E n \in 0 .. 3 : Contacts(n) = p /\ Contacts(n + 1) = q

\* transitionTable: a quarter forth, a quarter back, or nothing to tell.
Transition(old, new) ==
    IF new = Successor(old) THEN 1 ELSE IF old = Successor(new) THEN -1 ELSE 0

\* Both contacts have changed.
Skipped(old, new) == old # new /\ Transition(old, new) = 0

EncoderInit ==
    shaft = 0 /\ phase = Contacts(0) /\ total = 0 /\ step = 0 /\ origin = 0

\* resetQuadratureDecoder: a screen opens.
ResetEncoder ==
    /\ phase' = Contacts(shaft) /\ total' = 0 /\ step' = 0 /\ origin' = shaft
    /\ UNCHANGED shaft

\* updateQuadratureDecoder, after the shaft has turned.
PollEncoder ==
    \E to \in {s \in -Ends .. Ends : s - shaft \in -2 .. 2} :
        LET now == Contacts(to)
            sum == total + Transition(phase, now)
            whole == ~Skipped(phase, now) /\ sum \in {PerDetent, -PerDetent}
        IN  /\ shaft' = to /\ phase' = now
            /\ total' = IF whole \/ Skipped(phase, now) THEN 0 ELSE sum
            /\ step' = IF whole THEN sum \div PerDetent ELSE 0
            /\ origin' = IF Skipped(phase, now) THEN to ELSE IF step # 0 THEN shaft ELSE origin

EncoderNext == ResetEncoder \/ PollEncoder

-----------------------------------------------------------------------------
\* Every step that a screen is told is a whole detent in that direction, seen
\* quarter by quarter since the last step, skip or reset, whatever bounces to
\* and fro lay between; and no whole detent that was seen goes untold.
StepsAreTurns ==
    IF step # 0 THEN shaft - origin = PerDetent * step
    ELSE shaft - origin \in 1 - PerDetent .. PerDetent - 1
=============================================================================
