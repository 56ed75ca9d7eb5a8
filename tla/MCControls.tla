----------------------------- MODULE MCControls -----------------------------
(* TLC instance of Controls alone. *)
EXTENDS Controls

MCSpec == ControlInit /\ [][ControlNext]_controlVars
=============================================================================
