----------------------------- MODULE MCJoystick -----------------------------
(* A small instance of Joystick for TLC. *)
EXTENDS Joystick

\* Slow and full movements of the throttle, slow ones of yaw, full ones of the rest;
\* the odd positions are halfway between two whole ones.
MCPositions == [throttle |-> {0, -3, -7, -12, -200}, yaw |-> {0, 3, 7, 9, 12},
                pitch |-> {0, 200}, roll |-> {0, -200}]
=============================================================================
