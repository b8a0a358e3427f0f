------------------------- MODULE MCFlightController -------------------------
(* Small instances of FlightController for TLC. *)
EXTENDS FlightController

\* Stick left, at two centres that differ in their high byte, and right.
MCYaw == {1100, 1500, 1540, 1900}
MCCollective == {1150, 1400}
=============================================================================
