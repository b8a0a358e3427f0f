--------------------------- MODULE MCDroneClient ---------------------------
(* A small instance of DroneClient for TLC. *)
EXTENDS DroneClient

CONSTANTS c1, c2, c3, s1, s2, l1
=============================================================================
