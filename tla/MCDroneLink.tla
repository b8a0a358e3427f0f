---------------------------- MODULE MCDroneLink ----------------------------
(* A small instance of DroneLink for TLC. *)
EXTENDS DroneLink, TLC

\* Two of the thresholds, scaled down: one setting leaves two values in a queue of
\* either length; the other empties it at the lower one and goes beyond it at the
\* higher one.
MCSettings == {2 :> 0 @@ 3 :> 1, 2 :> 2 @@ 3 :> 4}
=============================================================================
