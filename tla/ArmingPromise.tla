--------------------------- MODULE ArmingPromise ---------------------------
(***************************************************************************)
(* What the flight controller promises the person next to the propellers,  *)
(* in one variable: the motors never start out of a state in which the     *)
(* status LED was dark, and a flight ends armed or with the power: there   *)
(* is no step from "spinning" to "safe".  Throttle calibration of the      *)
(* speed controllers ("bench") is the one mode in which the throttle       *)
(* reaches the motors without arming; it is chosen at power-up, and only   *)
(* the power ends it.                                                      *)
(***************************************************************************)

VARIABLE stage

Stages == {"off", "safe", "ready", "spinning", "bench"}

Init == stage = "off"

PowerUp  == stage = "off" /\ stage' = "safe"
Bench    == stage = "off" /\ stage' = "bench"
Warn     == stage = "safe" /\ stage' = "ready"          \* the LED goes on
StandDown == stage = "ready" /\ stage' = "safe"          \* the LED goes off
TakeOff  == stage = "ready" /\ stage' = "spinning"
Land     == stage = "spinning" /\ stage' = "ready"
PowerCut == stage' = "off"

Next == PowerUp \/ Bench \/ Warn \/ StandDown \/ TakeOff \/ Land \/ PowerCut

Spec == Init /\ [][Next]_stage
=============================================================================
