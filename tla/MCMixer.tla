------------------------------ MODULE MCMixer ------------------------------
(* A small instance of Mixer for TLC.  Readings and sticks are at rest or at *)
(* full deflection, chosen so that the I terms take few values.  The roll   *)
(* gyro rests in the middle of the converter or at its end; the pitch gyro  *)
(* is reversed.                                                             *)
EXTENDS Mixer

MCInputs == [roll  |-> {<<512, 0>>, <<1023, Whole(1100)>>},
             pitch |-> {<<1, Whole(1100)>>, <<1023, -Whole(1100)>>},
             yaw   |-> {<<1, -Whole(1100)>>}]
MCCollectives == {0, Whole(1350)}
MCRestSums == [roll |-> {0, 16 * 512}, pitch |-> {16 * 512}, yaw |-> {16 * 512}]
MCPots == {5, 1023}
MCGarbage == {6560}             \* its products fit the 32 bits of TLC
=============================================================================
