--------------------------- MODULE MCDroneServer ---------------------------
(* Small instances of DroneServer for TLC. *)
EXTENDS DroneServer

CONSTANTS p1, p2, g1

MCPins == {0, 1, 2, 6}

\* A throttle above the floor of a descent and the other values at their middle, with
\* the pins of throttle and yaw exchanged in the settings
Hover(t) == [f \in Fields |-> CASE f = Throttle -> [pin |-> 1, val |-> t]
                                [] f = 1        -> [pin |-> 0, val |-> 50]
                                [] f = 2        -> [pin |-> 2, val |-> 50]
                                [] f = 3        -> [pin |-> 6, val |-> 50]]

\* The command after the application's reset: every value on pin 0, the throttle below
\* the floor
ResetCommand == [f \in Fields |-> [pin |-> 0, val |-> IF f = Throttle THEN 0 ELSE 50]]

MCCommands == {Hover(30), ResetCommand}

\* With a throttle from which a descent takes two steps
SurgeCommands == {Hover(35), ResetCommand}
=============================================================================
