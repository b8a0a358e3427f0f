------------------------------ MODULE Joystick ------------------------------
(***************************************************************************)
(* From the joystick to the servos: the values the Android application     *)
(* holds (DroneValues.java), the events of the gamepad that change them    *)
(* (processJoystickInput in DroneViewActivity.java), the pins from its     *)
(* settings, and the string of four "pin=v%" it queues for the server.     *)
(*                                                                         *)
(* A stick is read as a fraction and stored as a whole number, so its      *)
(* positions are counted in half points here; a percentage is counted in   *)
(* quarters, because an axis moves through 0..100 at half the speed of its *)
(* stick.  The connection itself is the module DroneClient: here it is on  *)
(* or off.                                                                 *)
(***************************************************************************)
EXTENDS Integers

CONSTANT Positions      \* the positions of each stick axis, in half points

Axes == {"throttle", "yaw", "pitch", "roll"}

ASSUME PositionsAssumption ==
    \A a \in Axes : \A v \in Positions[a] : v \in Int /\ -200 <= v /\ v <= 200

VARIABLES
    held,           \* droneValues: the value of each axis, in quarter percents
    pin,            \* droneValues: the servo of each axis
    stick,          \* where the last event saw each stick axis
    dpad,           \* the last event had a D-pad button pressed
    connected       \* socketConnection

vars == <<held, pin, stick, dpad, connected>>

\* The pins that initializeSettingsValues reads when nothing else is configured
SettingsPin == [throttle |-> 0, yaw |-> 1, pitch |-> 2, roll |-> 6]

\* new DroneValues()
Centred == [throttle |-> 0, yaw |-> 200, pitch |-> 200, roll |-> 200]
NoPins == [a \in Axes |-> 0]

\* setInitializationValues: the gesture that arms the flight controller
ArmingValues == [throttle |-> 0, yaw |-> 400, pitch |-> 200, roll |-> 200]

Init == /\ held = Centred /\ pin = SettingsPin
        /\ stick = [a \in Axes |-> 0]
        /\ dpad = FALSE /\ connected = FALSE

\* getCalibratedThrottleValue: pushed forward is negative, 70 % at most
CalibratedThrottle(v) == 2 * (IF v >= 0 THEN 0 ELSE IF v <= -140 THEN 140 ELSE -v)

\* Mutant: the throttle is not capped.
CalibratedUncapped(a, v) ==
    IF a = "throttle" THEN IF v >= 0 THEN 0 ELSE -2 * v ELSE 200 + v

\* ... and getCalibratedHorizontalGenericValue, the same for vertical: 50 + v/2
Calibrated(a, v) == IF a = "throttle" THEN CalibratedThrottle(v) ELSE 200 + v

Apart(x, y) == IF x < y THEN y - x ELSE x - y

\* Two percent
Threshold == 8

\* NumberFormat: n parts to a whole, rounded half to even
Rounded(x, n) ==
    LET down == x \div n
        rest == 2 * (x % n)
    IN IF rest > n \/ (rest = n /\ down % 2 = 1) THEN down + 1 ELSE down

\* What the setters are given: the stick, formatted as a whole number.
Stored(a, v) == Calibrated(a, 2 * Rounded(v, 2))

\* Mutant: a movement counts from where the stick was, not from what is held.
FollowedStepwise(new) ==
    [a \in Axes |-> IF Apart(Calibrated(a, stick[a]), Calibrated(a, new[a])) >= Threshold
                      THEN Stored(a, new[a]) ELSE held[a]]

\* An axis takes the new position, rounded, when it is two percent away from what
\* it holds.
Followed(new) ==
    [a \in Axes |-> IF Apart(held[a], Calibrated(a, new[a])) >= Threshold
                      THEN Stored(a, new[a]) ELSE held[a]]

\* An event without a D-pad button
Stick(new) ==
    /\ held' = Followed(new)
    /\ stick' = new
    /\ dpad' = FALSE
    /\ UNCHANGED <<pin, connected>>

\* An event with the D-pad pressed: the sticks are not looked at.
DPad(new) == stick' = new /\ dpad' = TRUE

DPadUp(new) ==          \* initialise the flight controller
    /\ DPad(new)
    /\ held' = IF connected THEN ArmingValues ELSE held
    /\ UNCHANGED <<pin, connected>>

\* Reset of the values: a new object, which has not been given its pins.
DPadDown(new) ==
    /\ DPad(new)
    /\ held' = IF connected THEN Centred ELSE held
    /\ pin' = IF connected THEN NoPins ELSE pin
    /\ UNCHANGED connected

DPadSide(new) == DPad(new) /\ UNCHANGED <<held, pin, connected>>

\* The user saves another number for a pin and, here, the usual one again.
SavePin(a) ==
    /\ pin' = [pin EXCEPT ![a] = SettingsPin[a]]
    /\ UNCHANGED <<held, stick, dpad, connected>>

\* DroneClient at work
Link == connected' = ~connected /\ UNCHANGED <<held, pin, stick, dpad>>

Event(new) == Stick(new) \/ DPadUp(new) \/ DPadDown(new) \/ DPadSide(new)

Next ==
    \/ \E a \in Axes : \E v \in Positions[a] : Event([stick EXCEPT ![a] = v])
    \/ \E a \in Axes : SavePin(a)
    \/ Link

Spec == Init /\ [][Next]_vars

----------------------------------------------------------------------------
\* getValuesSocketString: whole percents; the value behind the roll pin is the pitch.
Percent(a) == Rounded(held[a], 4)
Message == << <<pin["throttle"], Percent("throttle")>>,
              <<pin["yaw"],      Percent("yaw")>>,
              <<pin["pitch"],    Percent("pitch")>>,
              <<pin["roll"],     Percent("pitch")>> >>

\* The server writes the four values in order: what the servo p is left with.
LeftOn(p) == LET last == CHOOSE i \in 1..4 : /\ Message[i][1] = p
                                             /\ \A j \in (i + 1)..4 : Message[j][1] # p
             IN Message[last][2]

HeldOK ==
    /\ held \in [Axes -> Int] /\ stick \in [Axes -> Int]
    /\ \A a \in Axes : /\ 0 <= held[a] /\ held[a] <= IF a = "throttle" THEN 280 ELSE 400
                      /\ -200 <= stick[a] /\ stick[a] <= 200

(* Every axis stays in its range: the throttle in 0..70 percent, the others *)
(* in 0..100, whatever the sequence of events.                              *)
TypeOK ==
    /\ HeldOK
    /\ pin \in [Axes -> {0, 1, 2, 6}]
    /\ dpad \in BOOLEAN /\ connected \in BOOLEAN

(* However slowly a stick creeps, what the application holds for an axis is *)
(* less than two percent from where its stick is, once an event without the *)
(* D-pad has been handled: movements below the threshold do not add up, and *)
(* neither does the rounding of what is stored.  The whole percents that    *)
(* the next message has of it are at most half a percent further off; the   *)
(* roll is left out of that, since the message has the pitch in its place.  *)
NoCreep ==
    ~dpad => \A a \in Axes :
        /\ Apart(held[a], Calibrated(a, stick[a])) < Threshold
        /\ a # "roll" => Apart(4 * Percent(a), Calibrated(a, stick[a])) < Threshold + 2

(* "D-PAD DOL // RESET WARTOSCI" (DroneViewActivity.java:346): after a      *)
(* reset of the values the throttle servo is told the throttle of the       *)
(* reset, zero.                                                             *)
ResetStopsThrottle ==
    connected /\ held = Centred => LeftOn(SettingsPin["throttle"]) = 0
=============================================================================
