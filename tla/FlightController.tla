-------------------------- MODULE FlightController --------------------------
(***************************************************************************)
(* The control flow of the flight controller firmware                      *)
(* KK_QuadX_V4_7_SS5_SC_M168.asm: power-up and its service modes, the      *)
(* EEPROM, and the main loop that reads the receiver, arms and disarms,    *)
(* calibrates the gyros and drives the motors.                             *)
(*                                                                         *)
(* The receiver interrupts keep the last pulse of every channel; the loop  *)
(* copies them once per iteration, so each copy may hold any pulse the     *)
(* transmitter can have sent by then, the previous one included (a lost    *)
(* signal repeats it forever).  Roll, pitch and the gyros only feed the    *)
(* mixer and are left out, as is the mixer's arithmetic: what is kept of   *)
(* the outputs is whether the motors are driven above the base pulse.      *)
(***************************************************************************)
EXTENDS Integers

CONSTANTS
    ArmLoops,           \* loops the yaw stick is held to arm or disarm (100)
    DelayLoops,         \* loops of zero collective before a calibration (256)
    CollectivePulses,   \* pulse widths of the collective channel, in us
    YawPulses,          \* pulse widths of the yaw channel, in us
    Reversers           \* the EEPROM bytes that reverse a gyro or the pots

ASSUME LoopsAssumption == /\ ArmLoops \in Nat /\ ArmLoops >= 2
                          /\ DelayLoops \in Nat /\ DelayLoops >= 2

Between(x, low, high) == x \in Int /\ low <= x /\ x <= high

ASSUME PulsesAssumption == \A pulse \in CollectivePulses \cup YawPulses : Between(pulse, 0, 65535)

VARIABLES
    pc,                     \* where the program is
    reversed,               \* EEPROM: the reversed directions
    centreHigh, centreLow,  \* EEPROM: the integer part of the saved stick centre
    centre,                 \* StickCentre
    collective, yaw,        \* RxInCollective and RxInYaw
    armed, calibrated,      \* FlagFcArmed and FlagGyroCalibrated
    armCount, disarmCount,  \* CounterFcArm and CounterFcDisarm
    delay,                  \* CalibrationDelayCounter
    integral,               \* the I terms: "unset" RAM, "clear" or "grown"
    led, motors,            \* the outputs: LED on, motors above the base pulse
    rest,                   \* history: loops since the motors last ran
    learned                 \* history: the stick centres ever being saved

eeprom   == <<reversed, centreHigh, centreLow>>
receiver == <<collective, yaw>>
arming   == <<armed, armCount, disarmCount>>
gyros    == <<calibrated, delay, integral>>
outputs  == <<led, motors, rest>>
vars == <<pc, eeprom, centre, receiver, arming, gyros, outputs, learned>>

----------------------------------------------------------------------------
(* Numbers of the receiver and the stick centre.                           *)

\* A 16-bit difference of timer values, made positive unless it is -2^15.
XAbs(pulse) == IF pulse < 32768 THEN pulse ELSE 65536 - pulse

Signed(x) == IF x < 32768 THEN x ELSE x - 65536

Scale0To1024(pulse) == IF XAbs(pulse) < 1150 THEN 0 ELSE XAbs(pulse) - 1150

\* The stick relative to its centre, in a signed 16-bit integer part.
ScaleMinus512To512(pulse) == Signed((XAbs(pulse) - centre) % 65536)

CollectiveZero == collective < 1

Plausible(c) == 1400 <= c /\ c < 1600

\* Mutant: any stick position passes for a centre.
SavedCentreLoose == LET c == Signed(256 * centreHigh + centreLow)
                    IN IF 1000 <= c /\ c < 2000 THEN c ELSE 1500

\* The stick centre the start-up code takes from the EEPROM.
SavedCentre == LET c == Signed(256 * centreHigh + centreLow)
               IN IF Plausible(c) THEN c ELSE 1500

----------------------------------------------------------------------------
LoopStates == {"read", "arm", "calibrate", "output"}
States == LoopStates \cup {"boot", "reverse", "esc", "learn", "save", "blink"}

\* RAM at reset: flags and counters cleared, the delay primed to expire at once.
Start ==
    /\ pc = "boot"
    /\ collective = 0 /\ yaw = 0
    /\ armed = FALSE /\ armCount = 0 /\ disarmCount = 0
    /\ calibrated = FALSE /\ delay = DelayLoops - 1 /\ integral = "unset"
    /\ led = FALSE /\ motors = FALSE /\ rest = DelayLoops - 1

Init == /\ Start
        /\ reversed = {}
        /\ centreHigh = 255 /\ centreLow = 255      \* a blank EEPROM
        /\ centre = 1500
        /\ learned = {}

\* A power cycle, at any moment: the EEPROM stays.
Reset ==
    /\ pc # "boot"
    /\ pc' = "boot"
    /\ collective' = 0 /\ yaw' = 0
    /\ armed' = FALSE /\ armCount' = 0 /\ disarmCount' = 0
    /\ calibrated' = FALSE /\ delay' = DelayLoops - 1 /\ integral' = "unset"
    /\ led' = FALSE /\ motors' = FALSE /\ rest' = DelayLoops - 1
    /\ UNCHANGED <<eeprom, centre, learned>>

\* The start-up code loads the stick centre and picks the mode from the pots.
Boot ==
    /\ pc = "boot"
    /\ centre' = SavedCentre
    /\ \/ pc' = "reverse" /\ led' = led             \* roll pot at zero
       \/ pc' = "learn"   /\ led' = led             \* roll and yaw pots at zero
       \/ pc' = "esc"     /\ led' = TRUE            \* yaw pot at zero
       \/ pc' = "read"    /\ led' = led
    /\ UNCHANGED <<eeprom, receiver, arming, gyros, motors, rest, learned>>

\* Gyro reversing: the stick that moves names the byte to reverse.
Reverse ==
    /\ pc = "reverse"
    /\ \E r \in Reversers :
          reversed' = IF r \in reversed THEN reversed \ {r} ELSE reversed \cup {r}
    /\ pc' = "blink"
    /\ UNCHANGED <<centreHigh, centreLow, centre, receiver, arming, gyros, outputs, learned>>

\* Speed controller calibration: the collective goes to the motors, unarmed.
CalibrateEsc ==
    /\ pc = "esc"
    /\ \E pulse \in CollectivePulses :
          /\ collective' = Scale0To1024(pulse)
          /\ motors' = (Scale0To1024(pulse) >= 4)    \* of 1024, in 256 PWM steps
    /\ UNCHANGED <<pc, eeprom, centre, yaw, arming, gyros, led, rest, learned>>

\* Stick centre learning: the unscaled yaw pulse, saved one byte at a time.
Learn ==
    /\ pc = "learn"
    /\ \E pulse \in YawPulses :
          /\ yaw' = Signed(XAbs(pulse))
          /\ centre' = yaw'
          /\ centreHigh' = XAbs(pulse) \div 256
          /\ learned' = learned \cup {yaw'}
    /\ pc' = "save"
    /\ UNCHANGED <<reversed, centreLow, collective, arming, gyros, outputs>>

SaveLow ==
    /\ pc = "save"
    /\ centreLow' = centre % 256
    /\ pc' = "blink"
    /\ UNCHANGED <<reversed, centreHigh, centre, receiver, arming, gyros, outputs, learned>>

\* The end of gyro reversing and of learning: blink until the power goes.
Blink ==
    /\ pc = "blink"
    /\ led' = ~led
    /\ UNCHANGED <<pc, eeprom, centre, receiver, arming, gyros, motors, rest, learned>>

----------------------------------------------------------------------------
(* The main loop.                                                          *)

RxGetChannels ==
    /\ pc = "read"
    /\ \E pulse \in CollectivePulses : collective' = Scale0To1024(pulse)
    /\ \E pulse \in YawPulses : yaw' = ScaleMinus512To512(pulse)
    /\ pc' = "arm"
    /\ UNCHANGED <<eeprom, centre, arming, gyros, outputs, learned>>

\* Mutant: the throttle is not looked at.
StickLeftAnyThrottle == yaw < -256

StickLeft == CollectiveZero /\ yaw < -256

StickRight == CollectiveZero /\ yaw >= 256

AfterArming ==
    /\ pc = "arm"
    /\ pc' = "calibrate"
    /\ UNCHANGED <<eeprom, centre, receiver, gyros, outputs, learned>>

ClearCounters == armCount' = 0 /\ disarmCount' = 0

CountDisarm ==
    /\ AfterArming
    /\ StickLeft /\ disarmCount + 1 # ArmLoops
    /\ disarmCount' = disarmCount + 1
    /\ UNCHANGED <<armed, armCount>>

Disarm ==
    /\ AfterArming
    /\ StickLeft /\ disarmCount + 1 = ArmLoops
    /\ armed' = FALSE
    /\ ClearCounters

\* Mutant: the count goes on through the code that clears the counters.
CountArmCleared ==
    /\ AfterArming
    /\ StickRight /\ armCount + 1 # ArmLoops
    /\ ClearCounters
    /\ UNCHANGED armed

CountArm ==
    /\ AfterArming
    /\ StickRight /\ armCount + 1 # ArmLoops
    /\ armCount' = armCount + 1
    /\ UNCHANGED <<armed, disarmCount>>

\* Mutant: arming leaves the counter where it is.
ArmUncleared ==
    /\ AfterArming
    /\ StickRight /\ armCount + 1 = ArmLoops
    /\ armed' = TRUE
    /\ armCount' = armCount + 1
    /\ UNCHANGED disarmCount

Arm ==
    /\ AfterArming
    /\ StickRight /\ armCount + 1 = ArmLoops
    /\ armed' = TRUE
    /\ ClearCounters

StickIdle ==
    /\ AfterArming
    /\ ~StickLeft /\ ~StickRight
    /\ ClearCounters
    /\ UNCHANGED armed

AfterCalibration ==
    /\ pc = "calibrate"
    /\ pc' = "output"
    /\ UNCHANGED <<eeprom, centre, receiver, arming, outputs, learned>>

\* The delay counter is a byte of which DelayLoops is the size.
DelayNext == (delay + 1) % DelayLoops

DelayCalibration ==
    /\ AfterCalibration
    /\ CollectiveZero /\ DelayNext # 0
    /\ delay' = DelayNext
    /\ UNCHANGED <<calibrated, integral>>

\* Once due, the calibration repeats in every loop until the collective rises.
CalibrateGyro ==
    /\ AfterCalibration
    /\ CollectiveZero /\ DelayNext = 0
    /\ calibrated' = TRUE
    /\ delay' = DelayLoops - 1
    /\ integral' = "clear"

\* Mutant: the delay is not reset while the collective is up.
SkipCalibrationKept ==
    /\ AfterCalibration
    /\ ~CollectiveZero
    /\ UNCHANGED <<calibrated, delay, integral>>

SkipCalibration ==
    /\ AfterCalibration
    /\ ~CollectiveZero
    /\ delay' = 0
    /\ UNCHANGED <<calibrated, integral>>

\* Mutant: calibration is not asked for.
MotorsOnArmed == armed /\ ~CollectiveZero

MotorsOn == calibrated /\ armed /\ ~CollectiveZero

\* The loops without the motors since they ran, counted as far as they matter.
Rested == IF rest = DelayLoops - 1 THEN rest ELSE rest + 1

\* The I terms grow whether the motors turn or not; on garbage they stay garbage.
Output ==
    /\ pc = "output"
    /\ pc' = "read"
    /\ integral' = IF integral = "unset" THEN "unset" ELSE "grown"
    /\ led' = (calibrated /\ armed)
    /\ motors' = MotorsOn
    /\ rest' = IF MotorsOn THEN 0 ELSE Rested
    /\ UNCHANGED <<eeprom, centre, receiver, arming, calibrated, delay, learned>>

----------------------------------------------------------------------------
Service == Reverse \/ CalibrateEsc \/ Learn \/ SaveLow \/ Blink
Arming == CountDisarm \/ Disarm \/ CountArm \/ Arm \/ StickIdle
Calibration == DelayCalibration \/ CalibrateGyro \/ SkipCalibration
MainLoop == RxGetChannels \/ Arming \/ Calibration \/ Output
Firmware == Boot \/ Service \/ MainLoop

Next == Firmware \/ Reset

Spec == Init /\ [][Next]_vars

\* The processor never stops: every wait in the firmware is a bounded delay.
FairSpec == Spec /\ WF_vars(Firmware)

----------------------------------------------------------------------------
NumbersOK ==
    /\ pc \in States
    /\ reversed \subseteq Reversers
    /\ Between(centreHigh, 0, 255) /\ Between(centreLow, 0, 255)
    /\ Between(centre, -32768, 32767)
    /\ Between(collective, 0, 31618) /\ Between(yaw, -32768, 32767)
    /\ armCount \in 0..(ArmLoops - 1) /\ disarmCount \in 0..(ArmLoops - 1)
    /\ delay \in 0..(DelayLoops - 1)
    /\ integral \in {"unset", "clear", "grown"}
    /\ rest \in 0..(DelayLoops - 1)
    /\ \A c \in learned : Between(c, -32768, 32767)

FlagsOK == /\ armed \in BOOLEAN /\ calibrated \in BOOLEAN
           /\ led \in BOOLEAN /\ motors \in BOOLEAN

(* Every register and flag keeps its type, and the counters of the loop     *)
(* stay below the number of loops they wait for.                            *)
TypeOK == NumbersOK /\ FlagsOK

(* Whatever the order of sticks, loops and power cycles, the motors only    *)
(* start in a loop that began with the LED on, and no gesture disarms the   *)
(* controller while they turn: the steps of the firmware are steps of the   *)
(* promise, and the power is off only where Reset has just put the program. *)
Stage == CASE pc = "boot"                  -> "off"
           [] pc = "esc"                   -> "bench"
           [] pc \in LoopStates /\ motors   -> "spinning"
           [] pc \in LoopStates /\ ~motors /\ led  -> "ready"
           [] OTHER                         -> "safe"

Promise == INSTANCE ArmingPromise WITH stage <- Stage

ArmingKept == Promise!Spec

(* The mixer never feeds the motors from I terms that are still the bytes   *)
(* the RAM came up with: nothing at start-up clears them, the first         *)
(* calibration does.                                                        *)
NoRawIntegral == motors /\ pc # "esc" => integral # "unset"

(* The zero of the gyros is never taken while the machine may still be in   *)
(* the air: a calibration comes only after the whole delay without motors.  *)
CalibratesAtRest == [][CalibrateGyro => rest = DelayLoops - 1]_vars

(* A power cut between the two bytes of a stick centre invents no centre:   *)
(* when every centre ever learned is plausible, the one in use is one of    *)
(* them, the default 1500, or the 1535 of a high byte 5 over a blank low    *)
(* byte.                                                                    *)
NoInventedCentre == (\A c \in learned : Plausible(c)) => centre \in learned \cup {1500, 1535}

(* Holding the yaw stick right with the throttle down arms the controller   *)
(* and lights the LED, whatever counts earlier stick moves left behind.     *)
HoldToArm == <>[](pc \in LoopStates /\ StickRight) => <>[]led
=============================================================================
