------------------------------- MODULE Mixer -------------------------------
(***************************************************************************)
(* The part of the firmware's main loop that FlightController leaves out:  *)
(* gyros and sticks become corrections (a PI controller per axis), and the *)
(* corrections are mixed into four motor outputs, all in the wrapping 16.8 *)
(* arithmetic of Fixed168.  From FlightController it takes that the motors *)
(* run only after a calibration and that a calibration comes only while    *)
(* they do not (NoRawIntegral, CalibratesAtRest).                          *)
(***************************************************************************)
EXTENDS Fixed168

CONSTANTS
    Inputs,         \* per axis: <<gyro reading, RxIn value>> pairs of one loop
    Collectives,    \* values of RxInCollective
    RestSums,       \* per axis: sums of the 16 gyro readings of a calibration
    Pots,           \* readings of the three gain pots, reversed or not
    Garbage,        \* what RAM may hold at power-up
    Reversed        \* axes whose gyro is reversed in the EEPROM

Axes == {"roll", "pitch", "yaw"}
Motors == 1..4
Pot == {"P", "I", "yawP"}

\* Pulses of 500..2500 us around a centre of 1400..1600, from 10-bit gyros
ASSUME InputsAssumption ==
    /\ \A a \in Axes : \A in \in Inputs[a] :
          /\ in[1] \in Int /\ 0 <= in[1] /\ in[1] <= 1023
          /\ in[2] \in Int /\ -Whole(1100) <= in[2] /\ in[2] <= Whole(1100)
    /\ \A c \in Collectives : c \in Int /\ 0 <= c /\ c <= Whole(1350)

\* Anything the converter can give: calibrating checks nothing.
ASSUME RestAssumption ==
    \A a \in Axes : \A s \in RestSums[a] : s \in Int /\ 0 <= s /\ s <= 16 * 1023

ASSUME PotsAssumption == \A p \in Pots : p \in Int /\ 0 <= p /\ p <= 1023
ASSUME GarbageAssumption == \A g \in Garbage : g \in Int /\ -Half <= g /\ g < Half

ScaleGyro == 2
ScaleStick == 5
YawLimit == Whole(250)
I_TermLimit == Whole(250)
I_TermGainYaw == 51         \* 0.2
IdleLevel == 26214          \* 102.4
FullLevel == Whole(1023)

VARIABLES
    calibrated,     \* FlagGyroCalibrated
    zero,           \* GyroZero of each axis
    gain,           \* GainPotP, GainPotI, GainInYaw
    command,        \* CtrlCommand of each axis after the last loop
    integral,       \* the I term of each axis
    collective,     \* RxInCollective of the last loop
    on,             \* the motors were driven in the last loop
    pwm,            \* PWM1..PWM4, steps above the base pulse
    input           \* history: gyro reading and RxIn value of each axis in the last loop

vars == <<calibrated, zero, gain, command, integral, collective, on, pwm, input>>

Init ==
    /\ calibrated = FALSE
    /\ \E g \in Garbage : /\ zero = [a \in Axes |-> g] /\ gain = [p \in Pot |-> g]
                          /\ command = [a \in Axes |-> g] /\ integral = [a \in Axes |-> g]
    /\ collective = 0
    /\ on = FALSE /\ pwm = [m \in Motors |-> 0]
    /\ input = [a \in Axes |-> <<0, 0>>]

-----------------------------------------------------------------------------
\* ReadGainPots
GainOf(p, reading) == FDiv(Whole(reading), IF p = "I" THEN 11 ELSE 4)

Rest(sum) == FDiv(Whole(sum), 4)

\* 16 readings are added up and divided, the pots read, the I terms cleared.
Calibrate ==
    /\ ~on
    /\ calibrated' = TRUE
    /\ \E roll \in RestSums["roll"], pitch \in RestSums["pitch"], yaw \in RestSums["yaw"] :
          zero' = [roll |-> Rest(roll), pitch |-> Rest(pitch), yaw |-> Rest(yaw)]
    /\ \E r \in [Pot -> Pots] : gain' = [p \in Pot |-> GainOf(p, r[p])]
    /\ integral' = [a \in Axes |-> 0]
    /\ UNCHANGED <<command, collective, on, pwm, input>>

Rate(a, reading) == LET off == Sub(Whole(reading), zero[a])
                    IN  FDiv(IF a \in Reversed THEN Neg(off) ELSE off, ScaleGyro)

Error(a, in) == Add(Rate(a, in[1]), FDiv(in[2], ScaleStick))

\* Mutant: the limit works on one side only.
AccumulateOneSided(i, e) == LET sum == Add(i, e) IN IF sum >= I_TermLimit THEN I_TermLimit ELSE sum

\* Mutant: the limit is applied before the error is added.
AccumulateLate(i, e) == Add(Limited(i, I_TermLimit), e)

Accumulate(i, e) == Limited(Add(i, e), I_TermLimit)

\* P times the error plus I times the integral; the yaw is limited.
Command(a, e, i) ==
    IF a = "yaw"
      THEN Limited(Add(Mul(e, gain["yawP"]), Mul(i, I_TermGainYaw)), YawLimit)
      ELSE Add(Mul(e, gain["P"]), Mul(i, gain["I"]))

\* The side of each axis a motor is on
Side(a) == CASE a = "roll"  -> <<1, 1, -1, -1>>
             [] a = "pitch" -> <<1, -1, 1, -1>>
             [] a = "yaw"   -> <<-1, 1, 1, -1>>

\* Mutant: a motor's pitch has the wrong sign.
MixedCrossed(m, base, roll, pitch, yaw) ==
    Add(Add(Add(base, Side("roll")[m] * roll), -Side("pitch")[m] * pitch),
        Side("yaw")[m] * yaw)

Mixed(m, base, roll, pitch, yaw) ==
    Add(Add(Add(base, Side("roll")[m] * roll), Side("pitch")[m] * pitch),
        Side("yaw")[m] * yaw)

\* The idle level below, 1023 above, a quarter of it in steps of the pulse
Steps(output) ==
    LET raised == IF output >= IdleLevel THEN output ELSE IdleLevel
        capped == IF raised < FullLevel THEN raised ELSE FullLevel
    IN  FDiv(capped, 2) \div Unit

\* From reading the gyros to the end of the loop
Loop ==
    \E roll \in Inputs["roll"], pitch \in Inputs["pitch"], yaw \in Inputs["yaw"],
       c \in Collectives, armed \in BOOLEAN :
        /\ input' = [roll |-> roll, pitch |-> pitch, yaw |-> yaw]
        /\ integral' = [a \in Axes |-> Accumulate(integral[a], Error(a, input'[a]))]
        /\ command' = [a \in Axes |-> Command(a, Error(a, input'[a]), integral'[a])]
        /\ collective' = c
        /\ on' = (calibrated /\ armed /\ c >= Unit)
        /\ pwm' = [m \in Motors |->
                     IF on' THEN Steps(Mixed(m, c, command'["roll"], command'["pitch"],
                                             command'["yaw"]))
                            ELSE 0]
        /\ UNCHANGED <<calibrated, zero, gain>>

Next == Calibrate \/ Loop

Spec == Init /\ [][Next]_vars

-----------------------------------------------------------------------------
TypeOK ==
    /\ calibrated \in BOOLEAN /\ on \in BOOLEAN
    /\ zero \in [Axes -> Int] /\ gain \in [Pot -> Int]
    /\ command \in [Axes -> Int] /\ integral \in [Axes -> Int]
    /\ \A a \in Axes : calibrated =>
          -I_TermLimit <= integral[a] /\ integral[a] <= I_TermLimit
    /\ collective \in Int /\ 0 <= collective /\ collective <= Whole(1350)
    /\ pwm \in [Motors -> Int] /\ \A m \in Motors : 0 <= pwm[m] /\ pwm[m] <= 255

\* What a loop means to compute from a reading and a stick, and from the I term it
\* begins with, in numbers without a size
Deviation(a, in) ==
    LET off == Whole(in[1]) - zero[a]
    IN  FDiv(IF a \in Reversed THEN -off ELSE off, ScaleGyro) + FDiv(in[2], ScaleStick)

Gathered(a, in, i) == Limited(i + Deviation(a, in), I_TermLimit)

Correction(a, in, i) ==
    LET sum(p, g) == Product(Deviation(a, in), p) + Product(Gathered(a, in, i), g)
    IN  IF a = "yaw" THEN Limited(sum(gain["yawP"], I_TermGainYaw), YawLimit)
                     ELSE sum(gain["P"], gain["I"])

\* What this step means to compute
Wanted(a) == Correction(a, input'[a], integral[a])
Meant(m) == collective' + Side("roll")[m] * Wanted("roll") + Side("pitch")[m] * Wanted("pitch")
                        + Side("yaw")[m] * Wanted("yaw")

\* Every gyro rested at a reading of 200..823 when it was calibrated.
Centred == \A a \in Axes : Whole(200) <= zero[a] /\ zero[a] <= Whole(823)

(* No operation from a gyro's reading to the correction of its axis wraps,  *)
(* at any gain, stick and reading, and wherever the gyro rested: not the    *)
(* rate, the error or the I term, nor the two products and their sum        *)
(* (firmware lines 681-818).  Nor does the sum of the corrections, if every *)
(* gyro rested well inside the range of the converter: each motor gets the  *)
(* exact sum, computed from the readings, limited to the idle level and to  *)
(* full throttle (lines 689-848).  The firmware does not check where the    *)
(* gyros rest; at an end of the converter three full corrections do not fit *)
(* a register.                                                              *)
MixExact ==
    [][on' => /\ \A a \in Axes : command'[a] = Wanted(a)
              /\ Centred => \A m \in Motors : pwm'[m] = Steps(Meant(m))]_vars

(* A correction never drives the machine further over: of two motors at     *)
(* opposite ends of an arm, the one the roll and pitch corrections favour   *)
(* is never the slower one, saturated or not, from the same rest positions. *)
NoReversal ==
    [][on' /\ Centred =>
         /\ Wanted("roll") + Wanted("pitch") >= 0 => pwm'[1] >= pwm'[4]
         /\ Wanted("roll") + Wanted("pitch") <= 0 => pwm'[1] <= pwm'[4]
         /\ Wanted("roll") >= Wanted("pitch") => pwm'[2] >= pwm'[3]
         /\ Wanted("roll") <= Wanted("pitch") => pwm'[2] <= pwm'[3]]_vars
=============================================================================
