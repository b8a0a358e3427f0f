----------------------- MODULE FlightControllerProofs -----------------------
(***************************************************************************)
(* Proofs about FlightController for every length of the arming gesture    *)
(* and of the calibration delay from two loops up, and for every set of    *)
(* pulses the receiver can measure.                                        *)
(***************************************************************************)
EXTENDS FlightController, TLAPS

(* What the receiver's scaling does to a 16-bit pulse.                      *)
LEMMA Scaling ==
  ASSUME NEW p, Between(p, 0, 65535), Between(centre, -32768, 32767)
  PROVE  /\ Between(XAbs(p), 0, 32768)
         /\ Between(Scale0To1024(p), 0, 31618)
         /\ Between(ScaleMinus512To512(p), -32768, 32767)
         /\ Between(Signed(XAbs(p)), -32768, 32767)
<1> USE DEF Between
<1>1. Between(XAbs(p), 0, 32768)
  BY DEF XAbs
<1>2. Between(Scale0To1024(p), 0, 31618)
  BY <1>1 DEF Scale0To1024
<1>3. ASSUME NEW x \in Int, 0 <= x, x < 65536
      PROVE  Between(Signed(x), -32768, 32767)
  BY <1>3 DEF Signed
<1>4. Between((XAbs(p) - centre) % 65536, 0, 65535)
  BY <1>1
<1> QED BY <1>1, <1>2, <1>3, <1>4 DEF ScaleMinus512To512

(* The start-up code only ever takes a plausible centre.                    *)
LEMMA SavedPlausible ==
  ASSUME Between(centreHigh, 0, 255), Between(centreLow, 0, 255)
  PROVE  SavedCentre \in Int /\ Plausible(SavedCentre)
BY DEF SavedCentre, Plausible, Signed, Between

(* The registers and counters, without the flags.                           *)
LEMMA NumbersCorrect == NumbersOK /\ [Next]_vars => NumbersOK'
<1> SUFFICES ASSUME NumbersOK, [Next]_vars PROVE NumbersOK'
  OBVIOUS
<1> USE LoopsAssumption
<1> USE DEF NumbersOK, States, LoopStates, eeprom, receiver, arming, gyros, outputs
<1>1. CASE Reset
  <2>1. Between(0, -32768, 32767) /\ Between(0, 0, 31618)
    BY DEF Between
  <2> QED BY <1>1, <2>1 DEF Reset
<1>2. CASE Boot
  <2>1. Between(SavedCentre, -32768, 32767)
    BY SavedPlausible DEF Plausible, Between
  <2> QED BY <1>2, <2>1 DEF Boot
<1>3. CASE Reverse
  BY <1>3 DEF Reverse
<1>4. CASE CalibrateEsc
  <2>1. PICK p \in CollectivePulses : collective' = Scale0To1024(p)
    BY <1>4 DEF CalibrateEsc
  <2>2. Between(collective', 0, 31618)
    BY <2>1, PulsesAssumption, Scaling
  <2> QED BY <1>4, <2>2 DEF CalibrateEsc
<1>5. CASE Learn
  <2>1. PICK p \in YawPulses : /\ yaw' = Signed(XAbs(p))
                               /\ centre' = yaw'
                               /\ centreHigh' = XAbs(p) \div 256
                               /\ learned' = learned \cup {yaw'}
    BY <1>5 DEF Learn
  <2>2. Between(XAbs(p), 0, 32768) /\ Between(yaw', -32768, 32767)
    BY <2>1, PulsesAssumption, Scaling
  <2>3. Between(centreHigh', 0, 255)
    BY <2>1, <2>2 DEF Between
  <2> QED BY <1>5, <2>1, <2>2, <2>3 DEF Learn
<1>6. CASE SaveLow
  <2>1. Between(centre % 256, 0, 255)
    BY DEF Between
  <2> QED BY <1>6, <2>1 DEF SaveLow
<1>7. CASE Blink
  BY <1>7 DEF Blink
<1>8. CASE RxGetChannels
  <2>1. PICK c \in CollectivePulses, y \in YawPulses :
           collective' = Scale0To1024(c) /\ yaw' = ScaleMinus512To512(y)
    BY <1>8 DEF RxGetChannels
  <2>2. Between(collective', 0, 31618) /\ Between(yaw', -32768, 32767)
    BY <2>1, PulsesAssumption, Scaling
  <2> QED BY <1>8, <2>2 DEF RxGetChannels
<1>9. CASE Arming
  <2>1. CASE CountDisarm \/ CountArm
    BY <2>1 DEF CountDisarm, CountArm, AfterArming
  <2>2. CASE Disarm \/ Arm \/ StickIdle
    BY <2>2 DEF Disarm, Arm, StickIdle, AfterArming, ClearCounters
  <2> QED BY <1>9, <2>1, <2>2 DEF Arming
<1>10. CASE Calibration
  <2>1. DelayNext \in 0..(DelayLoops - 1)
    BY DEF DelayNext
  <2> QED BY <1>10, <2>1 DEF Calibration, AfterCalibration, DelayCalibration, CalibrateGyro,
                             SkipCalibration
<1>11. CASE Output
  <2>1. Rested \in 0..(DelayLoops - 1)
    BY DEF Rested
  <2>2. rest' \in 0..(DelayLoops - 1) /\ integral' \in {"unset", "clear", "grown"}
    BY <1>11, <2>1 DEF Output
  <2>3. pc' = "read" /\ UNCHANGED <<eeprom, centre, receiver, armCount, disarmCount, delay, learned>>
    BY <1>11 DEF Output
  <2> QED BY <2>2, <2>3
<1>12. CASE UNCHANGED vars
  BY <1>12 DEF vars
<1> QED BY <1>1, <1>2, <1>3, <1>4, <1>5, <1>6, <1>7, <1>8, <1>9, <1>10, <1>11, <1>12
        DEF Next, Firmware, Service, MainLoop

(* Every register, flag and counter keeps its type: in particular the arming *)
(* counters never pass the number of loops they are compared with, which    *)
(* they are only compared with for equality.                                *)
THEOREM TypeCorrect == Spec => []TypeOK
<1>1. Init => TypeOK
  <2>1. Init => NumbersOK
    BY LoopsAssumption DEF Init, Start, NumbersOK, Between, States, LoopStates
  <2>2. Init => FlagsOK
    <3>1. Init => /\ armed = FALSE /\ calibrated = FALSE
                  /\ led = FALSE /\ motors = FALSE
      BY Zenon DEF Init, Start
    <3> QED BY <3>1, Zenon DEF FlagsOK
  <2> QED BY <2>1, <2>2 DEF TypeOK
<1>2. TypeOK /\ [Next]_vars => TypeOK'
  <2> SUFFICES ASSUME FlagsOK, [Next]_vars PROVE FlagsOK'
    BY NumbersCorrect DEF TypeOK
  <2> USE DEF FlagsOK, arming, gyros, outputs
  <2>1. CASE Reset \/ Boot
    BY <2>1 DEF Reset, Boot
  <2>2. CASE Service
    <3>1. CASE Reverse \/ Learn \/ SaveLow \/ Blink
      <4>1. CASE Blink
        BY <4>1 DEF Blink
      <4>2. CASE Reverse \/ Learn \/ SaveLow
        <5>1. UNCHANGED <<armed, calibrated, led, motors>>
          BY <4>2 DEF Reverse, Learn, SaveLow
        <5> QED BY <5>1
      <4> QED BY <3>1, <4>1, <4>2
    <3>2. CASE CalibrateEsc
      <4>1. PICK pulse \in CollectivePulses : motors' = (Scale0To1024(pulse) >= 4)
        BY <3>2 DEF CalibrateEsc
      <4>2. UNCHANGED <<armed, calibrated, led>>
        BY <3>2 DEF CalibrateEsc
      <4> QED BY <4>1, <4>2
    <3> QED BY <2>2, <3>1, <3>2 DEF Service
  <2>3. CASE RxGetChannels \/ Calibration
    BY <2>3 DEF RxGetChannels, Calibration, AfterCalibration, DelayCalibration, CalibrateGyro,
                SkipCalibration
  <2>4. CASE Arming
    BY <2>4 DEF Arming, AfterArming, CountDisarm, Disarm, CountArm, Arm, StickIdle
  <2>5. CASE Output
    BY <2>5 DEF Output, MotorsOn
  <2>6. CASE UNCHANGED vars
    BY <2>6 DEF vars
  <2> QED BY <2>1, <2>2, <2>3, <2>4, <2>5, <2>6 DEF Next, Firmware, MainLoop
<1> QED BY <1>1, <1>2, PTL DEF Spec
----------------------------------------------------------------------------
(* The argument behind the promise: the motors run only while armed and     *)
(* calibrated; the loop in which either comes about has its collective at   *)
(* zero, so its output shows the LED and not yet the motors; and a loop     *)
(* with the collective up leaves no count of a gesture, so none can         *)
(* complete in the loop after it (this is where ArmLoops >= 2 is needed).   *)
NoCounts == armCount = 0 /\ disarmCount = 0

ArmingInv ==
    /\ pc \notin LoopStates => ~armed /\ ~calibrated
    /\ pc \notin LoopStates \cup {"esc"} => ~motors
    /\ pc = "boot" => ~led
    /\ calibrated => integral # "unset"
    /\ pc \in LoopStates /\ motors => armed /\ calibrated
    /\ pc \in {"read", "arm"} /\ armed /\ calibrated => led
    /\ pc \in {"calibrate", "output"} /\ ~CollectiveZero /\ armed /\ calibrated => led
    /\ pc \in {"read", "arm"} /\ motors => NoCounts
    /\ pc \in {"calibrate", "output"} /\ ~CollectiveZero => NoCounts

LEMMA ArmingInvariant == Spec => []ArmingInv
<1>1. Init => ArmingInv
  BY DEF Init, Start, ArmingInv, LoopStates
<1>2. TypeOK /\ ArmingInv /\ [Next]_vars => ArmingInv'
  <2> SUFFICES ASSUME TypeOK, ArmingInv, [Next]_vars PROVE ArmingInv'
    OBVIOUS
  <2> USE DEF ArmingInv, LoopStates, NoCounts, CollectiveZero, eeprom, receiver, arming, gyros,
              outputs
  <2>1. CASE Reset
    BY <2>1 DEF Reset
  <2>2. CASE Boot
    BY <2>2 DEF Boot
  <2>3. CASE Reverse \/ Learn \/ SaveLow \/ Blink
    BY <2>3 DEF Reverse, Learn, SaveLow, Blink
  <2>4. CASE CalibrateEsc
    BY <2>4 DEF CalibrateEsc
  <2>5. CASE RxGetChannels
    BY <2>5 DEF RxGetChannels
  <2>6. CASE CountDisarm \/ CountArm
    BY <2>6 DEF CountDisarm, CountArm, AfterArming, StickLeft, StickRight
  <2>7. CASE Disarm
    <3>1. disarmCount # 0
      BY <2>7, LoopsAssumption DEF Disarm
    <3>2. ~motors
      BY <2>7, <3>1 DEF Disarm, AfterArming
    <3> QED BY <2>7, <3>2 DEF Disarm, AfterArming, StickLeft, ClearCounters
  <2>8. CASE Arm
    BY <2>8 DEF Arm, AfterArming, StickRight, ClearCounters
  <2>9. CASE StickIdle
    BY <2>9 DEF StickIdle, AfterArming, ClearCounters
  <2>10. CASE DelayCalibration \/ CalibrateGyro \/ SkipCalibration
    BY <2>10 DEF DelayCalibration, CalibrateGyro, SkipCalibration, AfterCalibration
  <2>11. CASE Output
    BY <2>11 DEF Output, MotorsOn
  <2>12. CASE UNCHANGED vars
    BY <2>12 DEF vars
  <2> QED BY <2>1, <2>2, <2>3, <2>4, <2>5, <2>6, <2>7, <2>8, <2>9, <2>10, <2>11, <2>12
          DEF Next, Firmware, Service, MainLoop, Arming, Calibration
<1> QED BY <1>1, <1>2, TypeCorrect, PTL DEF Spec

(* The motors never run on I terms that were never initialised.             *)
THEOREM TermsInitialised == Spec => []NoRawIntegral
<1>1. ArmingInv => NoRawIntegral
  BY DEF ArmingInv, NoRawIntegral
<1> QED BY <1>1, ArmingInvariant, PTL

(* The firmware keeps the promise of the LED: every one of its steps is a   *)
(* step of ArmingPromise or leaves its stage alone.  In particular the      *)
(* motors start only out of a lit LED, and no step of the firmware leaves   *)
(* the armed state while they turn: only the power does.                    *)
THEOREM PromiseKept == Spec => ArmingKept
<1> USE DEF LoopStates
<1>1. Init => Promise!Init
  BY DEF Init, Start, Promise!Init, Stage
<1>2. ArmingInv /\ ArmingInv' /\ [Next]_vars => [Promise!Next]_Stage
  <2> SUFFICES ASSUME ArmingInv, ArmingInv', [Next]_vars, Stage' # Stage
               PROVE  Promise!Next
    OBVIOUS
  <2> USE DEF eeprom, receiver, arming, gyros, outputs, Promise!Next
  <2>1. CASE Reset
    BY <2>1 DEF Reset, Stage, Promise!PowerCut
  <2>2. CASE Boot
    BY <2>2 DEF Boot, Stage, ArmingInv, Promise!Bench, Promise!PowerUp
  <2>3. CASE Service
    BY <2>3 DEF Service, Reverse, CalibrateEsc, Learn, SaveLow, Blink, Stage
  <2>4. CASE RxGetChannels
    BY <2>4 DEF RxGetChannels, Stage
  <2>5. CASE Arming
    BY <2>5 DEF Arming, CountDisarm, Disarm, CountArm, Arm, StickIdle, AfterArming, Stage
  <2>6. CASE Calibration
    BY <2>6 DEF Calibration, DelayCalibration, CalibrateGyro, SkipCalibration, AfterCalibration,
                Stage
  <2>7. CASE Output
    <3>1. pc = "output" /\ pc' = "read"
      BY <2>7 DEF Output
    <3>2. motors => led'
      BY <2>7 DEF Output, ArmingInv
    <3>3. motors' => led
      BY <2>7 DEF Output, MotorsOn, ArmingInv
    <3>4. Stage = IF motors THEN "spinning" ELSE IF led THEN "ready" ELSE "safe"
      BY <3>1 DEF Stage
    <3>5. Stage' = IF motors' THEN "spinning" ELSE IF led' THEN "ready" ELSE "safe"
      BY <3>1 DEF Stage
    <3> HIDE DEF Stage
    <3> QED BY <3>2, <3>3, <3>4, <3>5
            DEF Promise!Warn, Promise!StandDown, Promise!TakeOff, Promise!Land
  <2>8. CASE UNCHANGED vars
    BY <2>8 DEF vars, Stage
  <2> QED BY <2>1, <2>2, <2>3, <2>4, <2>5, <2>6, <2>7, <2>8 DEF Next, Firmware, MainLoop
<1> QED BY <1>1, <1>2, ArmingInvariant, PTL DEF Spec, ArmingKept, Promise!Spec

----------------------------------------------------------------------------
(* The delay counter runs behind the rest: whenever the motors ran, the     *)
(* collective was up, and the counter was cleared in the same loop.         *)
RestInv ==
    /\ pc # "output" => delay <= rest
    /\ pc = "output" => delay <= rest + 1
    /\ pc = "output" /\ ~CollectiveZero => delay = 0

LEMMA RestInvariant == Spec => []RestInv
<1>1. Init => RestInv
  BY LoopsAssumption DEF Init, Start, RestInv
<1>2. NumbersOK /\ RestInv /\ [Next]_vars => RestInv'
  <2> SUFFICES ASSUME NumbersOK, RestInv, [Next]_vars PROVE RestInv'
    OBVIOUS
  <2> USE LoopsAssumption
  <2>0. delay \in 0..(DelayLoops - 1) /\ rest \in 0..(DelayLoops - 1)
    BY DEF NumbersOK
  <2> USE DEF RestInv, CollectiveZero, eeprom, receiver, arming, gyros, outputs
  <2>1. CASE Reset
    BY <2>1 DEF Reset
  <2>2. CASE Boot \/ RxGetChannels
    BY <2>2 DEF Boot, RxGetChannels
  <2>3. CASE Service
    BY <2>3 DEF Service, Reverse, CalibrateEsc, Learn, SaveLow, Blink
  <2>4. CASE Arming
    BY <2>4 DEF Arming, CountDisarm, Disarm, CountArm, Arm, StickIdle, AfterArming
  <2>5. CASE DelayCalibration
    <3>1. delay' = DelayNext /\ DelayNext <= delay + 1
      BY <2>0, <2>5 DEF DelayCalibration, DelayNext
    <3>2. pc = "calibrate" /\ pc' = "output" /\ rest' = rest /\ CollectiveZero'
      BY <2>5 DEF DelayCalibration, AfterCalibration
    <3>3. delay' <= rest' + 1
      BY <2>0, <3>1, <3>2 DEF DelayNext
    <3> QED BY <3>2, <3>3
  <2>6. CASE CalibrateGyro
    <3>1. delay = DelayLoops - 1
      BY <2>0, <2>6 DEF CalibrateGyro, DelayNext
    <3> QED BY <2>0, <2>6, <3>1 DEF CalibrateGyro, AfterCalibration
  <2>7. CASE SkipCalibration
    BY <2>0, <2>7 DEF SkipCalibration, AfterCalibration
  <2>8. CASE Output
    <3>1. pc = "output" /\ pc' = "read" /\ delay' = delay
      BY <2>8 DEF Output
    <3>2. delay <= rest'
      <4>1. CASE MotorsOn
        <5>1. delay = 0 /\ rest' = 0
          BY <2>8, <4>1 DEF Output, MotorsOn
        <5> QED BY <5>1
      <4>2. CASE ~MotorsOn
        <5>1. rest' = Rested
          BY <2>8, <4>2 DEF Output
        <5> QED BY <2>0, <3>1, <5>1 DEF Rested
      <4> QED BY <4>1, <4>2
    <3> QED BY <3>1, <3>2
  <2>9. CASE UNCHANGED vars
    BY <2>9 DEF vars
  <2> QED BY <2>1, <2>2, <2>3, <2>4, <2>5, <2>6, <2>7, <2>8, <2>9
          DEF Next, Firmware, MainLoop, Calibration
<1>3. TypeOK => NumbersOK
  BY DEF TypeOK
<1> QED BY <1>1, <1>2, <1>3, TypeCorrect, PTL DEF Spec

(* No calibration of the gyros before the motors have rested for the whole  *)
(* delay.                                                                   *)
THEOREM RestBeforeCalibration == Spec => CalibratesAtRest
<1>1. NumbersOK /\ RestInv /\ [Next]_vars => [CalibrateGyro => rest = DelayLoops - 1]_vars
  <2> SUFFICES ASSUME NumbersOK, RestInv, CalibrateGyro PROVE rest = DelayLoops - 1
    OBVIOUS
  <2>1. delay \in 0..(DelayLoops - 1) /\ rest \in 0..(DelayLoops - 1)
    BY DEF NumbersOK
  <2>2. delay <= rest /\ (delay + 1) % DelayLoops = 0
    BY DEF RestInv, CalibrateGyro, AfterCalibration, DelayNext
  <2> QED BY <2>1, <2>2, LoopsAssumption
<1>2. TypeOK => NumbersOK
  BY DEF TypeOK
<1> QED BY <1>1, <1>2, TypeCorrect, RestInvariant, PTL DEF Spec, CalibratesAtRest

----------------------------------------------------------------------------
(* The bytes of the EEPROM: a high byte and a low byte of two centres that  *)
(* may differ, or blanks.  Two plausible centres with different high bytes  *)
(* (5 and 6) put together leave the plausible range, so the start-up code   *)
(* falls back to 1500.                                                      *)
HighSaved == \E h \in learned : centreHigh = h \div 256
LowSaved  == centreLow = 255 \/ \E l \in learned : centreLow = l % 256
AllPlausible == \A c \in learned : Plausible(c)

CentreInv == AllPlausible =>
    /\ centre \in learned \cup {1500, 1535}
    /\ pc = "save" => centre \in learned /\ HighSaved
    /\ (centreHigh = 255 /\ centreLow = 255) \/ (HighSaved /\ LowSaved)

LEMMA TornCentre ==
  ASSUME NEW h \in Int, NEW l \in Int, Plausible(h), Plausible(l)
  PROVE  LET c == 256 * (h \div 256) + (l % 256)
         IN  Signed(c) = c /\ (Plausible(c) => c = l)
BY DEF Plausible, Signed

LEMMA HalfBlankCentre ==
  ASSUME NEW h \in Int, Plausible(h)
  PROVE  LET c == 256 * (h \div 256) + 255
         IN  Signed(c) = c /\ (Plausible(c) => c = 1535)
BY DEF Plausible, Signed

LEMMA SavedKnown ==
  ASSUME NumbersOK, AllPlausible,
         (centreHigh = 255 /\ centreLow = 255) \/ (HighSaved /\ LowSaved)
  PROVE  SavedCentre \in learned \cup {1500, 1535}
<1>0. \A c \in learned : c \in Int /\ Plausible(c)
  BY DEF NumbersOK, AllPlausible, Between
<1>1. CASE centreHigh = 255 /\ centreLow = 255
  BY <1>1 DEF SavedCentre, Signed, Plausible
<1>2. CASE HighSaved /\ LowSaved
  <2>1. PICK h \in learned : centreHigh = h \div 256
    BY <1>2 DEF HighSaved
  <2>2. CASE centreLow = 255
    BY <1>0, <2>1, <2>2, HalfBlankCentre DEF SavedCentre
  <2>3. ASSUME NEW l \in learned, centreLow = l % 256
        PROVE  SavedCentre \in learned \cup {1500, 1535}
    <3>1. h \in Int /\ Plausible(h) /\ l \in Int /\ Plausible(l)
      BY <1>0
    <3> DEFINE c == 256 * (h \div 256) + (l % 256)
    <3>2. Signed(c) = c /\ (Plausible(c) => c = l)
      BY <3>1, TornCentre
    <3>3. SavedCentre = IF Plausible(c) THEN c ELSE 1500
      BY <2>1, <2>3, <3>2 DEF SavedCentre
    <3> HIDE DEF c
    <3> QED BY <3>2, <3>3
  <2> QED BY <1>2, <2>2, <2>3 DEF LowSaved
<1> QED BY <1>1, <1>2

(* What a power cut leaves of a stick centre is never a third centre.       *)
THEOREM CentreNotInvented == Spec => []NoInventedCentre
<1>1. Init => CentreInv
  BY DEF Init, Start, CentreInv
<1>2. NumbersOK /\ CentreInv /\ [Next]_vars => CentreInv'
  <2> SUFFICES ASSUME NumbersOK, CentreInv, [Next]_vars, AllPlausible' PROVE CentreInv'
    BY DEF CentreInv
  <2>1. CASE Boot
    <3>1. CentreInv!2!3 /\ AllPlausible /\ UNCHANGED <<centreHigh, centreLow, learned>>
      BY <2>1 DEF Boot, eeprom, CentreInv, AllPlausible
    <3> QED BY <2>1, <3>1, SavedKnown DEF Boot, CentreInv, HighSaved, LowSaved
  <2>2. CASE Learn
    <3>1. PICK p \in YawPulses : /\ yaw' = Signed(XAbs(p))
                                 /\ centre' = yaw'
                                 /\ centreHigh' = XAbs(p) \div 256
                                 /\ learned' = learned \cup {yaw'}
      BY <2>2 DEF Learn
    <3>2. Between(XAbs(p), 0, 32768)
      BY PulsesAssumption, Scaling DEF NumbersOK
    <3>3. Plausible(yaw') /\ AllPlausible
      BY <3>1 DEF AllPlausible
    <3>4. yaw' = XAbs(p)
      BY <3>1, <3>2, <3>3 DEF Signed, Plausible, Between
    <3>5. HighSaved'
      BY <3>1, <3>4 DEF HighSaved
    <3>6. LowSaved'
      BY <2>2, <3>1, <3>3 DEF Learn, CentreInv, LowSaved
    <3> QED BY <3>1, <3>5, <3>6 DEF CentreInv
  <2>3. CASE SaveLow
    <3>1. centre \in learned /\ HighSaved /\ UNCHANGED <<centre, centreHigh, learned>>
      BY <2>3 DEF SaveLow, CentreInv, AllPlausible
    <3>2. HighSaved' /\ LowSaved' /\ pc' = "blink"
      BY <2>3, <3>1 DEF SaveLow, HighSaved, LowSaved
    <3> QED BY <3>1, <3>2 DEF CentreInv
  <2>4. CASE UNCHANGED <<eeprom, centre, learned>> /\ (pc' = "save" => pc = "save")
    BY <2>4 DEF CentreInv, HighSaved, LowSaved, AllPlausible, eeprom
  <2>5. CASE Reverse
    BY <2>5 DEF Reverse, CentreInv, HighSaved, LowSaved, AllPlausible
  <2>6. CASE Reset \/ CalibrateEsc \/ Blink \/ RxGetChannels \/ Output
    BY <2>4, <2>6 DEF Reset, CalibrateEsc, Blink, RxGetChannels, Output
  <2>7. CASE Arming
    BY <2>4, <2>7 DEF Arming, CountDisarm, Disarm, CountArm, Arm, StickIdle, AfterArming
  <2>8. CASE Calibration
    BY <2>4, <2>8 DEF Calibration, DelayCalibration, CalibrateGyro, SkipCalibration,
                      AfterCalibration
  <2>9. CASE UNCHANGED vars
    BY <2>4, <2>9 DEF vars
  <2> QED BY <2>1, <2>2, <2>3, <2>5, <2>6, <2>7, <2>8, <2>9
          DEF Next, Firmware, Service, MainLoop
<1>3. TypeOK => NumbersOK
  BY DEF TypeOK
<1>4. CentreInv => NoInventedCentre
  BY DEF CentreInv, NoInventedCentre, AllPlausible
<1> QED BY <1>1, <1>2, <1>3, <1>4, TypeCorrect, PTL DEF Spec
=============================================================================
