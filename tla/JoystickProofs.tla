--------------------------- MODULE JoystickProofs ---------------------------
(* Proofs about Joystick for every set of stick positions. *)
EXTENDS Joystick, TLAPS

LEMMA CalibratedRange ==
  ASSUME NEW a \in Axes, NEW v \in Int, -200 <= v, v <= 200
  PROVE  /\ Calibrated(a, v) \in Int
         /\ 0 <= Calibrated(a, v)
         /\ Calibrated(a, v) <= IF a = "throttle" THEN 280 ELSE 400
BY DEF Calibrated, CalibratedThrottle

(* Rounding moves a value by at most half of a whole.                       *)
LEMMA RoundedNear ==
  ASSUME NEW x \in Int
  PROVE  /\ Rounded(x, 2) \in Int /\ Rounded(x, 4) \in Int
         /\ 2 * Rounded(x, 2) - x <= 1 /\ x - 2 * Rounded(x, 2) <= 1
         /\ 4 * Rounded(x, 4) - x <= 2 /\ x - 4 * Rounded(x, 4) <= 2
BY DEF Rounded

(* What is stored of a stick is at most half a percent from where it is.    *)
LEMMA StoredNear ==
  ASSUME NEW a \in Axes, NEW v \in Int, -200 <= v, v <= 200
  PROVE  /\ Stored(a, v) \in Int
         /\ 0 <= Stored(a, v) /\ Stored(a, v) <= IF a = "throttle" THEN 280 ELSE 400
         /\ Apart(Stored(a, v), Calibrated(a, v)) <= 2
<1> DEFINE whole == 2 * Rounded(v, 2)
<1>1. whole \in Int /\ whole - v <= 1 /\ v - whole <= 1
  BY RoundedNear
<1>2. -200 <= whole /\ whole <= 200
  BY RoundedNear
<1> HIDE DEF whole
<1>3. Stored(a, v) = Calibrated(a, whole)
  BY DEF Stored, whole
<1>4. Apart(Calibrated(a, whole), Calibrated(a, v)) <= 2
  BY <1>1, <1>2 DEF Apart, Calibrated, CalibratedThrottle
<1> QED BY <1>1, <1>2, <1>3, <1>4, CalibratedRange

(* Whatever the events, no axis leaves its range.                           *)
THEOREM TypeCorrect == Spec => []TypeOK
<1>1. Init => TypeOK
  <2>1. /\ Centred \in [Axes -> Int]
        /\ \A a \in Axes : Centred[a] = IF a = "throttle" THEN 0 ELSE 200
    BY DEF Centred, Axes
  <2>2. SettingsPin \in [Axes -> {0, 1, 2, 6}]
    BY DEF SettingsPin, Axes
  <2>3. Init => HeldOK
    BY <2>1 DEF Init, HeldOK
  <2> QED BY <2>2, <2>3 DEF Init, TypeOK
<1>2. TypeOK /\ [Next]_vars => TypeOK'
  <2> SUFFICES ASSUME TypeOK, [Next]_vars PROVE TypeOK'
    OBVIOUS
  <2>1. ASSUME NEW b \in Axes, NEW v \in Positions[b], Event([stick EXCEPT ![b] = v])
        PROVE  TypeOK'
    <3> DEFINE new == [stick EXCEPT ![b] = v]
    <3>1. /\ new \in [Axes -> Int]
          /\ \A a \in Axes : -200 <= new[a] /\ new[a] <= 200
      BY PositionsAssumption DEF TypeOK, HeldOK
    <3> HIDE DEF new
    <3>2. CASE Stick(new)
      <4>1. /\ held' = Followed(new) /\ stick' = new
            /\ dpad' = FALSE /\ UNCHANGED <<pin, connected>>
        BY <3>2 DEF Stick
      <4>2. held' \in [Axes -> Int]
        BY <3>1, <4>1, StoredNear DEF Followed, TypeOK, HeldOK
      <4>3. \A a \in Axes : 0 <= held'[a] /\ held'[a] <= IF a = "throttle" THEN 280 ELSE 400
        BY <3>1, <4>1, StoredNear DEF Followed, TypeOK, HeldOK
      <4>4. HeldOK'
        BY <3>1, <4>1, <4>2, <4>3 DEF HeldOK
      <4> QED BY <4>1, <4>4 DEF TypeOK
    <3>3. CASE DPadUp(new)
      BY <3>1, <3>3 DEF DPadUp, DPad, TypeOK, HeldOK, ArmingValues, Axes
    <3>4. CASE DPadDown(new)
      BY <3>1, <3>4 DEF DPadDown, DPad, TypeOK, HeldOK, Centred, NoPins, Axes
    <3>5. CASE DPadSide(new)
      BY <3>1, <3>5 DEF DPadSide, DPad, TypeOK, HeldOK
    <3> QED BY <2>1, <3>2, <3>3, <3>4, <3>5 DEF Event, new
  <2>2. ASSUME NEW a \in Axes, SavePin(a) PROVE TypeOK'
    BY <2>2 DEF SavePin, TypeOK, HeldOK, SettingsPin, Axes
  <2>3. CASE Link
    BY <2>3 DEF Link, TypeOK, HeldOK
  <2>4. CASE UNCHANGED vars
    BY <2>4 DEF vars, TypeOK, HeldOK
  <2> QED BY <2>1, <2>2, <2>3, <2>4 DEF Next
<1> QED BY <1>1, <1>2, PTL DEF Spec

(* Movements below the threshold never add up: after any event without the  *)
(* D-pad, what is held is less than two percent from the stick, and what    *)
(* the message has of throttle, yaw and pitch half a percent more.          *)
THEOREM CreepBounded == Spec => []NoCreep
<1>1. Init => NoCreep
  BY DEF Init, NoCreep, Axes, Centred, Calibrated, CalibratedThrottle, Apart, Threshold,
         Percent, Rounded
<1>2. TypeOK /\ TypeOK' /\ NoCreep /\ [Next]_vars => NoCreep'
  <2> SUFFICES ASSUME TypeOK, TypeOK', NoCreep, [Next]_vars PROVE NoCreep'
    OBVIOUS
  <2>1. ASSUME NEW new, Stick(new), NEW a \in Axes
        PROVE  /\ Apart(held'[a], Calibrated(a, stick'[a])) < Threshold
               /\ Apart(4 * Percent(a)', Calibrated(a, stick'[a])) < Threshold + 2
    <3> DEFINE target == Calibrated(a, new[a])
               stored == Stored(a, new[a])
               whole == Rounded(held'[a], 4)
    <3>1. stick' = new
      BY <2>1 DEF Stick
    <3>2. held'[a] = IF Apart(held[a], target) >= Threshold THEN stored ELSE held[a]
      BY <2>1 DEF Stick, Followed
    <3>3. target \in Int /\ held[a] \in Int /\ stored \in Int /\ Apart(stored, target) <= 2
      BY <3>1, CalibratedRange, StoredNear DEF TypeOK, HeldOK
    <3>4. Percent(a)' = whole
      BY DEF Percent
    <3> HIDE DEF target, stored
    <3>5. held'[a] \in Int /\ Apart(held'[a], target) < Threshold
      BY <3>2, <3>3 DEF Apart, Threshold
    <3>6. whole \in Int /\ Apart(4 * whole, held'[a]) <= 2
      BY <3>5, RoundedNear DEF Apart, whole
    <3> HIDE DEF whole
    <3>7. Apart(4 * whole, target) < Threshold + 2
      BY <3>3, <3>5, <3>6 DEF Apart, Threshold
    <3> QED BY <3>1, <3>4, <3>5, <3>7 DEF target
  <2>2. ASSUME NEW new, DPadUp(new) \/ DPadDown(new) \/ DPadSide(new) PROVE NoCreep'
    BY <2>2 DEF DPadUp, DPadDown, DPadSide, DPad, NoCreep
  <2>3. ASSUME NEW a \in Axes, SavePin(a) PROVE NoCreep'
    BY <2>3 DEF SavePin, NoCreep, Percent
  <2>4. CASE Link
    BY <2>4 DEF Link, NoCreep, Percent
  <2>5. CASE UNCHANGED vars
    BY <2>5 DEF vars, NoCreep, Percent
  <2> QED BY <2>1, <2>2, <2>3, <2>4, <2>5 DEF Next, Event, NoCreep
<1> QED BY <1>1, <1>2, TypeCorrect, PTL DEF Spec
=============================================================================
