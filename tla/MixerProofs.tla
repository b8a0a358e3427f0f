---------------------------- MODULE MixerProofs ----------------------------
(***************************************************************************)
(* Proofs about Mixer: at every pot setting, every rest position of the    *)
(* gyros, every reading and every stick, no operation from a reading to a  *)
(* correction wraps; nor does the mix, if the gyros rested well inside the *)
(* range of the converter.  The argument is a chain of bounds, from the    *)
(* inputs to the four sums, which has the reference definitions of Mixer   *)
(* along its side.                                                         *)
(***************************************************************************)
EXTENDS Mixer, TLAPS

GainBound == 16368

\* Of a control error (the gyro's share and the stick's) and of a roll or pitch
\* correction: wherever the gyros rested, and well inside their range
ErrorBound == 74272
CommandBound == 4780766
CentredError == 61472
CentredCommand == 3962367

Within(x, b) == -b <= x /\ x <= b

-----------------------------------------------------------------------------
(* The fixed-point library: a result that fits its register does not wrap. *)
LEMMA WrapFits ==
    ASSUME NEW x \in Int, -Half <= x, x < Half
    PROVE  Wrap(x) = x
BY SMT DEF Wrap, Half

(* Whatever wraps, a register holds a number. *)
LEMMA WrapType == ASSUME NEW x \in Int PROVE Wrap(x) \in Int
BY SMT DEF Wrap, Half

(* Division by shifting, at the shift counts the firmware uses. *)
LEMMA Shifts ==
    ASSUME NEW x \in Int
    PROVE  /\ FDiv(x, 2) = (x + 2) \div 4
           /\ FDiv(x, 4) = (x + 8) \div 16
           /\ FDiv(x, 5) = (x + 16) \div 32
           /\ FDiv(x, 11) = (x + 1024) \div 2048
BY SMT DEF FDiv

LEMMA TimesMonotone ==
    ASSUME NEW x \in Int, NEW y \in Int, NEW z \in Int, 0 <= z, x <= y
    PROVE  x * z <= y * z
BY SMT

LEMMA TimesCommutes == ASSUME NEW x \in Int, NEW y \in Int PROVE x * y = y * x
BY SMT

(* A limited value keeps within the limit. *)
LEMMA LimitedWithin ==
    ASSUME NEW x \in Int, NEW b \in Int, 0 <= b
    PROVE  Limited(x, b) \in Int /\ Within(Limited(x, b), b)
BY SMT DEF Limited, Within

(* A rounded product is no larger than the rounded product of the bounds. *)
LEMMA ProductWithin ==
    ASSUME NEW x \in Int, NEW y \in Int, NEW b \in Int, NEW c \in Int,
           0 <= b, 0 <= c, Within(x, b), Within(y, c)
    PROVE  /\ Product(x, y) \in Int
           /\ Within(Product(x, y), (b * c + 128) \div 256)
<1>1. Magnitude(x) \in Int /\ 0 <= Magnitude(x) /\ Magnitude(x) <= b
  BY SMT DEF Magnitude, Within
<1>2. Magnitude(y) \in Int /\ 0 <= Magnitude(y) /\ Magnitude(y) <= c
  BY SMT DEF Magnitude, Within
<1> DEFINE m == Magnitude(x)
           n == Magnitude(y)
<1> HIDE DEF m, n
<1>3. m \in Int /\ n \in Int /\ 0 <= m /\ m <= b /\ 0 <= n /\ n <= c
  BY <1>1, <1>2 DEF m, n
<1>4. m * n \in Int /\ b * c \in Int /\ b * n \in Int
  BY <1>3, SMT
<1>5. m * n <= b * n
  BY <1>3, TimesMonotone
<1>6. n * b <= c * b
  BY <1>3, TimesMonotone
<1>7. b * n <= b * c
  BY <1>6, <1>3, TimesCommutes
<1>8. 0 * n <= m * n /\ 0 * n = 0
  BY <1>3, TimesMonotone, SMT
<1> DEFINE mn == m * n
           bc == b * c
           rounded == (mn + 128) \div 256
<1>9. mn \in Int /\ bc \in Int /\ 0 <= mn /\ mn <= bc
  BY <1>4, <1>5, <1>7, <1>8, SMT
<1> HIDE DEF mn, bc
<1>10. rounded \in Int /\ Within(rounded, (bc + 128) \div 256)
       /\ -rounded \in Int /\ Within(-rounded, (bc + 128) \div 256)
  BY <1>9, SMT DEF Within
<1>11. Product(x, y) = rounded \/ Product(x, y) = -rounded
  BY SMT DEF Product, Unit, mn, m, n
<1> HIDE DEF rounded
<1>12. Product(x, y) \in Int /\ Within(Product(x, y), (bc + 128) \div 256)
  BY <1>10, <1>11
<1> QED
  BY <1>12 DEF bc

-----------------------------------------------------------------------------
(* The bounds a calibration leaves and a loop keeps.                        *)
Tuned ==
    calibrated => /\ \A a \in Axes : 0 <= zero[a] /\ zero[a] <= 261888
                  /\ \A p \in {"P", "yawP"} : 0 <= gain[p] /\ gain[p] <= GainBound
                  /\ 0 <= gain["I"] /\ gain["I"] <= 128

Bounds == TypeOK /\ Tuned

(* The control error is a number; once the gyros are calibrated it is the   *)
(* exact one, and bounded.                                                  *)
LEMMA ErrorWithin ==
    ASSUME NEW a \in Axes, NEW in \in Inputs[a], zero[a] \in Int
    PROVE  /\ Error(a, in) \in Int
           /\ 0 <= zero[a] /\ zero[a] <= 261888 =>
                Error(a, in) = Deviation(a, in) /\ Within(Error(a, in), ErrorBound)
           /\ 51200 <= zero[a] /\ zero[a] <= 210688 => Within(Error(a, in), CentredError)
<1> DEFINE reading == in[1]
           stick == in[2]
           z == zero[a]
           exact == Whole(reading) - z
           off == Sub(Whole(reading), z)
<1>1. /\ reading \in Int /\ 0 <= reading /\ reading <= 1023
      /\ stick \in Int /\ -281600 <= stick /\ stick <= 281600
      /\ z \in Int
  BY InputsAssumption, SMT DEF Whole, Unit
<1>2. /\ exact \in Int
      /\ 0 <= z /\ z <= 261888 => Within(exact, 261888)
      /\ 51200 <= z /\ z <= 210688 => Within(exact, 210688)
  <2> HIDE DEF reading, stick, z
  <2> QED
    BY <1>1, SMT DEF Whole, Unit, Within
<1>3. off = Wrap(exact)
  BY DEF Sub
<1> DEFINE exactTurned == IF a \in Reversed THEN -exact ELSE exact
           turned == IF a \in Reversed THEN Neg(off) ELSE off
           rate == FDiv(turned, 2)
           exactRate == FDiv(exactTurned, 2)
           share == FDiv(stick, 5)
<1>4. Error(a, in) = Wrap(rate + share)
  BY DEF Error, Add, Rate, ScaleGyro, ScaleStick
<1>5. Deviation(a, in) = exactRate + share
  BY DEF Deviation, ScaleGyro, ScaleStick
<1>6. share \in Int /\ Within(share, 8800)
  <2> HIDE DEF stick
  <2>1. share = (stick + 16) \div 32
    BY <1>1, Shifts
  <2> QED
    BY <1>1, <2>1, SMT DEF Within
<1> HIDE DEF exact, off, reading, stick, z, share
<1>7. off \in Int
  BY <1>2, <1>3, WrapType
<1>8. turned \in Int
  BY <1>7, WrapType, SMT DEF Neg
<1>9. rate \in Int
  <2>1. rate = (turned + 2) \div 4
    BY <1>8, Shifts
  <2> HIDE DEF rate
  <2> QED
    BY <1>8, <2>1, SMT
<1>10. Error(a, in) \in Int
  BY <1>4, <1>6, <1>9, WrapType, SMT
<1>11. ASSUME Within(exact, 261888)
       PROVE  turned = exactTurned
  <2>1. off = exact
    BY <1>2, <1>3, <1>11, WrapFits, SMT DEF Within, Half
  <2>2. Neg(off) = -exact
    BY <1>2, <1>11, <2>1, WrapFits, SMT DEF Within, Half, Neg
  <2> QED
    BY <2>1, <2>2
<1>12. ASSUME Within(exact, 261888), NEW b \in Int, Within(exact, b),
              NEW c \in Int, b + 2 <= 4 * c + 3, b <= 4 * c + 2, c <= 65472
       PROVE  Error(a, in) = exactRate + share /\ Within(Error(a, in), c + 8800)
  <2>1. exactTurned \in Int /\ Within(exactTurned, b)
    BY <1>2, <1>12, SMT DEF Within
  <2> HIDE DEF exactTurned
  <2>2. exactRate = (exactTurned + 2) \div 4
    BY <2>1, Shifts
  <2> HIDE DEF exactRate
  <2>3. exactRate \in Int /\ Within(exactRate, c)
    BY <1>12, <2>1, <2>2, SMT DEF Within
  <2>4. rate = exactRate
    BY <1>11, <1>12 DEF exactRate
  <2>5. exactRate + share \in Int /\ Within(exactRate + share, c + 8800)
    BY <1>6, <1>12, <2>3, SMT DEF Within
  <2>6. Wrap(exactRate + share) = exactRate + share
    BY <1>12, <2>5, WrapFits, SMT DEF Within, Half
  <2> QED
    BY <1>4, <2>4, <2>5, <2>6
<1>13. ASSUME 0 <= z, z <= 261888
       PROVE  Error(a, in) = Deviation(a, in) /\ Within(Error(a, in), ErrorBound)
  <2>1. Within(Error(a, in), 65472 + 8800) /\ Error(a, in) = exactRate + share
    BY <1>2, <1>12, <1>13, SMT
  <2> QED
    BY <1>5, <2>1, SMT DEF ErrorBound
<1>14. ASSUME 51200 <= z, z <= 210688
       PROVE  Within(Error(a, in), CentredError)
  <2>1. Within(exact, 210688) /\ Within(exact, 261888)
    BY <1>1, <1>2, <1>14, SMT DEF Within
  <2>2. Within(Error(a, in), 52672 + 8800)
    BY <1>12, <2>1, SMT
  <2> QED
    BY <2>2, SMT DEF CentredError
<1> QED
  BY <1>10, <1>13, <1>14 DEF z

(* The I term keeps its limit, whatever was added; from a bounded error and *)
(* a bounded I term it is the exact one.                                    *)
LEMMA AccumulateWithin ==
    ASSUME NEW i \in Int, NEW e \in Int
    PROVE  /\ Accumulate(i, e) \in Int /\ Within(Accumulate(i, e), I_TermLimit)
           /\ Within(i, I_TermLimit) /\ Within(e, ErrorBound) =>
                Accumulate(i, e) = Limited(i + e, I_TermLimit)
<1>1. Add(i, e) \in Int
  BY WrapType, SMT DEF Add
<1>2. I_TermLimit \in Int /\ 0 <= I_TermLimit
  BY SMT DEF I_TermLimit, Whole, Unit
<1>3. Within(i, I_TermLimit) /\ Within(e, ErrorBound) => Add(i, e) = i + e
  BY WrapFits, SMT DEF Add, Within, I_TermLimit, Whole, Unit, ErrorBound, Half
<1> QED
  BY <1>1, <1>2, <1>3, LimitedWithin DEF Accumulate

(* The command of an axis for error e and integral i, had registers no size. *)
Corrected(a, e, i) ==
    IF a = "yaw"
      THEN Limited(Product(e, gain["yawP"]) + Product(i, I_TermGainYaw), YawLimit)
      ELSE Product(e, gain["P"]) + Product(i, gain["I"])

LEMMA CorrectionIsCorrected ==
    ASSUME NEW a, NEW in, NEW i
    PROVE  Correction(a, in, i) = Corrected(a, Deviation(a, in), Gathered(a, in, i))
BY DEF Correction, Corrected

(* The two products and their sum are exact, and bounded.                   *)
LEMMA SumExact ==
    ASSUME NEW e \in Int, NEW i \in Int, NEW g \in Int, NEW h \in Int,
           Within(e, ErrorBound), Within(i, I_TermLimit), Within(g, GainBound), Within(h, 128)
    PROVE  /\ Product(e, g) + Product(i, h) \in Int
           /\ Add(Mul(e, g), Mul(i, h)) = Product(e, g) + Product(i, h)
           /\ Within(Product(e, g) + Product(i, h), CommandBound)
           /\ Within(e, CentredError) => Within(Product(e, g) + Product(i, h), CentredCommand)
<1> DEFINE x == Product(e, g)
           y == Product(i, h)
<1>1. x \in Int /\ Within(x, 4748766)
  <2>1. Product(e, g) \in Int /\ Within(Product(e, g), (74272 * 16368 + 128) \div 256)
    BY ProductWithin, SMT DEF ErrorBound, GainBound
  <2> QED
    BY <2>1, SMT DEF Within
<1>2. y \in Int /\ Within(y, 32000)
  <2>1. Product(i, h) \in Int /\ Within(Product(i, h), (64000 * 128 + 128) \div 256)
    BY ProductWithin, SMT DEF I_TermLimit, Whole, Unit
  <2> QED
    BY <2>1, SMT DEF Within
<1>3. Within(e, CentredError) => Within(x, 3930367)
  <2> SUFFICES ASSUME Within(e, CentredError) PROVE Within(x, 3930367)
    OBVIOUS
  <2>1. Product(e, g) \in Int /\ Within(Product(e, g), (61472 * 16368 + 128) \div 256)
    BY ProductWithin, SMT DEF CentredError, GainBound
  <2> QED
    BY <2>1, SMT DEF Within
<1>4. Mul(e, g) = Wrap(x) /\ Mul(i, h) = Wrap(y)
  BY DEF Mul
<1> HIDE DEF x, y
<1>5. Wrap(x) = x /\ Wrap(y) = y
  BY <1>1, <1>2, WrapFits, SMT DEF Within, Half
<1>6. /\ x + y \in Int /\ Within(x + y, CommandBound)
      /\ Within(x, 3930367) => Within(x + y, CentredCommand)
  BY <1>1, <1>2, SMT DEF Within, CommandBound, CentredCommand
<1>7. Wrap(x + y) = x + y
  BY <1>6, WrapFits, SMT DEF Within, CommandBound, Half
<1>8. Add(Mul(e, g), Mul(i, h)) = x + y
  BY <1>4, <1>5, <1>7 DEF Add
<1> QED
  BY <1>3, <1>6, <1>8 DEF x, y

(* The command is exact, and bounded. *)
LEMMA CommandExact ==
    ASSUME TypeOK, Tuned, calibrated, NEW a \in Axes, NEW e \in Int, NEW i \in Int,
           Within(e, ErrorBound), Within(i, I_TermLimit)
    PROVE  /\ Command(a, e, i) = Corrected(a, e, i)
           /\ Corrected(a, e, i) \in Int
           /\ Within(e, CentredError) => Within(Corrected(a, e, i), CentredCommand)
           /\ a = "yaw" => Within(Corrected(a, e, i), YawLimit)
<1>1. gain["P"] \in Int /\ gain["I"] \in Int /\ gain["yawP"] \in Int
  BY DEF TypeOK, Pot
<1>2. /\ Within(gain["P"], GainBound) /\ Within(gain["yawP"], GainBound)
      /\ Within(gain["I"], 128)
  BY <1>1, SMT DEF Tuned, Within, GainBound
<1>3. CASE a # "yaw"
  <2>1. Corrected(a, e, i) = Product(e, gain["P"]) + Product(i, gain["I"])
    BY <1>3 DEF Corrected
  <2>2. Command(a, e, i) = Add(Mul(e, gain["P"]), Mul(i, gain["I"]))
    BY <1>3 DEF Command
  <2> QED
    BY <1>1, <1>2, <1>3, <2>1, <2>2, SumExact
<1>4. CASE a = "yaw"
  <2> DEFINE sum == Product(e, gain["yawP"]) + Product(i, I_TermGainYaw)
  <2>1. Corrected(a, e, i) = Limited(sum, YawLimit)
    BY <1>4 DEF Corrected
  <2>2. Command(a, e, i) = Limited(Add(Mul(e, gain["yawP"]), Mul(i, I_TermGainYaw)), YawLimit)
    BY <1>4 DEF Command
  <2>3. I_TermGainYaw \in Int /\ Within(I_TermGainYaw, 128)
    BY SMT DEF I_TermGainYaw, Within
  <2>4. sum \in Int /\ Add(Mul(e, gain["yawP"]), Mul(i, I_TermGainYaw)) = sum
    BY <1>1, <1>2, <2>3, SumExact
  <2>5. YawLimit \in Int /\ 0 <= YawLimit
    BY SMT DEF YawLimit, Whole, Unit
  <2> HIDE DEF sum
  <2>6. Limited(sum, YawLimit) \in Int /\ Within(Limited(sum, YawLimit), YawLimit)
    BY <2>4, <2>5, LimitedWithin
  <2>7. Within(Limited(sum, YawLimit), CentredCommand)
    BY <2>6, SMT DEF Within, YawLimit, Whole, Unit, CentredCommand
  <2> QED
    BY <2>1, <2>2, <2>4, <2>6, <2>7
<1> QED
  BY <1>3, <1>4

LEMMA SignWithin ==
    ASSUME NEW s, s = 1 \/ s = -1, NEW x \in Int, NEW b \in Int, Within(x, b)
    PROVE  s * x \in Int /\ Within(s * x, b)
<1>1. CASE s = 1
  BY <1>1, SMT DEF Within
<1>2. CASE s = -1
  BY <1>2, SMT DEF Within
<1> QED
  BY <1>1, <1>2

(* What a motor is meant to get, from the four numbers it is mixed of.      *)
Summed(m, base, roll, pitch, yaw) ==
    base + Side("roll")[m] * roll + Side("pitch")[m] * pitch + Side("yaw")[m] * yaw

(* Each of the three additions of the mix fits its register. *)
LEMMA MixedExact ==
    ASSUME NEW m \in Motors, NEW base \in Int, NEW roll \in Int, NEW pitch \in Int,
           NEW yaw \in Int, 0 <= base, base <= Whole(1350),
           Within(roll, CentredCommand), Within(pitch, CentredCommand), Within(yaw, YawLimit)
    PROVE  /\ Mixed(m, base, roll, pitch, yaw) = Summed(m, base, roll, pitch, yaw)
           /\ Summed(m, base, roll, pitch, yaw) \in Int
<1> DEFINE r == Side("roll")[m] * roll
           p == Side("pitch")[m] * pitch
           y == Side("yaw")[m] * yaw
<1>1. /\ Side("roll")[m] = 1 \/ Side("roll")[m] = -1
      /\ Side("pitch")[m] = 1 \/ Side("pitch")[m] = -1
      /\ Side("yaw")[m] = 1 \/ Side("yaw")[m] = -1
  BY SMT DEF Side, Motors
<1>2. /\ r \in Int /\ Within(r, CentredCommand) /\ p \in Int /\ Within(p, CentredCommand)
      /\ y \in Int /\ Within(y, YawLimit)
  <2>1. CentredCommand \in Int /\ YawLimit \in Int
    BY SMT DEF CentredCommand, YawLimit, Whole, Unit
  <2> QED
    BY <1>1, <2>1, SignWithin
<1> HIDE DEF r, p, y
<1>3. base + r \in Int /\ Add(base, r) = base + r
  BY <1>2, WrapFits, SMT DEF Add, Within, CentredCommand, Whole, Unit, Half
<1>4. base + r + p \in Int /\ Add(base + r, p) = base + r + p
  BY <1>2, WrapFits, SMT DEF Add, Within, CentredCommand, Whole, Unit, Half
<1>5. base + r + p + y \in Int /\ Add(base + r + p, y) = base + r + p + y
  BY <1>2, WrapFits, SMT DEF Add, Within, CentredCommand, YawLimit, Whole, Unit, Half
<1> QED
  BY <1>3, <1>4, <1>5 DEF Mixed, Summed, r, p, y

(* The mix is a number, wrapped or not.                                     *)
LEMMA MixedType ==
    ASSUME NEW m \in Motors, NEW base \in Int, NEW roll \in Int, NEW pitch \in Int,
           NEW yaw \in Int
    PROVE  Mixed(m, base, roll, pitch, yaw) \in Int
<1>1. /\ Side("roll")[m] = 1 \/ Side("roll")[m] = -1
      /\ Side("pitch")[m] = 1 \/ Side("pitch")[m] = -1
      /\ Side("yaw")[m] = 1 \/ Side("yaw")[m] = -1
  BY SMT DEF Side, Motors
<1> DEFINE r == Side("roll")[m] * roll
           p == Side("pitch")[m] * pitch
           y == Side("yaw")[m] * yaw
<1>2. r \in Int /\ p \in Int /\ y \in Int
  BY <1>1, SMT
<1> HIDE DEF r, p, y
<1>3. Add(base, r) \in Int
  BY <1>2, WrapType, SMT DEF Add
<1>4. Add(Add(base, r), p) \in Int
  BY <1>2, <1>3, WrapType, SMT DEF Add
<1>5. Add(Add(Add(base, r), p), y) \in Int
  BY <1>2, <1>4, WrapType, SMT DEF Add
<1> QED
  BY <1>5 DEF Mixed, r, p, y

(* The output before its division: between the idle level and full throttle. *)
Level(x) == LET raised == IF x >= IdleLevel THEN x ELSE IdleLevel
            IN  IF raised < FullLevel THEN raised ELSE FullLevel

LEMMA StepsOfLevel ==
    ASSUME NEW x \in Int
    PROVE  /\ Level(x) \in Int /\ IdleLevel <= Level(x) /\ Level(x) <= FullLevel
           /\ Steps(x) = ((Level(x) + 2) \div 4) \div 256
<1>1. Level(x) \in Int /\ IdleLevel <= Level(x) /\ Level(x) <= FullLevel
  BY SMT DEF Level, IdleLevel, FullLevel, Whole, Unit
<1>2. FDiv(Level(x), 2) = (Level(x) + 2) \div 4
  BY <1>1, Shifts
<1>3. Steps(x) = FDiv(Level(x), 2) \div 256
  BY DEF Steps, Level, Unit
<1> QED
  BY <1>1, <1>2, <1>3

(* A motor output is a byte, and grows with the sum. *)
LEMMA StepsWithin ==
    ASSUME NEW x \in Int
    PROVE  Steps(x) \in Int /\ 0 <= Steps(x) /\ Steps(x) <= 255
<1> DEFINE l == Level(x)
<1>1. l \in Int /\ 26214 <= l /\ l <= 261888 /\ Steps(x) = ((l + 2) \div 4) \div 256
  BY StepsOfLevel, SMT DEF IdleLevel, FullLevel, Whole, Unit
<1> HIDE DEF l
<1> QED
  BY <1>1, SMT

LEMMA StepsMonotone ==
    ASSUME NEW x \in Int, NEW y \in Int, x <= y
    PROVE  Steps(x) <= Steps(y)
<1> DEFINE k == Level(x)
           l == Level(y)
<1>1. k <= l
  BY SMT DEF Level, IdleLevel, FullLevel, Whole, Unit
<1>2. /\ k \in Int /\ Steps(x) = ((k + 2) \div 4) \div 256
      /\ l \in Int /\ Steps(y) = ((l + 2) \div 4) \div 256
  BY StepsOfLevel
<1> HIDE DEF k, l
<1> QED
  BY <1>1, <1>2, SMT

-----------------------------------------------------------------------------
LEMMA MeantIsSummed ==
    ASSUME NEW m
    PROVE  Meant(m) = Summed(m, collective', Wanted("roll"), Wanted("pitch"), Wanted("yaw"))
BY DEF Meant, Summed

(* The collective starts at zero and has a longest pulse. *)
LEMMA CollectiveBound ==
    ASSUME NEW c \in Collectives
    PROVE  c \in Int /\ 0 <= c /\ c <= Whole(1350)
BY InputsAssumption

LEMMA InitBounds == Init => Bounds
<1> SUFFICES ASSUME Init PROVE Bounds
  OBVIOUS
<1>1. PICK g \in Garbage : /\ zero = [a \in Axes |-> g] /\ gain = [p \in Pot |-> g]
                           /\ command = [a \in Axes |-> g] /\ integral = [a \in Axes |-> g]
  BY DEF Init
<1>2. g \in Int
  BY GarbageAssumption
<1>3. calibrated = FALSE /\ on = FALSE /\ collective = 0 /\ pwm = [m \in Motors |-> 0]
  BY DEF Init
<1>4. zero \in [Axes -> Int] /\ gain \in [Pot -> Int] /\ command \in [Axes -> Int]
      /\ integral \in [Axes -> Int]
  BY <1>1, <1>2
<1>5. pwm \in [Motors -> Int] /\ \A m \in Motors : 0 <= pwm[m] /\ pwm[m] <= 255
  BY <1>3, SMT
<1>6. 0 <= collective /\ collective <= Whole(1350) /\ collective \in Int
  BY <1>3, SMT DEF Whole, Unit
<1>7. TypeOK
  BY <1>3, <1>4, <1>5, <1>6 DEF TypeOK
<1> QED
  BY <1>3, <1>7 DEF Bounds, Tuned

LEMMA CalibrateBounds == Bounds /\ Calibrate => Bounds'
<1> SUFFICES ASSUME Bounds, Calibrate PROVE Bounds'
  OBVIOUS
<1>1. on = FALSE /\ on' = FALSE /\ calibrated' = TRUE
  BY DEF Calibrate, Bounds, TypeOK
<1>2. PICK roll \in RestSums["roll"], pitch \in RestSums["pitch"], yaw \in RestSums["yaw"] :
        zero' = [roll |-> Rest(roll), pitch |-> Rest(pitch), yaw |-> Rest(yaw)]
  BY DEF Calibrate
<1>3. PICK r \in [Pot -> Pots] : gain' = [p \in Pot |-> GainOf(p, r[p])]
  BY DEF Calibrate
<1>4. ASSUME NEW a \in Axes, NEW x \in RestSums[a]
      PROVE  Rest(x) \in Int /\ 0 <= Rest(x) /\ Rest(x) <= 261888
  <2>1. x \in Int /\ 0 <= x /\ x <= 16368
    BY RestAssumption, SMT
  <2>2. Whole(x) \in Int /\ Whole(x) = x * 256
    BY <2>1, SMT DEF Whole, Unit
  <2>3. Rest(x) = (x * 256 + 8) \div 16
    BY <2>2, Shifts DEF Rest
  <2> QED
    BY <2>1, <2>3, SMT
<1>5. ASSUME NEW x \in Pots, NEW p \in Pot
      PROVE  GainOf(p, x) \in Int /\ 0 <= GainOf(p, x) /\ GainOf(p, x) <= GainBound
             /\ (p = "I" => GainOf(p, x) <= 128)
  <2>1. x \in Int /\ 0 <= x /\ x <= 1023
    BY PotsAssumption
  <2> DEFINE w == Whole(x)
  <2>2. w \in Int /\ w = x * 256
    BY <2>1, SMT DEF Whole, Unit
  <2> HIDE DEF w
  <2>3. FDiv(w, 4) = (w + 8) \div 16
    BY <2>2, Shifts
  <2>4. GainOf(p, x) = IF p = "I" THEN FDiv(w, 11) ELSE FDiv(w, 4)
    BY DEF GainOf, w
  <2>5. FDiv(w, 11) = (w + 1024) \div 2048
    BY <2>2, Shifts
  <2> QED
    BY <2>1, <2>2, <2>3, <2>4, <2>5, SMT DEF GainBound
<1>6. zero' \in [Axes -> Int] /\ \A a \in Axes : 0 <= zero'[a] /\ zero'[a] <= 261888
  <2>1. /\ Rest(roll) \in Int /\ 0 <= Rest(roll) /\ Rest(roll) <= 261888
        /\ Rest(pitch) \in Int /\ 0 <= Rest(pitch) /\ Rest(pitch) <= 261888
        /\ Rest(yaw) \in Int /\ 0 <= Rest(yaw) /\ Rest(yaw) <= 261888
    BY <1>4 DEF Axes
  <2> DEFINE x == Rest(roll)
             u == Rest(pitch)
             w == Rest(yaw)
  <2> HIDE DEF x, u, w
  <2>2. zero' = [roll |-> x, pitch |-> u, yaw |-> w]
    BY <1>2 DEF x, u, w
  <2> QED
    BY <2>1, <2>2, SMT DEF Axes, x, u, w
<1>7. gain' \in [Pot -> Int] /\ \A p \in Pot : /\ 0 <= gain'[p] /\ gain'[p] <= GainBound
                                               /\ p = "I" => gain'[p] <= 128
  BY <1>3, <1>5
<1>8. integral' = [a \in Axes |-> 0]
  BY DEF Calibrate
<1>9. integral' \in [Axes -> Int]
      /\ \A a \in Axes : -I_TermLimit <= integral'[a] /\ integral'[a] <= I_TermLimit
  BY <1>8, SMT DEF I_TermLimit, Whole, Unit
<1>10. UNCHANGED <<command, collective, on, pwm, input>>
  BY DEF Calibrate
<1>11. TypeOK'
  BY <1>1, <1>6, <1>7, <1>9, <1>10 DEF TypeOK, Bounds
<1>12. Tuned'
  BY <1>6, <1>7 DEF Tuned, Pot
<1> QED
  BY <1>11, <1>12 DEF Bounds

(* A loop keeps the bounds; if it drives the motors its corrections are     *)
(* exact numbers, and its mix is exact too from centred gyros.              *)
LEMMA LoopExact ==
    ASSUME Bounds, Loop
    PROVE  /\ Bounds'
           /\ on' => \A a \in Axes : command'[a] = Wanted(a) /\ Wanted(a) \in Int
           /\ on' /\ Centred => \A m \in Motors : pwm'[m] = Steps(Meant(m))
<1>1. PICK roll \in Inputs["roll"], pitch \in Inputs["pitch"], yaw \in Inputs["yaw"],
           c \in Collectives, armed \in BOOLEAN :
        /\ input' = [roll |-> roll, pitch |-> pitch, yaw |-> yaw]
        /\ integral' = [a \in Axes |-> Accumulate(integral[a], Error(a, input'[a]))]
        /\ command' = [a \in Axes |-> Command(a, Error(a, input'[a]), integral'[a])]
        /\ collective' = c
        /\ on' = (calibrated /\ armed /\ c >= Unit)
        /\ pwm' = [m \in Motors |->
                     IF on' THEN Steps(Mixed(m, c, command'["roll"], command'["pitch"],
                                             command'["yaw"]))
                            ELSE 0]
        /\ UNCHANGED <<calibrated, zero, gain>>
  BY DEF Loop
<1>2. UNCHANGED <<calibrated, zero, gain>>
  BY <1>1
<1>3. zero \in [Axes -> Int] /\ gain \in [Pot -> Int] /\ integral \in [Axes -> Int]
      /\ calibrated \in BOOLEAN
  BY DEF Bounds, TypeOK
<1>4. ASSUME NEW a \in Axes PROVE input'[a] \in Inputs[a]
  BY <1>1 DEF Axes
<1>5. ASSUME NEW a \in Axes
      PROVE  /\ Error(a, input'[a]) \in Int
             /\ calibrated => /\ Error(a, input'[a]) = Deviation(a, input'[a])
                              /\ Within(Error(a, input'[a]), ErrorBound)
             /\ Centred => Within(Error(a, input'[a]), CentredError)
  <2>1. zero[a] \in Int /\ (calibrated => 0 <= zero[a] /\ zero[a] <= 261888)
    BY <1>3 DEF Bounds, Tuned
  <2>2. Centred => 51200 <= zero[a] /\ zero[a] <= 210688
    BY <2>1, SMT DEF Centred, Whole, Unit
  <2> QED
    BY <1>4, <2>1, <2>2, ErrorWithin
<1>6. ASSUME NEW a \in Axes
      PROVE  /\ integral'[a] \in Int /\ Within(integral'[a], I_TermLimit)
             /\ calibrated => integral'[a] = Gathered(a, input'[a], integral[a])
  <2>1. integral[a] \in Int /\ (calibrated => Within(integral[a], I_TermLimit))
    BY <1>3 DEF Bounds, TypeOK, Within
  <2>2. integral'[a] = Accumulate(integral[a], Error(a, input'[a]))
    BY <1>1
  <2> QED
    BY <1>5, <2>1, <2>2, AccumulateWithin DEF Gathered
<1>7. ASSUME NEW a \in Axes
      PROVE  command'[a] = Command(a, Error(a, input'[a]), integral'[a]) /\ command'[a] \in Int
  <2>1. command'[a] = Command(a, Error(a, input'[a]), integral'[a])
    BY <1>1
  <2>2. \A x \in Int, y \in Int : Mul(x, y) \in Int /\ Add(x, y) \in Int
    <3> SUFFICES ASSUME NEW x \in Int, NEW y \in Int PROVE Mul(x, y) \in Int /\ Add(x, y) \in Int
      OBVIOUS
    <3>1. x * y \in Int /\ Magnitude(x) * Magnitude(y) \in Int
      BY SMT DEF Magnitude
    <3> DEFINE p == Magnitude(x) * Magnitude(y)
    <3> HIDE DEF p
    <3>2. p \in Int
      BY <3>1 DEF p
    <3>3. Product(x, y) = (p + Unit \div 2) \div Unit \/ Product(x, y) = -((p + Unit \div 2) \div Unit)
      BY DEF Product, p
    <3>4. Product(x, y) \in Int
      BY <3>2, <3>3, SMT DEF Unit
    <3>5. Mul(x, y) \in Int
      BY <3>4, WrapType DEF Mul
    <3>6. Add(x, y) \in Int
      BY WrapType, SMT DEF Add
    <3> QED
      BY <3>5, <3>6
  <2>3. /\ gain["P"] \in Int /\ gain["I"] \in Int /\ gain["yawP"] \in Int
        /\ I_TermGainYaw \in Int /\ YawLimit \in Int /\ 0 <= YawLimit
    BY <1>3, SMT DEF Pot, I_TermGainYaw, YawLimit, Whole, Unit
  <2>4. Error(a, input'[a]) \in Int /\ integral'[a] \in Int
    BY <1>5, <1>6
  <2>5. Command(a, Error(a, input'[a]), integral'[a]) \in Int
    BY <2>2, <2>3, <2>4, LimitedWithin DEF Command
  <2> QED
    BY <2>1, <2>5
<1>8. command' \in [Axes -> Int] /\ integral' \in [Axes -> Int]
  BY <1>1, <1>6, <1>7
<1>9. collective' = c /\ c \in Int /\ 0 <= c /\ c <= Whole(1350)
  BY <1>1, CollectiveBound
<1>10. on' \in BOOLEAN /\ (on' => calibrated)
  BY <1>1
<1>11. ASSUME on', NEW a \in Axes
       PROVE  /\ command'[a] = Wanted(a) /\ Wanted(a) \in Int
              /\ Centred => Within(Wanted(a), CentredCommand)
              /\ a = "yaw" => Within(Wanted(a), YawLimit)
  <2>1. calibrated /\ TypeOK /\ Tuned
    BY <1>10, <1>11 DEF Bounds
  <2>2. Wanted(a) = Corrected(a, Error(a, input'[a]), integral'[a])
    BY <1>5, <1>6, <2>1, CorrectionIsCorrected DEF Wanted
  <2>3. command'[a] = Command(a, Error(a, input'[a]), integral'[a])
    BY <1>7
  <2>4. /\ Error(a, input'[a]) \in Int /\ Within(Error(a, input'[a]), ErrorBound)
        /\ Centred => Within(Error(a, input'[a]), CentredError)
        /\ integral'[a] \in Int /\ Within(integral'[a], I_TermLimit)
    BY <1>5, <1>6, <2>1
  <2> QED
    BY <2>1, <2>2, <2>3, <2>4, CommandExact
<1>12. ASSUME on', Centred, NEW m \in Motors
       PROVE  pwm'[m] = Steps(Meant(m))
  <2> DEFINE r == Wanted("roll")
             p == Wanted("pitch")
             y == Wanted("yaw")
  <2>1. /\ r \in Int /\ Within(r, CentredCommand) /\ p \in Int /\ Within(p, CentredCommand)
        /\ y \in Int /\ Within(y, YawLimit)
        /\ command'["roll"] = r /\ command'["pitch"] = p /\ command'["yaw"] = y
    BY <1>11, <1>12 DEF Axes
  <2>2. Meant(m) = Summed(m, c, r, p, y)
    BY <1>9, MeantIsSummed
  <2> HIDE DEF r, p, y
  <2>3. pwm'[m] = Steps(Mixed(m, c, r, p, y))
    BY <1>1, <1>12, <2>1
  <2> QED
    BY <1>9, <2>1, <2>2, <2>3, MixedExact
<1>13. pwm' \in [Motors -> Int] /\ \A m \in Motors : 0 <= pwm'[m] /\ pwm'[m] <= 255
  <2>1. DOMAIN pwm' = Motors /\ pwm' = [m \in Motors |-> pwm'[m]]
    BY <1>1
  <2>2. ASSUME NEW m \in Motors PROVE pwm'[m] \in Int /\ 0 <= pwm'[m] /\ pwm'[m] <= 255
    <3> DEFINE mix == Mixed(m, c, command'["roll"], command'["pitch"], command'["yaw"])
    <3>1. CASE on'
      <4>1. mix \in Int
        BY <1>9, <3>1, MixedType, <1>7 DEF Axes
      <4>2. pwm'[m] = Steps(mix)
        BY <1>1, <3>1
      <4> QED
        BY <4>1, <4>2, StepsWithin
    <3>2. CASE ~on'
      <4>1. pwm'[m] = 0
        BY <1>1, <3>2
      <4> QED
        BY <4>1, SMT
    <3> QED
      BY <3>1, <3>2
  <2> QED
    BY <2>1, <2>2
<1>14. TypeOK'
  BY <1>2, <1>3, <1>6, <1>8, <1>9, <1>10, <1>13 DEF TypeOK, Within
<1>15. Tuned'
  BY <1>2 DEF Bounds, Tuned
<1> QED
  BY <1>11, <1>12, <1>14, <1>15 DEF Bounds

LEMMA StutterBounds == Bounds /\ UNCHANGED vars => Bounds'
BY DEF vars, Bounds, TypeOK, Tuned

(* The bounds hold in every state.                                          *)
LEMMA BoundsHold == Spec => []Bounds
<1>1. Bounds /\ [Next]_vars => Bounds'
  BY CalibrateBounds, LoopExact, StutterBounds DEF Next
<1> QED
  BY <1>1, InitBounds, PTL DEF Spec

(* A step after which the motors were driven is a loop, or changes nothing. *)
LEMMA DrivenByLoop == Next /\ on' => Loop
BY DEF Next, Calibrate

(* Every number of the controller keeps its type, the I terms their limit   *)
(* (ILimit), the motor outputs their byte.                                  *)
THEOREM TypeCorrect == Spec => []TypeOK
<1>1. Bounds => TypeOK
  BY DEF Bounds
<1> QED
  BY <1>1, BoundsHold, PTL

(* From a gyro's reading to the correction of its axis nothing ever wraps,  *)
(* wherever the gyros rested when they were calibrated; nor does the mix,   *)
(* with gyros that rested well inside their range: every motor gets the     *)
(* exact sum of the corrections its readings call for.                      *)
THEOREM MixNeverWraps == Spec => MixExact
<1>1. Bounds /\ [Next]_vars =>
        [on' => /\ \A a \in Axes : command'[a] = Wanted(a)
                /\ Centred => \A m \in Motors : pwm'[m] = Steps(Meant(m))]_vars
  BY LoopExact, DrivenByLoop
<1> QED
  BY <1>1, BoundsHold, PTL DEF Spec, MixExact

(* The exact sums of two opposite motors differ by twice the roll and pitch *)
(* corrections: the collective and the yaw cancel.                          *)
LEMMA OppositeMotors ==
    ASSUME collective' \in Int, \A a \in Axes : Wanted(a) \in Int
    PROVE  /\ Meant(1) \in Int /\ Meant(2) \in Int /\ Meant(3) \in Int /\ Meant(4) \in Int
           /\ Meant(1) - Meant(4) = 2 * (Wanted("roll") + Wanted("pitch"))
           /\ Meant(2) - Meant(3) = 2 * (Wanted("roll") - Wanted("pitch"))
<1> DEFINE r == Wanted("roll")
           p == Wanted("pitch")
           y == Wanted("yaw")
           b == collective'
<1>1. r \in Int /\ p \in Int /\ y \in Int /\ b \in Int
  BY DEF Axes
<1>2. /\ Meant(1) = b + 1 * r + 1 * p + (-1) * y
      /\ Meant(2) = b + 1 * r + (-1) * p + 1 * y
      /\ Meant(3) = b + (-1) * r + 1 * p + 1 * y
      /\ Meant(4) = b + (-1) * r + (-1) * p + (-1) * y
  BY DEF Meant, Side
<1> HIDE DEF r, p, y, b
<1>3. /\ Meant(1) \in Int /\ Meant(2) \in Int /\ Meant(3) \in Int /\ Meant(4) \in Int
      /\ Meant(1) - Meant(4) = 2 * (r + p) /\ Meant(2) - Meant(3) = 2 * (r - p)
  BY <1>1, <1>2, SMT
<1> QED
  BY <1>3 DEF r, p

(* A correction never slows the motor it favours against the opposite one,  *)
(* also when one of the two is at a limit.                                  *)
THEOREM NeverReverses == Spec => NoReversal
<1> DEFINE Favours ==
        on' /\ Centred =>
          /\ Wanted("roll") + Wanted("pitch") >= 0 => pwm'[1] >= pwm'[4]
          /\ Wanted("roll") + Wanted("pitch") <= 0 => pwm'[1] <= pwm'[4]
          /\ Wanted("roll") >= Wanted("pitch") => pwm'[2] >= pwm'[3]
          /\ Wanted("roll") <= Wanted("pitch") => pwm'[2] <= pwm'[3]
<1>1. ASSUME Bounds, Next PROVE Favours
  <2> SUFFICES ASSUME on', Centred
               PROVE  /\ Wanted("roll") + Wanted("pitch") >= 0 => pwm'[1] >= pwm'[4]
                      /\ Wanted("roll") + Wanted("pitch") <= 0 => pwm'[1] <= pwm'[4]
                      /\ Wanted("roll") >= Wanted("pitch") => pwm'[2] >= pwm'[3]
                      /\ Wanted("roll") <= Wanted("pitch") => pwm'[2] <= pwm'[3]
    OBVIOUS
  <2>1. Loop
    BY <1>1, DrivenByLoop
  <2>2. /\ Bounds' /\ \A a \in Axes : Wanted(a) \in Int
        /\ \A m \in Motors : pwm'[m] = Steps(Meant(m))
    BY <1>1, <2>1, LoopExact
  <2>3. collective' \in Int
    BY <2>2 DEF Bounds, TypeOK
  <2> DEFINE r == Wanted("roll")
             p == Wanted("pitch")
             m1 == Meant(1)
             m2 == Meant(2)
             m3 == Meant(3)
             m4 == Meant(4)
  <2>4. r \in Int /\ p \in Int
    BY <2>2 DEF Axes
  <2>5. /\ m1 \in Int /\ m2 \in Int /\ m3 \in Int /\ m4 \in Int
        /\ m1 - m4 = 2 * (r + p) /\ m2 - m3 = 2 * (r - p)
    BY <2>2, <2>3, OppositeMotors
  <2>6. /\ pwm'[1] = Steps(m1) /\ pwm'[2] = Steps(m2)
        /\ pwm'[3] = Steps(m3) /\ pwm'[4] = Steps(m4)
    BY <2>2, SMT DEF Motors
  <2> HIDE DEF r, p, m1, m2, m3, m4
  <2>7. /\ r + p >= 0 => m4 <= m1
        /\ r + p <= 0 => m1 <= m4
        /\ r >= p => m3 <= m2
        /\ r <= p => m2 <= m3
    BY <2>4, <2>5, SMT
  <2>8. Steps(m1) \in Int /\ Steps(m2) \in Int /\ Steps(m3) \in Int /\ Steps(m4) \in Int
    BY <2>5, StepsWithin
  <2>9. /\ r + p >= 0 => pwm'[4] <= pwm'[1]
        /\ r + p <= 0 => pwm'[1] <= pwm'[4]
        /\ r >= p => pwm'[3] <= pwm'[2]
        /\ r <= p => pwm'[2] <= pwm'[3]
    BY <2>5, <2>6, <2>7, StepsMonotone
  <2> QED
    BY <2>6, <2>8, <2>9, SMT DEF r, p
<1>2. Bounds /\ [Next]_vars => [Favours]_vars
  BY <1>1
<1> QED
  BY <1>2, BoundsHold, PTL DEF Spec, NoReversal
=============================================================================
