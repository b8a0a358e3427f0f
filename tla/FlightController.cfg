SPECIFICATION FairSpec
CONSTANTS
    ArmLoops = 3
    DelayLoops = 4
    CollectivePulses <- MCCollective
    YawPulses <- MCYaw
    Reversers = {"roll"}
INVARIANTS TypeOK NoRawIntegral NoInventedCentre
PROPERTIES ArmingKept CalibratesAtRest HoldToArm
