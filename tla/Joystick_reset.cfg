SPECIFICATION Spec
CONSTANT Positions <- MCPositions
INVARIANT ResetStopsThrottle
