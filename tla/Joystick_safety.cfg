SPECIFICATION Spec
CONSTANT Positions <- MCPositions
INVARIANTS TypeOK NoCreep
