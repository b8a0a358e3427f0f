SPECIFICATION Spec
CONSTANTS
    Inputs <- MCInputs
    Collectives <- MCCollectives
    RestSums <- MCRestSums
    Pots <- MCPots
    Garbage <- MCGarbage
    Reversed = {"pitch"}
INVARIANT TypeOK
PROPERTIES MixExact NoReversal
