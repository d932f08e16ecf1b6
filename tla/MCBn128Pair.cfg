CONSTANTS
    FqP <- MCFqP
    FrR <- MCFrR
    CurveB <- MCCurveB
    G1Gen <- MCG1Gen
    G2Pts <- MCG2Pts
    PairInputs <- MCPairInputs
    Gases <- MCGases
SPECIFICATION Spec
INVARIANTS TypeOK PairLoopInv
PROPERTY PairSpecRefined
