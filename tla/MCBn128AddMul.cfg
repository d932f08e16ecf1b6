CONSTANTS
    FqP <- MCFqP
    FrR <- MCFrR
    CurveB <- MCCurveB
    G1Gen <- MCG1Gen
    G2Pts <- MCG2Pts
    PointInputs <- MCPointInputs
    PointGases <- MCPointGases
SPECIFICATION Spec
INVARIANTS TypeOK
PROPERTY AddMulSpecRefined
