SPECIFICATION Spec
CONSTANT MaxInput = 1000
CHECK_DEADLOCK FALSE
INVARIANTS
    SqrtIsFloor
    FactorsAreConvexCurves
    LogIsLogarithm
    WorkRaisesScore
    JurorsHaveWorked
    CallerMovesScoreLittle
