SPECIFICATION Spec
CONSTANTS
    MaxTurns = 2
    Inputs <- Programs
    Database <- Parsed
    DoBind <- BindAllModules
    DoSignatures <- FixFuns
    DoCheck <- Checks
    DoEliminate <- EliminateDeadCode
    DoConvert <- ConvertClosures
INVARIANT StopsAtErrors
INVARIANT InOrder
INVARIANT WellTyped
INVARIANT SameEffects
INVARIANT ThisReaches
PROPERTY PassesReport
CHECK_DEADLOCK FALSE
