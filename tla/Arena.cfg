SPECIFICATION Spec
CONSTANTS
    o1 = o1
    o2 = o2
    o3 = o3
    g1 = g1
    g2 = g2
    g3 = g3
    Obj <- MCObj
    Guard <- MCGuard
SYMMETRY Symmetry
INVARIANT TypeOK
INVARIANT CountsExact
INVARIANT NoAlias
INVARIANT BorrowsValid
PROPERTY KeepsRules
CHECK_DEADLOCK FALSE
