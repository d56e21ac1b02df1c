SPECIFICATION Spec
CONSTANTS
    Jobs = {j1, j2}
    Objects = {g1, g2}
    Ceiling = 4
    Budget = 1
    NoSlot = NoSlot
INVARIANTS NotAliased NoLeak BudgetExact
PROPERTIES IdsOnce
SYMMETRY BufferSymmetry
CHECK_DEADLOCK FALSE
