CONSTANTS
    Users = {alice}
    NoUser = NoUser
    Procs = {p1, p2}
    MaxHash = 3
SYMMETRY Symmetry
SPECIFICATION Spec
CHECK_DEADLOCK FALSE
INVARIANTS
    ResetSignsOutEverySession
