CONSTANTS
    ListingIds = {l1}
    Procs = {p1}
    Tags = {other}
    Other = other
    Junk = junk
    Places = {home, work}
    Photos = {f1}
    None = None
    MaxDraws = 3
SYMMETRY Symmetry
SPECIFICATION Spec
CHECK_DEADLOCK FALSE
INVARIANTS
    JitteredOnce
