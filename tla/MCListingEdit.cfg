CONSTANTS
    ListingIds = {l1}
    Procs = {p1, p2}
    Tags = {jars, other}
    Other = other
    Junk = junk
    Places = {home}
    Photos = {f1, f2}
    None = None
    MaxDraws = 2
SYMMETRY Symmetry
SPECIFICATION Spec
CHECK_DEADLOCK FALSE
INVARIANTS
    TypeOK
    NoExactPin
    PhotoIsStored
PROPERTIES
    NothingIsReverted
    DroppedStayDropped
    EditReplacesTags
    UntaggedOnlyByOverlap
