CONSTANTS
    Users = {owner, other}
    NoUser = NoUser
    ListingIds = {l1}
    NoListing = NoListing
    Procs = {p1, p2}
SYMMETRY Symmetry
SPECIFICATION Spec
CHECK_DEADLOCK FALSE
PROPERTIES
    RemovedIsFinal
