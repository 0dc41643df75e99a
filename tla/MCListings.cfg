CONSTANTS
    Users = {owner, other}
    NoUser = NoUser
    ListingIds = {l1}
    NoListing = NoListing
    Procs = {p1, p2}
SYMMETRY Symmetry
SPECIFICATION Spec
CHECK_DEADLOCK FALSE
INVARIANTS
    TypeOK
    MailFollowsCommit
    EventsFollowCommit
    CompletedOncePerWorker
PROPERTIES
    FlagOnlyByToggle
    RecordsOutliveListings
    LinksLast
    ImplementsBoard
