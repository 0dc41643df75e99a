CONSTANTS
    Users = {alice, bob}
    NoUser = NoUser
    Procs = {p1, p2}
    MaxHash = 3
SYMMETRY Symmetry
SPECIFICATION Spec
CHECK_DEADLOCK FALSE
INVARIANTS
    TypeOK
    SpentTokenDead
    SessionBoundToPassword
    VerifiedByInbox
PROPERTIES
    PasswordChangeNeedsInbox
    ImplementsIdentity
