CONSTANTS
    Limit = 2
    Ids = {i1, i2, i3, i4, i5, i6}
    Procs = {p1, p2}
SPECIFICATION FairSpec
INVARIANTS
    TypeOK
    BoundedOvershoot
    WindowBound
    OldHitsNotCounted
PROPERTIES
    KeepsAdmitting
    ChecksEnd
