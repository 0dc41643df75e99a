CONSTANTS
    Chain <- Revisions
    is_remote = TRUE
SPECIFICATION Spec
CHECK_DEADLOCK FALSE
INVARIANTS
    TypeOK
    NewCodeFindsItsSchema
PROPERTIES
    BreaksOnlyUnmarkedOrMixed
