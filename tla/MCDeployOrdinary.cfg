CONSTANTS
    Chain <- Revisions
    is_remote = TRUE
SPECIFICATION Spec
CHECK_DEADLOCK FALSE
PROPERTIES
    OrdinaryMigrationIsSafe
