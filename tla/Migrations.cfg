SPECIFICATION MigrationsSpec
CONSTANTS
    Contracts = {c1, c2}
INVARIANT
    AccountsKeepFields
PROPERTIES
    OldConfigBlocks
    AmountsSurviveOnlyAsZero
CHECK_DEADLOCK FALSE
