\* Sessions on every level over a few days, interrupted runs, one damaged file.
CONSTANTS
    Refs = {1, 2}
    Settings = {1}
    Days = 3
    PeriodDays = 2
    MissingGrace <- MCMissingGrace
    QuarantineGrace <- MCQuarantineGrace
    None = None
    Damaged = Damaged
    Short = Short
    MaxFaults = 1
    MaxStores = 2
    MaxStarts = 4
SPECIFICATION Spec
INVARIANTS
    StayingPutIsSafe
PROPERTIES
    ReadableKept
    MissingWaits
    GraceKept
    KeyFailureSpares
CHECK_DEADLOCK FALSE
