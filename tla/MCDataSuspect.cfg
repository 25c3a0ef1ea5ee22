\* A file damaged twice, and an object whose key the later sessions lack.
CONSTANTS
    Refs = {1, 2}
    Settings = {1}
    Days = 1
    PeriodDays = 2
    MissingGrace <- MCMissingGrace
    QuarantineGrace <- MCQuarantineGrace
    None = None
    Damaged = Damaged
    Short = Short
    MaxFaults = 2
    MaxStores = 3
    MaxStarts = 3
SPECIFICATION Spec
PROPERTIES
    UntouchedWhenSuspect
CHECK_DEADLOCK FALSE
