\* Builds of layouts 1, 3 and 4: one may have two migrations to run, and they
\* are of both stages.
CONSTANTS
    Targets = {1, 3, 4}
    Pre = {1, 2}
    Post = {3}
    NotOnClassic = {2}
    Raising = {3}
    Oldest = 1
    MinReader = 1
    MaxStarts = 6
    MaxFaults = 4
SPECIFICATION Spec
INVARIANTS
    VersionEarned
    IdentityKept
    StillOpens
CHECK_DEADLOCK FALSE
