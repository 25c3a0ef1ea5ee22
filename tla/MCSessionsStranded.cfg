\* One start, and a crash.
CONSTANTS
    p1 = p1
    p2 = p2
    k1 = k1
    k2 = k2
    Processes = {p1}
    Packages = {k1, k2}
    Bases = {anchor, memory}
    Anchor = anchor
    None = None
    Dead = Dead
    NoPackage = NoPackage
    MaxStarts = 1
    MaxFaults = 1
SPECIFICATION Spec
INVARIANT NeverStranded
CHECK_DEADLOCK FALSE
