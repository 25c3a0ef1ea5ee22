\* Two processes on two packages, each start either of them; three starts.
CONSTANTS
    p1 = p1
    p2 = p2
    k1 = k1
    k2 = k2
    Processes = {p1, p2}
    Packages = {k1, k2}
    Bases = {anchor, memory}
    Anchor = anchor
    None = None
    Dead = Dead
    NoPackage = NoPackage
    MaxStarts = 3
    MaxFaults = 1
SPECIFICATION Spec
SYMMETRY Perms
INVARIANTS
    OneSession
    LeftoversAreNamed
PROPERTY SavesAddUp
CHECK_DEADLOCK FALSE
