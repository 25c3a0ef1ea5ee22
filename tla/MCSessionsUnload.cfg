\* One session closes while another process waits for its package.
CONSTANTS
    p1 = p1
    p2 = p2
    k1 = k1
    k2 = k2
    Processes = {p1, p2}
    Packages = {k1, k2}
    Bases = {anchor, memory}
    Anchor = anchor
    None = None
    Dead = Dead
    NoPackage = NoPackage
    MaxStarts = 2
    MaxFaults = 0
SPECIFICATION Spec
SYMMETRY Perms
PROPERTY FreeOnceGone
CHECK_DEADLOCK FALSE
