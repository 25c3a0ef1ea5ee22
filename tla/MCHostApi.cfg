\* Two modules, three records, three calls of which two can nest on one thread.
CONSTANTS
    k1 = k1
    k2 = k2
    k3 = k3
    t1 = t1
    Main = Main
    NoOne = NoOne
    NoRecord = NoRecord
    Modules = {m1, m2}
    Grants = {0, 1}
    Records = {r1, r2, r3}
    Threads = {Main, t1}
    Calls = {k1, k2, k3}
    ThreadOf <- MCThreadOf
    Handles = {h1}
SPECIFICATION Spec
SYMMETRY Symmetry
INVARIANTS
    LiveIsCurrent
    AttributionFollows
    IdleMeansAlone
    SweptForGood
    NoLostWakeup
CHECK_DEADLOCK FALSE
