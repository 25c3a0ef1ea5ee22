\* Two modules whose hooks spin event loops, up to three frames deep.
CONSTANTS
    m1 = m1
    m2 = m2
    e1 = e1
    t1 = t1
    Modules = {m1, m2}
    Events = {e1}
    Triggers = {t1}
    EventOf <- MCEventOf
    Declared <- MCDeclared
    Packages <- TwoPackages
    NoModule = NoModule
    NoTrigger = NoTrigger
    ModuleThreads = FALSE
    MaxToggles = 2
    MaxHostCalls = 1
    MaxStack = 3
SPECIFICATION Spec
INVARIANTS
    NoOrphanedTrigger
    HooksAlone
    SweptIsSilent
CHECK_DEADLOCK FALSE
