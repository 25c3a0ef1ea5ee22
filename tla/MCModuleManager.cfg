\* One module found twice, its own threads, no nested event loop; hooks that
\* return and hooks that do not.
CONSTANTS
    m1 = m1
    m2 = m2
    e1 = e1
    t1 = t1
    Modules = {m1}
    Events = {e1}
    Triggers = {t1}
    EventOf <- MCEventOf
    Declared <- MCDeclared
    Packages <- SamePackageTwice
    NoModule = NoModule
    NoTrigger = NoTrigger
    ModuleThreads = TRUE
    MaxToggles = 2
    MaxHostCalls = 1
    MaxStack = 0
SPECIFICATION FairSpec
INVARIANTS
    ListenersConsistent
    SweptIsSilent
PROPERTIES
    ImplementsDelivery
    StartupSettles
    DeactivationEnds
    ShutdownReturns
CHECK_DEADLOCK FALSE
