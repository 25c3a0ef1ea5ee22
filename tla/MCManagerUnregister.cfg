\* One module whose deactivate hook spins an event loop when the process ends.
CONSTANTS
    m1 = m1
    m2 = m2
    e1 = e1
    t1 = t1
    Modules = {m1}
    Events = {e1}
    Triggers = {t1}
    EventOf <- MCEventOf
    Declared <- MCDeclared
    Packages <- OnePackage
    NoModule = NoModule
    NoTrigger = NoTrigger
    ModuleThreads = FALSE
    MaxToggles = 1
    MaxHostCalls = 0
    MaxStack = 1
SPECIFICATION Spec
INVARIANT UnregisterAlone
CHECK_DEADLOCK FALSE
