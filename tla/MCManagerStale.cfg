\* One module, deactivated and activated again while an exec task waits.
CONSTANTS
    m1 = m1
    m2 = m2
    e1 = e1
    t1 = t1
    Modules = {m1}
    Events = {e1}
    Triggers = {t1}
    EventOf <- MCEventOf
    Declared <- MCDeclared
    Packages <- OnePackage
    NoModule = NoModule
    NoTrigger = NoTrigger
    ModuleThreads = FALSE
    MaxToggles = 2
    MaxHostCalls = 0
    MaxStack = 0
SPECIFICATION Spec
INVARIANT NoStaleEntry
CHECK_DEADLOCK FALSE
