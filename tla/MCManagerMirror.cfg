\* One module that subscribes from a thread of its own while it is deactivated.
CONSTANTS
    m1 = m1
    m2 = m2
    e1 = e1
    t1 = t1
    Modules = {m1}
    Events = {e1}
    Triggers = {t1}
    EventOf <- MCEventOf
    Declared <- MCDeclared
    Packages <- OnePackage
    NoModule = NoModule
    NoTrigger = NoTrigger
    ModuleThreads = TRUE
    MaxToggles = 1
    MaxHostCalls = 0
    MaxStack = 0
SPECIFICATION Spec
INVARIANT MirrorCurrent
CHECK_DEADLOCK FALSE
