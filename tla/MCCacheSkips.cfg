\* A save that repeats the value in the map; no write fails.
CONSTANTS
    k1 = k1
    v1 = v1
    v2 = v2
    Module = Module
    Keys = {k1}
    Values = {v1, v2}
    Absent = Absent
    Empty = Empty
    Main = Main
    IO = IO
    Callers = {Main, Module}
    Flushing = {Module}
    WritesFail = {}
    MaxSaves = 3
    MaxResets = 1
    MaxStarts = 1
SPECIFICATION Spec
PROPERTY SkipsWhatIsStored
CHECK_DEADLOCK FALSE
