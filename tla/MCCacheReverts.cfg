\* A reset beside a flush and loads; no write fails.
CONSTANTS
    k1 = k1
    v1 = v1
    v2 = v2
    Module = Module
    Keys = {k1}
    Values = {v1, v2}
    Absent = Absent
    Empty = Empty
    Main = Main
    IO = IO
    Callers = {Main, Module}
    Flushing = {Module}
    WritesFail = {}
    MaxSaves = 2
    MaxResets = 1
    MaxStarts = 1
SPECIFICATION Spec
INVARIANT ResetIsFinal
CHECK_DEADLOCK FALSE
