\* Two threads on one key; a crash and a restart; what must reach the disk.
CONSTANTS
    k1 = k1
    v1 = v1
    v2 = v2
    Module = Module
    Keys = {k1}
    Values = {v1, v2}
    Absent = Absent
    Empty = Empty
    Main = Main
    IO = IO
    Callers = {Main, Module}
    Flushing = {Module}
    WritesFail = {Main}
    MaxSaves = 2
    MaxResets = 1
    MaxStarts = 2
SPECIFICATION FairSpec
INVARIANTS
    NothingForgotten
    ResetStays
PROPERTY SavesReachDisk
CHECK_DEADLOCK FALSE
