\* Two Ps whose clocks may disagree, system calls and the GC.
CONSTANTS
    Goroutine = {g1, g2}
    Proc = {p1, p2}
    NoG = NoG
    Garbage = Garbage
    Unordered = Unordered
    Boot = p1
    Ticks = {1, 2}
    Clocks = "skewed"
    MidWakeup = FALSE
    LocalExits = TRUE
    MaxEvents = 5
    Emits <- SyscallsAndGC
SPECIFICATION FairSpec
INVARIANTS
    OrderTypeOK
    NoStrayExit
PROPERTY
    Terminates
