\* A syscall returned later, on its clock, than its goroutine started.
CONSTANTS
    Goroutine = {g1, g2}
    Proc = {p1, p2}
    NoG = NoG
    Garbage = Garbage
    Unordered = Unordered
    Boot = p1
    Ticks = {1, 2}
    Clocks = "skewed"
    MidWakeup = FALSE
    LocalExits = FALSE
    TimerGs = {}
    MaxEvents = 5
    Emits <- OneSyscall
SPECIFICATION PipeSpec
INVARIANTS
    StreamConsistent
