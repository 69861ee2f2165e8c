\* GC, assists and regions of goroutines that create each other and block.
CONSTANTS
    Goroutine = {g1, g2}
    Proc = {p1, p2}
    NoG = NoG
    Garbage = Garbage
    Unordered = Unordered
    Boot = p1
    Ticks = {}
    Clocks = "exact"
    MidWakeup = FALSE
    LocalExits = FALSE
    TimerGs = {}
    MaxEvents = 7
    Emits <- Spans
SPECIFICATION ReadSpec
SYMMETRY Symmetry
INVARIANTS
    LegalAccepted
    GoroutineTimes
    RegionTimes
    UtilizationHolds
