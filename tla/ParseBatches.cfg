\* Two Ps, flushed in batches of all sizes and in any order.
CONSTANTS
    Goroutine = {g1, g2}
    Proc = {p1, p2}
    NoG = NoG
    Garbage = Garbage
    Unordered = Unordered
    Boot = p1
    Ticks = {}
    Clocks = "exact"
    MidWakeup = FALSE
    LocalExits = FALSE
    MaxEvents = 7
    Timers = {g2}
    Frequencies = {0, 1}
    Emits <- Emitted
SPECIFICATION Spec
INVARIANTS
    AsWritten
    AcceptedComplete
