\* Two goroutines that wake each other, one of them a timer goroutine, or make
\* system calls that block, or do not, and return late; two Ps with one clock.
CONSTANTS
    Goroutine = {g1, g2}
    Proc = {p1, p2}
    NoG = NoG
    Garbage = Garbage
    Unordered = Unordered
    Boot = p1
    Ticks = {1, 2, 3}
    Clocks = "agree"
    MidWakeup = FALSE
    LocalExits = FALSE
    TimerGs = {g2}
    MaxEvents = 9
    Emits <- WakeupsAndSyscalls
SPECIFICATION PipeSpec
ACTION_CONSTRAINT OneKindNext
INVARIANTS
    LegalAccepted
    FutileInvisible
    NoBrokenMerge
    ChainOrder
    BatchOrder
    NothingLost
    TimelineRecovered
    AssumedInput
    SysCallLinks
