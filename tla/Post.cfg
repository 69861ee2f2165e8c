\* Two goroutines and two Ps that stop the world each for itself.
CONSTANTS
    Goroutine = {g1, g2}
    Proc = {p1, p2}
    NoG = NoG
    Garbage = Garbage
    Unordered = Unordered
    GlobalSTW = FALSE
    MaxTrace = 7
    Inputs = {}
SPECIFICATION KindSpec
SYMMETRY Symmetry
INVARIANTS
    PostTypeOK
    NoNilDereference
    StartsExclude
    StartsLinked
    WokenWasBlocked
    FirstStartStack
    LinksFit
PROPERTIES
    SchedulerRun
    LinksStay
