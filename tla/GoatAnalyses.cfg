\* main, goat.Watch, the trace reader and one more goroutine; one channel.
CONSTANTS
    Main = main
    Tracer = tracer
    Watcher = watcher
    Goroutine = {main, tracer, watcher, g1, g2}
    Proc = {p1}
    Boot = p1
    NoG = NoG
    Garbage = Garbage
    Unordered = Unordered
    GlobalSTW = TRUE
    MaxTrace = 11
    Inputs = {}
    Parks = {"GoBlockRecv"}
    Uses = {"ChMake", "ChSend"}
    Regions = {"UserRegionStart", "UserRegionEnd"}
    Resources = {1}
SPECIFICATION GoatSpec
SYMMETRY Symmetry
INVARIANTS
    NoPanic
    GlobalVerdict
    LeaksLive
    TreeHoldsApp
    VerdictsAgree
    TablesAgree
    Predecessors
