\* A program that makes a channel.
CONSTANTS
    Main = main
    Tracer = tracer
    Watcher = watcher
    Goroutine = {main, tracer, watcher, g1, g2}
    Proc = {p1}
    Boot = p1
    NoG = NoG
    Garbage = Garbage
    Unordered = Unordered
    GlobalSTW = TRUE
    MaxTrace = 6
    Inputs = {}
    Parks = {"GoBlockRecv"}
    Uses = {"ChMake"}
    Regions = {}
    Resources = {1}
SPECIFICATION GoatSpec
INVARIANT NamesKept
