\* Every package of 9 nodes, instrumented in every way.
CONSTANTS
    Calls = {"Lock", "Done"}
    FuncNames = {"main", "(T)Test"}
    Modes = {"criticalPoints", "traceOnly", "criticOnly"}
    MaxNodes = 9
SPECIFICATION Spec
INVARIANTS
    Yields
    Reidentified
    OnlyAdds
    StopsOnly
