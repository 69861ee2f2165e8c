\* A package whose main function uses no concurrency.
CONSTANTS
    Calls = {"Lock"}
    FuncNames = {"main", "(T)Test"}
    Modes = {"criticalPoints", "traceOnly", "criticOnly"}
    MaxNodes = 5
SPECIFICATION Spec
INVARIANTS
    ImportsFit
