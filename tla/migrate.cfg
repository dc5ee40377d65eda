\* Two runs of migrate, one failure or kill, one edit between them.
SPECIFICATION Spec
CONSTANTS
    Packages = {"torch", "pillow"}
    Predictors <- MCPredictors
    PyFiles = {"model.py"}
    FileOf <- MCFileOf
    RunLists <- MCRunLists
    None = None
    Truncated = Truncated
    MaxCommands = 2
    MaxFaults = 1
    MaxEdits = 1
INVARIANTS PackagesSurvive OnlyWhatWasAccepted
CHECK_DEADLOCK FALSE
