\* One run of migrate and no failure.
SPECIFICATION Spec
CONSTANTS
    Packages = {"torch", "pillow"}
    Predictors <- MCPredictors
    PyFiles = {"model.py"}
    FileOf <- MCFileOf
    RunLists <- MCRunLists
    None = None
    Truncated = Truncated
    MaxCommands = 1
    MaxFaults = 0
    MaxEdits = 0
INVARIANT ConfigSurvives
CHECK_DEADLOCK FALSE
