\* Two processes, three commands, one failure.
SPECIFICATION Spec
CONSTANTS
    Procs = {"a", "b"}
    Files <- MCFiles
    Ignored <- MCIgnored
    Hidden <- MCHidden
    Contents = {"x", "y"}
    None = None
    MaxCommands = 3
    MaxFaults = 1
    MaxEdits = 1
INVARIANT PullIsOneVersion
PROPERTY PushReleasesItsSource
CHECK_DEADLOCK FALSE
