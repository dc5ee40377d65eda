\* Two pushes of a project whose files, packages and requirements change.
SPECIFICATION Spec
CONSTANTS
    Files = {"w", "d"}
    DirFiles = {"d"}
    Small = {"s"}
    Big = {"b"}
    PackageSets = {{}, {"p"}, {"q"}}
    Projects <- MCProjects
    Requirements = {"r"}
    None = None
    Torn = Torn
    Linked = Linked
    MaxEdits = 1
    MaxFaults = 1
    MaxPushes = 2
    MaxPolls = 1
INVARIANTS ImageOfThisBuild PostedIsStored PostedWeightsOfBuild PostedTarsOfImage
PROPERTY PushEnds
CHECK_DEADLOCK FALSE
