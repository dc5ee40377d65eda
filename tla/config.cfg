\* An excerpt of the embedded tables, every kind of cog.yaml, one failure.
SPECIFICATION Spec
CONSTANTS
    Images <- MCImages
    TorchRows <- MCTorchRows
    TFRows <- MCTFRows
    Yamls <- MCYamls
    Denied = {"PATH"}
    Malformed = "novalue"
    BasePackages = {"git", "curl"}
    MinPython <- MCMinPython
    MinTorch <- MCMinTorch
    MinCUDA <- MCMinCUDA
    MonobaseVenvs <- MCVenvs
    None = None
    MaxFaults = 1
INVARIANTS
    PyTorchCompletes
    OneCUDAForTorch
    ImageHasWhatIsAsked
    BaseImagesExist
CHECK_DEADLOCK FALSE
