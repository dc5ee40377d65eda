\* Two failures and a write to the file.
SPECIFICATION Spec
CONSTANTS
    Sizes <- MCSizes
    Buffers <- MCBuffers
    MaxPartUploads = 3
    MaxFaults = 2
    MaxEdits = 1
    Absent = Absent
    None = None
INVARIANTS NothingLeftOpen
PROPERTIES ImplementsPut
CHECK_DEADLOCK FALSE
