\* One command; two failures.
SPECIFICATION Spec
CONSTANTS
    Options <- MCOptions
    Given <- MCGiven
    Outputs = {0, 1, 2}
    MaxFaults = 2
    Missing = {"missing"}
INVARIANTS NothingLeftRunning ZeroMeansDelivered InputsArrive
PROPERTIES SignalEndsIt
CHECK_DEADLOCK FALSE
