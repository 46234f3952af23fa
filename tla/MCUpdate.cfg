CONSTANTS
    MaxVersion = 2
    Keep = 1
    StopsFirst = TRUE
    MaxUpdates = 2
    MaxWrites = 1
    MaxSnapshots = 2
    MaxFaults = 1
SPECIFICATION MachineSpec
INVARIANT OldBinaryRemains
PROPERTIES ReportIsTrue NothingUntold LastCopyIsKept
CHECK_DEADLOCK FALSE
