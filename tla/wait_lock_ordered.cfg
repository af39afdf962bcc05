SPECIFICATION PromptSpec
CONSTANTS
    i1 = i1
    i2 = i2
    NoOne = NoOne
    Requests <- MCRequests
    Instances <- MCInstances
    Host <- MCHost
    MaxClock = 2
    MaxFaults = 0
    MaxCrashes = 0
    OutlivesTTL = TRUE
INVARIANTS
    NeverRefused
    NobodyForgotten
PROPERTIES
    ImplementsMutex
    ServedInOrder
    EveryWaiterServed
CHECK_DEADLOCK FALSE
