SPECIFICATION LockedSpec
CONSTANTS
    i1 = i1
    i2 = i2
    c1 = c1
    NoOne = NoOne
    Requests <- MCRequests
    Instances <- MCInstances
    Host <- MCHost
    MaxClock = 1
    MaxFaults = 2
    MaxCrashes = 1
    OutlivesTTL = FALSE
    Charges <- MCCharges
    ServedBy <- MCServedBy
    Amount <- MCAmount
    Initially = 1
INVARIANTS
    LockedTypeOK
    NothingLeftBehind
PROPERTIES
    OnlyOwnerReleases
    ImplementsWallet
CHECK_DEADLOCK FALSE
