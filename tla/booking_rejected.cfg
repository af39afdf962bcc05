SPECIFICATION FairBookingSpec
CONSTANTS
    r1 = r1
    r2 = r2
    r3 = r3
    seatA = seatA
    seatB = seatB
    NoOne = NoOne
    Requests <- MCRequests
    Resources <- MCResources
    ResourceOf <- MCResourceOf
    Seeded <- MCSeeded
    OutlivesTTL = FALSE
    OutlivesDeadline = FALSE
    Window = 1
    MaxFaults = 0
    MaxCrashes = 0
PROPERTIES
    UnpaidSeatsReturn
CHECK_DEADLOCK FALSE
