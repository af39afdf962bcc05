SPECIFICATION PunctualSpec
CONSTANTS
    r1 = r1
    r2 = r2
    seatA = seatA
    p1 = p1
    p2 = p2
    c1 = c1
    NoOne = NoOne
    Requests <- MCRequests
    Resources <- MCResources
    ResourceOf <- MCResourceOf
    Seeded <- MCResources
    OutlivesTTL = FALSE
    OutlivesDeadline = FALSE
    Window = 1
    MaxFaults = 0
    MaxCrashes = 0
    Uses <- MCUses
    Charges <- MCCharges
    Amount <- MCAmount
    Pays <- MCPays
    Initially = 1
PROPERTIES
    PaidStaysPaid
CHECK_DEADLOCK FALSE
