SPECIFICATION PunctualSpec
CONSTANTS
    r1 = r1
    r2 = r2
    seatA = seatA
    p1 = p1
    p2 = p2
    c1 = c1
    NoOne = NoOne
    Requests <- MCRequests
    Resources <- MCResources
    ResourceOf <- MCResourceOf
    Seeded <- MCUnseeded
    OutlivesTTL = FALSE
    OutlivesDeadline = TRUE
    Window = 1
    MaxFaults = 1
    MaxCrashes = 1
    Uses <- MCUses
    Charges <- MCCharges
    Amount <- MCAmount
    Pays <- MCPays
    Initially = 1
SYMMETRY Twins
INVARIANTS
    PaymentTypeOK
    MutualExclusion
    OneRowPerSeat
    NoDoubleBooking
    BookedSeatIsTaken
    AnswerIsTrue
    OfferedIsFree
    CompletedWasPaid
    NeverOverdrawn
    RefusedKeepsMoney
PROPERTIES
    LockImplementsMutex
    SeatsAreLeased
    NeverExpiredEarly
    MovesExactly
CHECK_DEADLOCK FALSE
