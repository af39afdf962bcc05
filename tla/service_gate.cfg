SPECIFICATION ServiceSpec
CONSTANTS
    c1 = c1
    c2 = c2
    c3 = c3
    c4 = c4
    p1 = p1
    p2 = p2
    main = main
    next = next
    other = other
    Clients <- MCClients
    Concerts <- MCConcerts
    ConcertOf <- MCConcertOf
    Listed <- MCListed
    Opening <- MCOpening
    Registered <- MCRegistered
    Attentive <- MCAttentive
    Polls <- MCPolls
    PollOf <- MCPollOf
    MaxPerCycle = 2
    Cycle = 1
    Life = 3
    Second = 2
    MaxClock = 3
    MaxFaults = 1
    Calendar <- MCCalendar
    MaxSeats = 2
INVARIANTS
    TurnOpensGate
CHECK_DEADLOCK FALSE
