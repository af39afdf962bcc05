SPECIFICATION WalletSpec
CONSTANTS
    u1 = u1
    u2 = u2
    c1 = c1
    Uses <- MCUses
    Charges <- MCCharges
    Amount <- MCAmount
    Initially = 1
PROPERTIES
    MovesExactly
CHECK_DEADLOCK FALSE
