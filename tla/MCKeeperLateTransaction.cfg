SPECIFICATION KeeperSpec
CONSTANTS
    Configurations <- Real
    Stragglers = TRUE
    NoRow = NoRow
    NoRoot = NoRoot
    MaxBoundary = 3
    MaxPot = 2
    MaxEpochs = 3
    MaxPending = 1
    MaxFaults = 3
INVARIANTS
    PublishedLeavesKept
