SPECIFICATION LiveSpec
CONSTANTS
    Configurations <- Any
    Stragglers = FALSE
    NoRow = NoRow
    NoRoot = NoRoot
    MaxBoundary = 3
    MaxPot = 2
    MaxEpochs = 3
    MaxPending = 1
    MaxFaults = 3
INVARIANTS
    LiveLeavesKept
    WindowsFollowOn
    ProofsVerify
PROPERTIES
    LiveEpochsBecomeClaimable
    LivePotsPaidOut
