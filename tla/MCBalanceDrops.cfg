SPECIFICATION MCSpec
CONSTANTS
    Running = {"spins"}
    X = X
    Y = Y
    Z = Z
    A = A
    B = B
    C = C
    Requests = {r1, r2}
    Nobody = Nobody
    MaxFaults = 1
    Wallets = {A, B}
    Txs = {t1, t2}
    Kinds = {"checkIn", "recover", "reset", "spin", "earn"}
    Prize = 1
    Pts = 5
    Cost = 1
    PerCheckIn = 2
    MaxDay = 3
    MaxLedger = 36
    Members = {A, B, C}
    Bogus = Bogus
    Referees = {A}
    Applied = {B, C}
    ApiProcesses = {p1, p2}
    Signup = 3
    Commission = 1
    LedgerAttempts = 2
    MaxEarn = 1
    LinkedWallets = {A, B, C}
    HomeOf <- MCHomeOf
    LinkBonus = 2
    MaxAccounts = 4
    MaxTokens = 2
    MaxAwards = 1
    OnchainQuests = {swap}
    DelayQuests = {visit}
    Target = 2
    SyncsOverlap = FALSE
    NoQuest = NoQuest
    MaxTrouble = 2
    Hashes = {"tx", "userOp", "fake", "bigger"}
    Sweep <- MCSweep
    Users = {1, 2}
    Tiers = {1, 2}
    Threshold <- MCThreshold
    Prizes = 2
    VerifyAttempts = 2
    MayForce = TRUE
    NoSweep = NoSweep
    NoCopy = NoCopy
    NoHash = NoHash
    NoUser = 0
    Claims = {X, Y, Z}
    Amount <- MCAmount
    MaxAuto = 2
    DailyCap = 2
    Funds = 4
    MaxAttempts = 2
    Processes = {server}
    Faults = {"sign", "lost answer", "rejected"}
    MaxCrashes = 1
    MaxForeign = 1
    NoTx = NoTx
    NoClaim = NoClaim
PROPERTY PointsKept
CHECK_DEADLOCK FALSE
