SPECIFICATION FeesSpec
CONSTANTS
    c1 = c1
    c2 = c2
    eth = eth
    usdc = usdc
    alice = alice
    key1 = key1
    key2 = key2
    Coins = {c1, c2}
    Quotes = {eth, usdc}
    Accounts = {alice}
    NoAccount = NoAccount
    NoQuote = NoQuote
    NoCoin = NoCoin
    NoRoot = NoRoot
    LaunchPlans <- MCLaunchPlans
    TradeSizes = {3}
    Attestors = {key1, key2}
    Treasury = Treasury
    Attestations <- MCAttestations
    AuthorLock = 1
    VetoWindow = 1
    ClaimPeriod = 1
    Roots <- MCRoots
    MaxEpochs = 2
    MaxTime = 3
    MaxFees = 4
    MaxCredits = 2
    BPS = 4
INVARIANTS
    VaultSolvent
    AuthorShareHonoured
    PayoutsFromOpenEpochs
    RewardsBacked
    MarketBudget
    PaidOnce
    HonestLeavesFit
PROPERTIES
    AuthorReserveLocked
    ImplementsEscrow
