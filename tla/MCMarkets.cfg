SPECIFICATION MarketsSpec
CONSTANTS
    c1 = c1
    c2 = c2
    eth = eth
    usdc = usdc
    alice = alice
    bob = bob
    NoAccount = NoAccount
    NoQuote = NoQuote
    Coins = {c1, c2}
    Quotes = {eth, usdc}
    Accounts = {alice, bob}
    LaunchPlans <- MCLaunchPlans
    MaxTime = 3
    BPS = 10
    PotQuotes = {eth}
    Modules = {"BuybackBurnVault", "FloorVault"}
    NoModule = "none"
    QuoteIsCurrency0 <- MCCurrency0
    OpeningPrice = 10
    Prices = {8, 10, 12}
    Fees = {0, 1}
    MaxBlock = 3
    MaxPending = 1
    SqrtBps = 10
    MaxPump = 1
    MaxImpact = 1
    BuybackCooldown = 2
    OpeningTick = 0
    Ticks <- MCTicks
    FloorFees = {0, 2}
    MaxFloorPending = 2
    NearOffset = 2
    FarOffset = 7
    Spacing = 3
    MinUsableTick <- MCMinUsableTick
    MaxUsableTick = 12
    FloorCooldown = 2
INVARIANTS
    MarketsTypeOK
    OwnFeesOnly
    FloorFeesKept
    EdgeIsHighest
    HookAcceptsBands
    OneSetOfTerms
PROPERTIES
    BuybackNearOpening
    PumpLiftsNoFloor
    RateNeverRises
CHECK_DEADLOCK FALSE
