------------------------------ MODULE FeeVault ------------------------------
(***************************************************************************)
(* FeeVault.sol: every memefun fee until whoever earned it claims it,      *)
(* together with the launches and trades that feed it.                     *)
(*                                                                         *)
(* Fees are ERC-6909 claims in the Uniswap PoolManager (claims below);     *)
(* the vault's own ledgers say who they are owed to.  A claim zeroes its   *)
(* ledger, then unlocks the PoolManager and burns and takes one payout     *)
(* after another; each take hands control to the recipient.  due holds the *)
(* payouts a claim still has to make, so that the steps a recipient can    *)
(* take in the middle of a claim are steps of the model.                   *)
(***************************************************************************)
EXTENDS MemeFunHook, Amounts

CONSTANTS
    TradeSizes,     \* quote amounts trades are made with
    AuthorLock,     \* AUTHOR_TREASURY_LOCK_PERIOD, 180 days
    Attestations,   \* author attestations the backend keys have signed
    Attestors,      \* keys the owner may set as config.tweetAttestor
    Treasury,       \* config.treasury()
    NoCoin,         \* slot of a payout that belongs to no coin
    MaxFees,        \* bound on the claims outstanding per currency
    MaxCredits      \* bound on the credits counted per tweet coin and currency

\* The contracts that hold claims.
Vault == "FeeVault"
Holders == {Vault, "BuybackBurnVault", "HolderRewardDistributor", "FloorVault"}

Slots == Coins \cup {NoCoin}

ASSUME VaultAssumption ==
    /\ TradeSizes \subseteq Nat \ {0}
    /\ AuthorLock \in Nat
    /\ NoCoin \notin Coins
    /\ MaxFees \in Nat /\ MaxCredits \in Nat
    /\ \A p \in LaunchPlans : p.authorShareBps \in 0 .. BPS
    /\ NoAccount \notin Attestors
    /\ Treasury \notin Accounts \cup {NoAccount}
    /\ \A a \in Attestations : a.wallet \in Accounts /\ a.deadline \in Nat

VARIABLES
    claims,             \* PoolManager ERC-6909 balances: holder, currency
    platformPending,    \* by currency
    referralPending,    \* by referrer and currency
    creatorPending,     \* _coinPending.creator, by coin and currency
    destinationPending, \* _coinPending.destination
    authorPending,      \* _authorPending
    attribution,        \* tweetAttribution; share 0 when there is none
    tweetAttestor,      \* config.tweetAttestor, NoAccount when disabled
    due,                \* payouts of the claim in progress, by slot and currency
    payee,              \* history: who that claim pays, NoAccount when there is none
    authorHistory       \* history: what was credited to the creator side of a tweet coin

ledgers == <<platformPending, referralPending, creatorPending, destinationPending,
             authorPending>>
vaultVars == <<claims, platformPending, referralPending, creatorPending,
               destinationPending, authorPending, attribution, tweetAttestor, due, payee,
               authorHistory>>
allVaultVars == <<hookVars, vaultVars>>

Zero == [q \in Quotes |-> 0]
NoTweet == [share |-> 0, verifyBy |-> 0, wallet |-> NoAccount]

VaultInit ==
    /\ HookInit
    /\ claims = [h \in Holders |-> Zero]
    /\ platformPending = Zero
    /\ referralPending = [a \in Accounts |-> Zero]
    /\ creatorPending = [c \in Coins |-> Zero]
    /\ destinationPending = [c \in Coins |-> Zero]
    /\ authorPending = [c \in Coins |-> Zero]
    /\ attribution = [c \in Coins |-> NoTweet]
    /\ tweetAttestor \in Attestors \cup {NoAccount}
    /\ due = [s \in Slots |-> Zero] /\ payee = NoAccount
    /\ authorHistory = [c \in Coins |-> [q \in Quotes |->
                           [base |-> 0, accrued |-> 0, credits |-> 0]]]

\* A claim is paying out: the reentrancy guard is taken and the PoolManager is
\* unlocked, so nothing that takes either can run.
Locked == \E s \in Slots, q \in Quotes : due[s][q] > 0

-----------------------------------------------------------------------------
\* Collecting fees

\* Claims outstanding in a currency, and the bound on them.
Outstanding(q) == Total([h \in Holders |-> claims[h][q]])
RoomFor(coin, attr, fees) ==
    \A q \in Quotes :
        /\ Outstanding(q) + fees[q] <= MaxFees
        /\ attr.share > 0 => authorHistory[coin][q].credits < MaxCredits

\* The author's part of what a trade credits to the creator side of a coin.
AuthorPart(creator, attr) == (creator * attr.share) \div BPS

\* MemeFunHook._collect and FeeVault.credit: mint the fee to the vault and
\* record who it is owed to.  fees is the fee per currency (a trade has one, a
\* launch one per first buy); attr is the tweet attribution the credits see.  The
\* history goes by the attribution the coin ends up with.
Collect(coin, terms, attr, fees, referrer) ==
    LET share == [q \in Quotes |->
                    Split(fees[q], terms.mode = "CREATOR", terms.platformShareBps,
                          terms.referralShareBps, terms.creatorKeepBps,
                          referrer # NoAccount)]
        author == [q \in Quotes |-> AuthorPart(share[q].creator, attr)]
    IN  /\ claims' = [claims EXCEPT ![Vault] = [q \in Quotes |-> @[q] + fees[q]]]
        /\ platformPending' = [q \in Quotes |-> platformPending[q] + share[q].platform]
        /\ referralPending' =
             IF referrer = NoAccount THEN referralPending
             ELSE [referralPending EXCEPT ![referrer] =
                       [q \in Quotes |-> @[q] + share[q].referral]]
        /\ authorPending' = [authorPending EXCEPT ![coin] =
               [q \in Quotes |-> @[q] + author[q]]]
        /\ creatorPending' = [creatorPending EXCEPT ![coin] =
               [q \in Quotes |-> @[q] + (share[q].creator - author[q])]]
        /\ destinationPending' = [destinationPending EXCEPT ![coin] =
               [q \in Quotes |-> @[q] + share[q].destination]]
        /\ authorHistory' =
             IF attribution'[coin].share = 0 THEN authorHistory
             ELSE [authorHistory EXCEPT ![coin] = [q \in Quotes |->
                       [base |-> @[q].base + share[q].creator,
                        accrued |-> @[q].accrued + author[q],
                        credits |-> IF fees[q] = 0 THEN @[q].credits
                                    ELSE @[q].credits + 1]]]

FeesOf(q, fee) == [x \in Quotes |-> IF x = q THEN fee ELSE 0]

\* The tweet attribution a launch registers before its first buys.
AttributionOf(p) ==
    IF p.authorShareBps = 0 THEN NoTweet
    ELSE [share |-> p.authorShareBps, verifyBy |-> now + AuthorLock, wallet |-> NoAccount]

\* The fee of the creator's first buy on each market, at the coin's own rate.
FirstBuyFees(p, firstBuys) ==
    [q \in Quotes |-> IF q \in p.quotes THEN OnGross(firstBuys[q], p.feeBps) ELSE 0]

\* Faulty variant of Launch: the attribution is registered after the first buys.
LaunchAttributesLast(p, firstBuys) ==
    /\ ~Locked
    /\ RegisterPools(p)
    /\ RoomFor(p.coin, AttributionOf(p), FirstBuyFees(p, firstBuys))
    /\ attribution' = [attribution EXCEPT ![p.coin] = AttributionOf(p)]
    /\ Collect(p.coin, TermsOf(p), NoTweet, FirstBuyFees(p, firstBuys), NoAccount)
    /\ UNCHANGED <<tweetAttestor, due, payee>>

\* MemeFunFactory._launch: attribution, markets, then the creator's first buys,
\* at the coin's own fee, in one transaction that unlocks the PoolManager.
Launch(p, firstBuys) ==
    /\ ~Locked
    /\ RegisterPools(p)
    /\ RoomFor(p.coin, AttributionOf(p), FirstBuyFees(p, firstBuys))
    /\ attribution' = [attribution EXCEPT ![p.coin] = AttributionOf(p)]
    /\ Collect(p.coin, TermsOf(p), AttributionOf(p), FirstBuyFees(p, firstBuys), NoAccount)
    /\ UNCHANGED <<tweetAttestor, due, payee>>

\* The fee of a trade on m: the gross quote amount is known (exact-input buy and
\* sell), or the net one is (exact output).
TradeFeeDefined(m, exactIn) ==
    IF exactIn THEN OnGrossDefined(Rate(m)) ELSE OnNetDefined(Rate(m))
TradeFee(m, exactIn, size) ==
    IF exactIn THEN OnGross(size, Rate(m)) ELSE OnNet(size, Rate(m))

\* A trade that pays a fee.  Only the router names a referrer, and the router
\* has to unlock the PoolManager: a recipient that trades in the middle of a
\* claim has none.
Trade(m, exactIn, size, referrer) ==
    /\ Registered(m)
    /\ referrer # NoAccount => ~Locked
    /\ TradeFeeDefined(m, exactIn)
    /\ TradeFee(m, exactIn, size) # 0
    /\ UNCHANGED <<hookVars, attribution, tweetAttestor, due, payee>>
    /\ LET fees == FeesOf(m[2], TradeFee(m, exactIn, size))
       IN  /\ RoomFor(m[1], attribution[m[1]], fees)
           /\ Collect(m[1], pools[m], attribution[m[1]], fees, referrer)

-----------------------------------------------------------------------------
\* Claims.  Each takes the reentrancy guard, zeroes its ledger and leaves the
\* payout in due.

\* claimCreator and claimCreatorFor
ClaimCreator(caller, m) ==
    LET c == m[1]  q == m[2]
    IN  /\ ~Locked
        /\ Registered(m)
        /\ caller = creatorOf[c]
        /\ creatorPending[c][q] # 0
        /\ creatorPending' = [creatorPending EXCEPT ![c][q] = 0]
        /\ due' = [due EXCEPT ![c][q] = creatorPending[c][q]] /\ payee' = caller
        /\ UNCHANGED <<hookVars, claims, platformPending, referralPending,
                       destinationPending, authorPending, attribution, tweetAttestor,
                       authorHistory>>

\* claimCreatorMany: several coins at once, each in its primary currency; a
\* coin with nothing pending is skipped.
ClaimCreatorMany(caller, cs) ==
    LET taken(c, q) == c \in cs /\ q = primary[c]
    IN  /\ ~Locked
        /\ \A c \in cs : Known(c) /\ caller = creatorOf[c]
        /\ \E c \in cs : creatorPending[c][primary[c]] # 0
        /\ creatorPending' = [c \in Coins |-> [q \in Quotes |->
                                 IF taken(c, q) THEN 0 ELSE creatorPending[c][q]]]
        /\ due' = [s \in Slots |-> [q \in Quotes |->
                      IF s \in Coins /\ taken(s, q) THEN creatorPending[s][q] ELSE 0]]
        /\ payee' = caller
        /\ UNCHANGED <<hookVars, claims, platformPending, referralPending,
                       destinationPending, authorPending, attribution, tweetAttestor,
                       authorHistory>>

ClaimReferral(caller, q) ==
    /\ ~Locked
    /\ referralPending[caller][q] # 0
    /\ referralPending' = [referralPending EXCEPT ![caller][q] = 0]
    /\ due' = [due EXCEPT ![NoCoin][q] = referralPending[caller][q]] /\ payee' = caller
    /\ UNCHANGED <<hookVars, claims, platformPending, creatorPending, destinationPending,
                   authorPending, attribution, tweetAttestor, authorHistory>>

ClaimPlatform(q) ==
    /\ ~Locked
    /\ platformPending[q] # 0
    /\ platformPending' = [platformPending EXCEPT ![q] = 0]
    /\ due' = [due EXCEPT ![NoCoin][q] = platformPending[q]] /\ payee' = Treasury
    /\ UNCHANGED <<hookVars, claims, referralPending, creatorPending, destinationPending,
                   authorPending, attribution, tweetAttestor, authorHistory>>

\* Both ways the author balance leaves: claimAuthor(For) by the bound wallet, at
\* any time, and reclaimExpiredAuthor(For) by the treasury, after the lock.
PayAuthorBalance(m, whom) ==
    LET c == m[1]  q == m[2]
    IN  /\ ~Locked
        /\ Registered(m)
        /\ attribution[c].share # 0
        /\ authorPending[c][q] # 0
        /\ authorPending' = [authorPending EXCEPT ![c][q] = 0]
        /\ due' = [due EXCEPT ![c][q] = authorPending[c][q]] /\ payee' = whom
        /\ UNCHANGED <<hookVars, claims, platformPending, referralPending, creatorPending,
                       destinationPending, attribution, tweetAttestor, authorHistory>>

ClaimAuthor(caller, m) ==
    /\ caller = attribution[m[1]].wallet
    /\ PayAuthorBalance(m, caller)

\* Faulty variant of ReclaimExpiredAuthor: no lock once the author has come forward.
ReclaimFromBound(m) ==
    /\ attribution[m[1]].wallet # NoAccount \/ now >= attribution[m[1]].verifyBy
    /\ PayAuthorBalance(m, Treasury)

ReclaimExpiredAuthor(m) ==
    /\ now >= attribution[m[1]].verifyBy
    /\ PayAuthorBalance(m, Treasury)

\* Faulty variant of PayNext: the asset is taken, the claims are not burned.
PayNextUnburned(s, q) ==
    /\ due[s][q] > 0
    /\ due' = [due EXCEPT ![s][q] = 0]
    /\ payee' = IF Locked' THEN payee ELSE NoAccount
    /\ UNCHANGED <<hookVars, claims, ledgers, attribution, tweetAttestor, authorHistory>>

\* unlockCallback: burn the claims of one payout and take the asset.
PayNext(s, q) ==
    /\ due[s][q] > 0
    /\ due[s][q] <= claims[Vault][q]
    /\ claims' = [claims EXCEPT ![Vault][q] = @ - due[s][q]]
    /\ due' = [due EXCEPT ![s][q] = 0]
    /\ payee' = IF Locked' THEN payee ELSE NoAccount
    /\ UNCHANGED <<hookVars, ledgers, attribution, tweetAttestor, authorHistory>>

-----------------------------------------------------------------------------
\* Author verification and the modules

\* verifyAuthor: binds the caller, once, with an attestation of the current key.
VerifyAuthor(a) ==
    /\ ~Locked
    /\ a.coin \in Coins
    /\ attribution[a.coin].share # 0
    /\ attribution[a.coin].wallet = NoAccount
    /\ now <= a.deadline
    /\ tweetAttestor # NoAccount
    /\ a.signer = tweetAttestor
    /\ attribution' = [attribution EXCEPT ![a.coin].wallet = a.wallet]
    /\ UNCHANGED <<hookVars, claims, ledgers, tweetAttestor, due, payee, authorHistory>>

SetTweetAttestor(key) ==
    /\ tweetAttestor' = key
    /\ UNCHANGED <<hookVars, claims, ledgers, attribution, due, payee, authorHistory>>

\* pullDestination and pullDestinationFor, for the markets ms of one module: the
\* claims themselves move.  A market with nothing pending returns 0.
CanPull(module, ms) ==
    /\ ~Locked
    /\ \A m \in ms : Registered(m) /\ ModuleOf(m) = module
PulledIn(ms, q) == Total([c \in {x \in Coins : <<x, q>> \in ms} |-> destinationPending[c][q]])

\* Faulty variant of PullDestination: the ledger is not zeroed.
PullUncleared(module, ms) ==
    /\ destinationPending' = destinationPending
    /\ claims' = [claims EXCEPT ![Vault] = [q \in Quotes |-> @[q] - PulledIn(ms, q)],
                                ![module] = [q \in Quotes |-> @[q] + PulledIn(ms, q)]]

PullDestination(module, ms) ==
    /\ destinationPending' = [c \in Coins |-> [q \in Quotes |->
                                 IF <<c, q>> \in ms THEN 0 ELSE destinationPending[c][q]]]
    /\ claims' = [claims EXCEPT ![Vault] = [q \in Quotes |-> @[q] - PulledIn(ms, q)],
                                ![module] = [q \in Quotes |-> @[q] + PulledIn(ms, q)]]

ModulePull(m) ==
    /\ Registered(m)
    /\ ModuleOf(m) # "none"
    /\ CanPull(ModuleOf(m), {m})
    /\ PullDestination(ModuleOf(m), {m})
    /\ UNCHANGED <<hookVars, platformPending, referralPending, creatorPending, authorPending,
                   attribution, tweetAttestor, due, payee, authorHistory>>

-----------------------------------------------------------------------------

FeeStep ==
    \/ \E p \in LaunchPlans : \E buys \in [p.quotes -> TradeSizes \cup {0}] : Launch(p, buys)
    \/ \E m \in Markets, exactIn \in BOOLEAN, size \in TradeSizes,
          referrer \in Accounts \cup {NoAccount} : Trade(m, exactIn, size, referrer)

ClaimStep ==
    \/ \E m \in Markets, caller \in Accounts : ClaimCreator(caller, m) \/ ClaimAuthor(caller, m)
    \/ \E m \in Markets : ReclaimExpiredAuthor(m)
    \/ \E cs \in SUBSET Coins, caller \in Accounts : ClaimCreatorMany(caller, cs)
    \/ \E q \in Quotes, caller \in Accounts : ClaimReferral(caller, q)
    \/ \E q \in Quotes : ClaimPlatform(q)
    \/ \E s \in Slots, q \in Quotes : PayNext(s, q)

AuthorStep ==
    \/ \E a \in Attestations : VerifyAuthor(a)
    \/ \E key \in Attestors \cup {NoAccount} : SetTweetAttestor(key)

\* Handlers of the hook that a recipient may also call in the middle of a claim,
\* and the clock, which does not move within a transaction.
HookStep ==
    /\ CreatorStep \/ (~Locked /\ Tick)
    /\ UNCHANGED vaultVars

\* What happens besides a destination module pulling its share.
VaultStep == FeeStep \/ ClaimStep \/ AuthorStep \/ HookStep

\* What a recipient can do in the middle of a payout another contract makes, when
\* the PoolManager is unlocked but the vault's own guard is free.
InsidePayout ==
    \/ \E m \in Markets, exactIn \in BOOLEAN, size \in TradeSizes :
          Trade(m, exactIn, size, NoAccount)
    \/ AuthorStep
    \/ CreatorStep /\ UNCHANGED vaultVars

VaultNext == VaultStep \/ \E m \in Markets : ModulePull(m)

VaultSpec == VaultInit /\ [][VaultNext]_allVaultVars

-----------------------------------------------------------------------------

\* Seen by the destination modules.
Escrow == INSTANCE FeeEscrow WITH
    Modules <- Holders \ {Vault}, NoModule <- "none",
    moduleOf <- [m \in Markets |-> IF Registered(m) THEN ModuleOf(m) ELSE "none"],
    pending <- [m \in Markets |-> destinationPending[m[1]][m[2]]],
    held <- [h \in Holders \ {Vault} |-> claims[h]]

\* The vault keeps the promise of FeeEscrow: a market's share leaves only whole
\* and only to the market's module, and no creator coin accumulates one.
ImplementsEscrow == Escrow!EscrowSpec

Amount == [Quotes -> Nat]

VaultTypeOK ==
    /\ claims \in [Holders -> Amount]
    /\ platformPending \in Amount
    /\ referralPending \in [Accounts -> Amount]
    /\ creatorPending \in [Coins -> Amount]
    /\ destinationPending \in [Coins -> Amount]
    /\ authorPending \in [Coins -> Amount]
    /\ attribution \in [Coins -> [share : 0 .. BPS, verifyBy : Nat,
                                  wallet : Accounts \cup {NoAccount}]]
    /\ tweetAttestor \in Attestors \cup {NoAccount}
    /\ due \in [Slots -> Amount] /\ payee \in Accounts \cup {Treasury, NoAccount}

\* What the vault owes in a currency to people and modules, and what the claim
\* in progress still has to pay.
Owed(q) ==
    platformPending[q]
      + Total([a \in Accounts |-> referralPending[a][q]])
      + Total([c \in Coins |-> creatorPending[c][q]])
      + Total([c \in Coins |-> destinationPending[c][q]])
      + Total([c \in Coins |-> authorPending[c][q]])
InFlight(q) == Total([s \in Slots |-> due[s][q]])

\* FeeVault.sol, note 1: the vault's claims are exactly what it owes, in every
\* currency and also in the middle of a claim, whatever the recipient calls.
VaultSolvent == \A q \in Quotes : claims[Vault][q] = Owed(q) + InFlight(q)

\* Since launch, first buys included, the author was credited the disclosed
\* share of everything that went to the creator side, within the fraction of a
\* unit each credit rounds down.
AuthorShareHonoured ==
    \A c \in Coins, q \in Quotes :
        LET h == authorHistory[c][q]
        IN  attribution[c].share # 0 /\ Known(c) =>
              h.base * attribution[c].share - h.accrued * BPS
                 \in 0 .. h.credits * (BPS - 1)

ReserveToWhom ==
    \A c \in Coins, q \in Quotes :
        authorPending'[c][q] < authorPending[c][q] =>
           /\ due'[c][q] = authorPending[c][q] - authorPending'[c][q]
           /\ \/ payee' \in Accounts /\ payee' = attribution[c].wallet
              \/ payee' = Treasury /\ now >= pools[PrimaryMarket(c)].launchedAt + AuthorLock
PayeeStays == Locked /\ Locked' => payee' = payee

\* What is set aside for the author of a tweet leaves as one payout, made to the wallet
\* bound to the coin or, once the lock has run from the launch of the coin's markets, to
\* the treasury; and a payout goes to whom it was begun for, whatever its recipients do
\* in between.
AuthorReserveLocked == [][ReserveToWhom /\ PayeeStays]_allVaultVars

=============================================================================
